------------------------- MODULE AutoUvScan_proofs -------------------------
(***************************************************************************)
(* For any curve, tiers and settings, and however often the process dies:  *)
(* nothing that was found unsafe or deadly is forgotten, no probe runs at  *)
(* a point that closes over a deadly one, the marker and the blacklist     *)
(* implement ProbeLedger, and a tier that is done stays done as saved.     *)
(***************************************************************************)
EXTENDS AutoUvScan, TLAPS, WellFoundedInduction

(***************************************************************************)
(* The inductive invariant. While a scan is live, what harmed before it is *)
(* on both lists, the one on disk and the one in memory, so that whichever *)
(* list a search asks, it is refused. What has harmed since is on the list *)
(* on disk; the marker stands for the probe in progress and for nothing    *)
(* else, so that it may be written and removed without loss.               *)
(***************************************************************************)
InTier == pc \in {"descent", "climb", "choose", "soak", "saved", "verified"}
Live == InTier \/ pc \in {"baseline", "tiers"}
OnTrial == probe.step \in {"running", "judged"} /\ Marks(probe.for)

DataInv ==
    /\ Live => ckpt \in Checkpoints
    /\ InTier => turn > 0 /\ search.here \in Points
    /\ pc \in {"saved", "verified"} => saved[Tier] \in Points
    /\ recovery.tier # "" => recovery.at \in Points

MarkerInv ==
    /\ OnTrial => marker = probe.at
    /\ pc = "open" \/ (Live /\ ~OnTrial) => marker = NoPoint

HarmInv ==
    /\ pc \in {"unlink", "open"} \/ Live => \A p \in harm.found \cup harm.died : Blocked(unsafe, p, "")
    /\ Live => \A p \in harm.died : Blocked(mem, p, "")

IInv == TypeOK /\ DataInv /\ MarkerInv /\ HarmInv /\ NothingForgotten /\ NoSecondDeath

-----------------------------------------------------------------------------
(* Smallest and greatest members. *)

\* A set of naturals has a smallest member.
LEMMA MinIsMember ==
    ASSUME NEW S \in SUBSET Nat, S # {}
    PROVE  Min(S) \in S /\ \A y \in S : Min(S) <= y
<1> DEFINE R == {ss \in Nat \X Nat : ss[1] < ss[2]}
<1>1. IsWellFoundedOn(R, Nat)
  BY NatLessThanWellFounded, Zenon DEF OpToRel
<1>2. PICK x \in S : \A y \in S : ~ (<<y, x>> \in R)
  <2> HIDE DEF R
  <2> QED BY <1>1, WFMin
<1>3. \A y \in S : x <= y
  <2> SUFFICES ASSUME NEW y \in S PROVE x <= y
    OBVIOUS
  <2>1. ~ (<<y, x>> \in R)
    BY <1>2
  <2>2. <<y, x>>[1] = y /\ <<y, x>>[2] = x /\ <<y, x>> \in Nat \X Nat
    OBVIOUS
  <2>3. ~ (y < x)
    BY <2>1, <2>2
  <2> QED BY <2>3
<1> QED BY <1>3 DEF Min

\* A bounded set of naturals has a greatest member.
LEMMA MaxIsMember ==
    ASSUME NEW n \in Nat, NEW S \in SUBSET (1..n), S # {}
    PROVE  Max(S) \in S
<1> DEFINE T == {n - s : s \in S}
<1>1. T \in SUBSET Nat /\ T # {}
  <2>1. \A s \in S : n - s \in Nat
    OBVIOUS
  <2> QED BY <2>1
<1>2. PICK t \in T : \A u \in T : t <= u
  <2> HIDE DEF T
  <2> QED BY <1>1, MinIsMember
<1>3. PICK s \in S : t = n - s
  OBVIOUS
<1>4. \A r \in S : s >= r
  <2> SUFFICES ASSUME NEW r \in S PROVE s >= r
    OBVIOUS
  <2>1. n - r \in T
    OBVIOUS
  <2>2. n - s <= n - r
    BY <1>2, <1>3, <2>1
  <2> QED BY <2>2
<1> QED BY <1>4 DEF Max

-----------------------------------------------------------------------------
(* The blacklist. *)

\* The band that an entry closes begins at or below its own clock.
LEMMA BandFloorBounds ==
    ASSUME NEW c \in Nat \ {0}
    PROVE  BandFloor(c) \in 1..c
<1> DEFINE below == {Curve[b] : b \in Bins} \cap (1..(c - 1))
           near  == {k \in below : Cardinality({j \in below : j > k}) < 2}
<1>1. near \cup {c} \in SUBSET (1..c) /\ near \cup {c} # {}
  OBVIOUS
<1> HIDE DEF near
<1>2. Min(near \cup {c}) \in near \cup {c}
  BY <1>1, MinIsMember
<1>3. BandFloor(c) = Min(near \cup {c})
  BY DEF BandFloor, near
<1> QED BY <1>1, <1>2, <1>3

\* What is recorded is an entry, added to the others, and closes its point.
LEMMA RecordedIsClosed ==
    ASSUME NEW list \in SUBSET Entries, NEW p \in Points, NEW why \in {"freeze", "fault"}
    PROVE  /\ RecordUnsafe(list, Entry(p, why)) = list \cup {Entry(p, why)}
           /\ Entry(p, why) \in Entries
           /\ Blocked({Entry(p, why)}, p, "")
<1>1. p.v \in Bins /\ p.c \in Nat \ {0} /\ p.v \in Nat
  BY CurveAssumption DEF Points
<1>2. BandFloor(p.c) \in 1..p.c
  BY <1>1, BandFloorBounds
<1>3. Entry(p, why) \in Entries
  <2>1. BandFloor(p.c) \in Nat \ {0} /\ BandFloor(p.c) <= p.c /\ p.c \in Nat
    BY <1>1, <1>2
  <2>2. Entry(p, why) \in [v : Bins, c : Nat, floor : Nat \ {0}, tier : {""}, why : {"freeze", "fault"}]
    BY <1>1, <2>1 DEF Entry
  <2>3. Entry(p, why).floor = BandFloor(p.c) /\ Entry(p, why).c = p.c
    BY DEF Entry
  <2> QED BY <2>1, <2>2, <2>3 DEF Entries
<1>4. \A e \in list : e.why # "controlled"
  BY DEF Entries
<1>5. BlocksPoint(Entry(p, why), p, "")
  BY <1>1, <1>2 DEF BlocksPoint, StillCounts, Entry
<1> QED BY <1>3, <1>4, <1>5 DEF RecordUnsafe, Blocked

\* A longer list closes no less.
LEMMA BlockedGrows ==
    ASSUME NEW list, NEW longer, list \subseteq longer, NEW p, NEW t, Blocked(list, p, t)
    PROVE  Blocked(longer, p, t)
  BY DEF Blocked

\* The order of the naturals is transitive.
LEMMA AtMostIsTransitive == \A i, j, k \in Nat : i <= j /\ j <= k => i <= k
  OBVIOUS

\* A closed point closes those that ask for no lower clock at no higher voltage.
LEMMA ClosedUpwards ==
    ASSUME NEW list \in SUBSET Entries, NEW d \in Points, NEW p \in Points, NEW t,
           Blocked(list, d, ""), p.v <= d.v, p.c >= d.c
    PROVE  Blocked(list, p, t)
<1>1. PICK e \in list : BlocksPoint(e, d, "")
  BY DEF Blocked
<1>2. e.v \in Nat /\ e.c \in Nat /\ e.floor \in Nat /\ e.tier = ""
  BY CurveAssumption DEF Entries
<1>3. d.v \in Nat /\ d.c \in Nat /\ p.v \in Nat /\ p.c \in Nat
  BY CurveAssumption DEF Points
<1>4. d.v <= e.v /\ (e.c > 0 => d.c >= e.floor) /\ e.why # "controlled"
  BY <1>1 DEF BlocksPoint, StillCounts
<1>5. p.v <= e.v /\ (e.c > 0 => p.c >= e.floor)
  <2>1. \A i, j, k \in Nat : i <= j /\ j <= k => i <= k
    BY AtMostIsTransitive
  <2>2. p.v <= e.v
    BY <2>1, <1>2, <1>3, <1>4
  <2>3. p.v \in Nat /\ d.c >= e.floor => p.c >= e.floor
    BY <2>1, <1>2, <1>3
  <2> QED BY <2>2, <2>3, <1>3, <1>4
<1>6. BlocksPoint(e, p, t)
  BY <1>2, <1>4, <1>5 DEF BlocksPoint, StillCounts
<1> QED BY <1>6 DEF Blocked

-----------------------------------------------------------------------------
(* The points that are taken. *)

\* There is a tier at any time.
LEMMA TierIsTier == ASSUME TypeOK PROVE Tier \in Tiers /\ Tier # ""
<1>1. Order \in Seq({"efficiency", "balanced", "performance"}) /\ Order # <<>>
  BY ScanAssumption
<1>2. Len(Order) \in Nat \ {0} /\ DOMAIN Order = 1..Len(Order)
  BY <1>1
<1>3. \A i \in 1..Len(Order) : Order[i] \in {"efficiency", "balanced", "performance"}
  BY <1>1
<1>4. \A i \in 1..Len(Order) : Order[i] \in Tiers /\ Order[i] # ""
  BY <1>2, <1>3 DEF Tiers, Range
<1>5. turn \in 0..Len(Order)
  BY DEF TypeOK
<1>6. IF turn = 0 THEN 1 \in 1..Len(Order) ELSE turn \in 1..Len(Order)
  BY <1>2, <1>5
<1> QED BY <1>4, <1>6 DEF Tier

\* The next lower voltage is one of the curve, or none.
LEMMA NextLowerIsBin == \A start, stable, min : NextLower(start, stable, min) \in Bins \cup {0}
<1> SUFFICES ASSUME NEW start, NEW stable, NEW min
             PROVE  NextLower(start, stable, min) \in Bins \cup {0}
  OBVIOUS
<1> DEFINE below == Lower(stable, min)
           stride == IF 10 * Max(below) >= 9 * start THEN 3 ELSE 1
           near == {b \in below : Cardinality({a \in below : a > b}) < stride}
<1>1. near \in SUBSET Bins
  BY DEF Lower
<1>2. NextLower(start, stable, min) = IF near = {} THEN 0 ELSE Min(near)
  BY DEF NextLower
<1> HIDE DEF near
<1>3. near # {} => Min(near) \in near
  BY <1>1, CurveAssumption, MinIsMember
<1> QED BY <1>1, <1>2, <1>3

\* So is the next higher one.
LEMMA NextHigherIsBin == \A v : NextHigher(v) \in Bins \cup {0}
<1> SUFFICES ASSUME NEW v PROVE NextHigher(v) \in Bins \cup {0}
  OBVIOUS
<1>1. Higher(v) \in SUBSET Bins
  BY DEF Higher
<1> QED BY <1>1, CurveAssumption, MinIsMember DEF NextHigher

\* The descent's next point.
LEMMA BelowIsPoint == ASSUME search.here \in Points, Below.v > 0 PROVE Below \in Points
<1>1. Below.v \in Bins \cup {0} /\ Below.c = search.here.c
  BY NextLowerIsBin DEF Below
<1>2. Below.v \in Bins /\ Below.c \in Nat \ {0}
  BY <1>1, CurveAssumption DEF Points
<1> QED BY <1>2 DEF Below, Points

\* The climb's next points.
LEMMA RungsArePoints == ASSUME search.here \in Points, NEW p \in Rungs PROVE p \in Points
<1> DEFINE up == {c \in Clocks : c > search.here.c}
<1>1. up \in SUBSET (Nat \ {0})
  BY CurveAssumption DEF Clocks
<1>2. up # {} /\ \E v \in Bins : p = [v |-> v, c |-> Min(up)]
  BY DEF Rungs
<1> HIDE DEF up
<1>3. Min(up) \in up
  BY <1>1, <1>2, MinIsMember
<1>4. PICK v \in Bins : p = [v |-> v, c |-> Min(up)]
  BY <1>2
<1>5. Min(up) \in Nat \ {0}
  BY <1>1, <1>2, <1>3
<1> QED BY <1>4, <1>5 DEF Points
\* The quotient times its divisor is no more than what was divided.
LEMMA DivBound ==
    ASSUME NEW a \in Nat, NEW b \in Nat \ {0}
    PROVE  b * (a \div b) \in Nat /\ b * (a \div b) <= a
  OBVIOUS

\* What an entry of the list says of a point.
LEMMA BlocksBelow ==
    ASSUME NEW list \in SUBSET Entries, NEW e \in list, NEW p, NEW t
    PROVE  BlocksPoint(e, p, t) <=> p.v <= e.v /\ p.c >= e.floor
<1>1. e.c \in Nat /\ e.floor \in Nat \ {0} /\ e.floor <= e.c /\ e.tier = "" /\ e.why # "controlled"
  BY DEF Entries
<1>2. \A i, j \in Nat : i # 0 /\ i <= j => j > 0
  OBVIOUS
<1>3. e.c > 0
  BY <1>1, <1>2
<1> QED BY <1>1, <1>3 DEF BlocksPoint, StillCounts

\* The baseline's clock is one that no entry closes.
LEMMA BaselineIsOpen ==
    ASSUME TypeOK, Baseline.c > 0
    PROVE  Baseline \in Points /\ ~Blocked(unsafe, Baseline, Tier)
<1> DEFINE clock == search.here.c
           hit == {f \in unsafe : BlocksPoint(f, [v |-> Load.v, c |-> clock], Tier)}
           floors == {e.floor : e \in hit}
<1>1. Load.v \in Bins /\ clock \in Int /\ unsafe \in SUBSET Entries
  BY ScanAssumption DEF TypeOK, Points, Searches
<1>2. Baseline = [v |-> Load.v, c |-> Lowered(clock)]
  BY DEF Baseline
<1>3. Lowered(clock) = IF floors = {} THEN clock ELSE ClockStep * ((Min(floors) - 1) \div ClockStep)
  BY DEF Lowered
<1>4. \A e \in unsafe : e.floor \in Nat \ {0} /\ e.v \in Nat
  BY <1>1, CurveAssumption DEF Entries
<1>5. \A e \in unsafe : e \in hit <=> Load.v <= e.v /\ clock >= e.floor
  BY <1>1, BlocksBelow
<1>6. CASE floors = {}
  <2>1. hit = {}
    BY <1>6
  <2>2. Baseline = [v |-> Load.v, c |-> clock]
    BY <1>2, <1>3, <1>6
  <2>3. ~Blocked(unsafe, Baseline, Tier)
    BY <2>1, <2>2 DEF Blocked
  <2> QED BY <1>1, <2>2, <2>3 DEF Points
<1>7. CASE floors # {}
  <2>1. floors \in SUBSET Nat
    BY <1>4
  <2>2. Min(floors) \in floors /\ \A y \in floors : Min(floors) <= y
    <3> HIDE DEF floors
    <3> QED BY <1>7, <2>1, MinIsMember
  <2> DEFINE m == Min(floors)
             low == ClockStep * ((m - 1) \div ClockStep)
  <2>3. PICK w \in hit : m = w.floor
    BY <2>2
  <2>4. m \in Nat \ {0} /\ clock >= m
    BY <2>3, <1>4, <1>5
  <2> HIDE DEF m
  <2>5. m - 1 \in Nat /\ ClockStep \in Nat \ {0}
    BY <2>4, CurveAssumption
  <2>6. low \in Nat /\ low <= m - 1
    BY <2>5, DivBound
  <2>7. Baseline = [v |-> Load.v, c |-> low]
    BY <1>2, <1>3, <1>7 DEF m
  <2> HIDE DEF low
  <2>8. low < m /\ low < clock
    BY <2>4, <2>6, <1>1
  <2>9. ASSUME NEW e \in unsafe PROVE ~BlocksPoint(e, Baseline, Tier)
    <3>1. BlocksPoint(e, Baseline, Tier) <=> Load.v <= e.v /\ low >= e.floor
      BY <1>1, <2>7, BlocksBelow
    <3>2. CASE e \in hit
      <4>1. m <= e.floor
        BY <2>2, <3>2 DEF m
      <4> QED BY <1>4, <2>4, <2>6, <2>8, <3>1, <4>1
    <3>3. CASE e \notin hit
      <4>1. ~(Load.v <= e.v /\ clock >= e.floor)
        BY <1>5, <3>3
      <4> QED BY <1>1, <1>4, <2>6, <2>8, <3>1, <4>1
    <3> QED BY <3>2, <3>3
  <2>10. low > 0
    BY <2>7
  <2> QED BY <1>1, <2>6, <2>7, <2>9, <2>10 DEF Points, Blocked
<1> QED BY <1>6, <1>7

\* An interrupted tier resumes at a point of the curve.
LEMMA RecoveryIsPoint ==
    ASSUME TypeOK
    PROVE  /\ Recovery \in [tier : Tiers \cup {""}, at : MaybePoints]
           /\ Recovery.tier # "" => Recovery.at \in Points
<1> DEFINE t == ckpt.started
           end == IF interrupted # NoPoint THEN interrupted ELSE ckpt.failed
           sources == Resumable(PassedBy(t), unsafe, end, t)
           at == ResumePoint(PassedBy(t), unsafe, end, t)
<1>1. Recovery = NoRecovery \/ (Resuming /\ sources # {} /\ Recovery = [tier |-> t, at |-> at])
  BY DEF Recovery
<1>2. CASE Recovery = NoRecovery
  BY <1>2 DEF NoRecovery, MaybePoints
<1>3. CASE Resuming /\ sources # {} /\ Recovery = [tier |-> t, at |-> at]
  <2>1. ckpt \in Checkpoints
    BY <1>3 DEF TypeOK, Resuming, Accepted
  <2>2. t \in Tiers /\ ckpt.passed \in Seq([tier : Tiers, at : Points])
    BY <2>1 DEF Checkpoints
  <2>3. /\ Len(ckpt.passed) \in Nat /\ DOMAIN ckpt.passed = 1..Len(ckpt.passed)
        /\ \A i \in DOMAIN ckpt.passed : ckpt.passed[i] \in [tier : Tiers, at : Points]
    <3>1. \A S : \A s \in Seq(S) :
             Len(s) \in Nat /\ DOMAIN s = 1..Len(s) /\ \A i \in DOMAIN s : s[i] \in S
      OBVIOUS
    <3> QED BY <2>2, <3>1, Zenon
  <2>4. /\ DOMAIN PassedBy(t) \subseteq DOMAIN ckpt.passed
        /\ \A i \in DOMAIN PassedBy(t) : PassedBy(t)[i] \in Points
    BY <2>3 DEF PassedBy
  <2>5. sources \subseteq DOMAIN PassedBy(t) /\ \A i \in sources : NextHigher(PassedBy(t)[i].v) > 0
    BY DEF Resumable
  <2> DEFINE m == Max(sources)
  <2>6. m \in sources
    <3>1. sources \in SUBSET (1..Len(ckpt.passed))
      BY <2>3, <2>4, <2>5
    <3> HIDE DEF sources
    <3> QED BY <1>3, <2>3, <3>1, MaxIsMember
  <2>7. at = [v |-> NextHigher(PassedBy(t)[m].v), c |-> PassedBy(t)[m].c]
    BY <1>3 DEF ResumePoint, ResumeFrom
  <2> HIDE DEF m, sources
  <2>8. PassedBy(t)[m] \in Points /\ NextHigher(PassedBy(t)[m].v) > 0
    BY <2>4, <2>5, <2>6
  <2>9. NextHigher(PassedBy(t)[m].v) \in Bins
    BY <2>8, NextHigherIsBin
  <2>10. at \in Points
    <3>1. PassedBy(t)[m].c \in Nat \ {0}
      BY <2>8 DEF Points
    <3> HIDE DEF at
    <3> QED BY <2>7, <2>9, <3>1 DEF Points
  <2> QED BY <1>3, <2>2, <2>10 DEF MaybePoints
<1> QED BY <1>1, <1>2, <1>3

\* A new checkpoint is one, and so is one that has caught up with its replay.
LEMMA CheckpointsKept ==
    ASSUME TypeOK
    PROVE  /\ NewCheckpoint \in Checkpoints
           /\ ckpt \in Checkpoints => SavedProgress \in Checkpoints
<1>1. NewCheckpoint \in Checkpoints
  <2>1. Order[1] \in Tiers
    BY ScanAssumption DEF Tiers, Range
  <2>2. NoProfiles \in [Tiers -> MaybePoints] /\ saved \in [Tiers -> MaybePoints] /\ NoPoint \in MaybePoints
    BY DEF NoProfiles, MaybePoints, TypeOK
  <2> QED BY <2>1, <2>2 DEF NewCheckpoint, Checkpoints
<1>2. ASSUME ckpt \in Checkpoints PROVE SavedProgress \in Checkpoints
  <2>1. Tier \in Tiers /\ pending.failed \in MaybePoints /\ NoPoint \in MaybePoints
    BY TierIsTier DEF TypeOK, MaybePoints
  <2>2. /\ ckpt.ever \in SUBSET Tiers /\ ckpt.started \in Tiers /\ ckpt.failed \in MaybePoints
    BY <1>2 DEF Checkpoints
  <2>3. ASSUME NEW e \in SUBSET Tiers, NEW t \in Tiers, NEW f \in MaybePoints
        PROVE  [ckpt EXCEPT !.ever = e, !.started = t, !.failed = f] \in Checkpoints
    BY <1>2, <2>3 DEF Checkpoints
  <2>4. Flushed(ckpt) \in Checkpoints
    <3> DEFINE tells == pending.start /\ Tier \notin ckpt.ever
               e == IF tells THEN ckpt.ever \cup {Tier} ELSE ckpt.ever
               t == IF tells THEN Tier ELSE ckpt.started
               f == IF pending.failed # NoPoint THEN pending.failed
                    ELSE IF tells THEN NoPoint ELSE ckpt.failed
    <3>1. Flushed(ckpt) = [ckpt EXCEPT !.ever = e, !.started = t, !.failed = f]
      BY DEF Flushed
    <3>2. e \in SUBSET Tiers /\ t \in Tiers /\ f \in MaybePoints
      BY <2>1, <2>2
    <3> HIDE DEF e, t, f
    <3>3. [ckpt EXCEPT !.ever = e, !.started = t, !.failed = f] \in Checkpoints
      BY <2>3, <3>2, Zenon
    <3> QED BY <3>1, <3>3, Zenon
  <2> QED BY <1>2, <2>4 DEF SavedProgress
<1> QED BY <1>1, <1>2

-----------------------------------------------------------------------------
(* The steps that leave the marker and both lists alone, or only add to the *)
(* list in memory, and start no probe.                                      *)

\* No point is none of the points.
LEMMA NoPointIsNone ==
    /\ NoPoint \in MaybePoints /\ Points \subseteq MaybePoints /\ NoPoint \notin Points
    /\ \A p \in MaybePoints : p # NoPoint => p \in Points
<1>1. 0 \notin Bins
  BY CurveAssumption
<1>2. NoPoint.v = 0 /\ \A p \in Points : p.v \in Bins
  BY DEF NoPoint, Points
<1> QED BY <1>1, <1>2 DEF MaybePoints

\* A probe is only ever in progress in its phase, of a scan that is live.
LEMMA ProbeIsLive ==
    ASSUME IInv
    PROVE  /\ probe.step # "idle" => /\ probe.at \in Points /\ probe.for = pc /\ pc \in Phases
                                     /\ Live /\ ckpt \in Checkpoints
                                     /\ Marks(probe.for) => InTier
           /\ pc \notin Phases => probe.step = "idle"
           /\ Live => ckpt \in Checkpoints
<1>1. probe.step # "idle" => probe.at \in Points /\ probe.for = pc /\ pc # ""
  BY DEF IInv, TypeOK, Probings
<1>2. probe.for \in Phases \cup {""}
  BY DEF IInv, TypeOK, Probings
<1>3. pc \in Phases => Live /\ (pc # "baseline" => InTier)
  BY DEF Phases, Live, InTier
<1>4. Live => ckpt \in Checkpoints
  BY DEF IInv, DataInv
<1> QED BY <1>1, <1>2, <1>3, <1>4 DEF Marks

\* No probe is started, and what was written stays.
Quiet ==
    /\ UNCHANGED <<marker, unsafe, harm>> /\ mem \subseteq mem'
    /\ (Live' => Live) /\ pc' \notin {"unlink", "open"}
    /\ probe' = probe \/ (~OnTrial /\ probe'.step \notin {"running", "judged"})

\* Such a step keeps the invariant if it keeps the types.
LEMMA Steady == ASSUME IInv, TypeOK', DataInv', Quiet PROVE IInv'
<1>1. MarkerInv'
  BY DEF Quiet, IInv, MarkerInv, OnTrial, Marks
<1>2. HarmInv'
  <2>1. \A p : Blocked(unsafe, p, "") => Blocked(unsafe', p, "")
    BY DEF Quiet, Blocked
  <2>2. \A p : Blocked(mem, p, "") => Blocked(mem', p, "")
    BY DEF Quiet, Blocked
  <2>3. harm' = harm
    BY DEF Quiet
  <2> QED BY <2>1, <2>2, <2>3 DEF Quiet, IInv, HarmInv
<1>3. NothingForgotten'
  BY DEF Quiet, IInv, NothingForgotten, Blocked
<1>4. NoSecondDeath'
  BY DEF Quiet, IInv, NoSecondDeath
<1> QED BY <1>1, <1>2, <1>3, <1>4 DEF IInv

\* The searches begin with points.
LEMMA SearchTypes ==
    /\ NoSearch \in Searches
    /\ \A p \in Points : From(p) \in Searches /\ From(p).here = p
    /\ \A s \in Searches, p \in Points :
          LET t == [s EXCEPT !.here = p, !.tested = @ \cup {p}] IN t \in Searches /\ t.here = p
    /\ \A s \in Searches, p \in Points :
          LET t == [s EXCEPT !.tried = @ \cup {p}] IN t \in Searches /\ t.here = s.here
    /\ \A s \in Searches, p \in Points :
          LET t == [s EXCEPT !.here = p] IN t \in Searches /\ t.here = p
<1>1. NoPoint \in [v : Bins \cup {0}, c : Int]
  BY DEF NoPoint
<1>2. \A p \in Points : p \in [v : Bins \cup {0}, c : Int]
  BY CurveAssumption DEF Points
<1> QED BY <1>1, <1>2 DEF NoSearch, From, Searches

\* A probe keeps its type from step to step.
LEMMA ProbeTypes ==
    /\ NoProbe \in Probings /\ NoProbe.step = "idle"
    /\ \A q \in Probings, step \in {"idle", "running", "judged", "measured", "saved", "known"} :
          LET r == [q EXCEPT !.step = step]
          IN  r \in Probings /\ r.step = step /\ r.at = q.at /\ r.for = q.for
  BY NoPointIsNone DEF NoProbe, Probings, Severities, Pass

\* The result of a probe is saved.
LEMMA SaveResultSafe == ASSUME IInv, SaveResult PROVE IInv'
<1>1. ckpt' \in Checkpoints
  <2> DEFINE key == Key(probe.at, probe.for)
             new == [at |-> key.at, for |-> key.for, in |-> key.in,
                     sev |-> probe.verdict.sev, why |-> probe.verdict.why]
             kept == {r \in ckpt.records : KeyOf(r) # key}
  <2>0. ckpt \in Checkpoints
    BY ProbeIsLive DEF SaveResult
  <2>1. ckpt' = [ckpt EXCEPT !.records = kept \cup {new}]
    BY DEF SaveResult
  <2>2. new \in [at : Points, for : Phases, in : Tiers \cup Range(Regime),
                 sev : Severities, why : {"", "fault"}]
    <3>1. Tier \in Tiers /\ Regime[Tier] \in Range(Regime)
      BY TierIsTier, ScanAssumption DEF IInv, Range
    <3>2. key.at = probe.at /\ key.for = probe.for /\ key.in \in Tiers \cup Range(Regime)
      BY <3>1 DEF Key
    <3>3. probe.at \in Points /\ probe.for \in Phases /\ probe.verdict.sev \in Severities
          /\ probe.verdict.why \in {"", "fault"}
      BY ProbeIsLive DEF SaveResult, IInv, TypeOK, Probings
    <3> HIDE DEF key
    <3> QED BY <3>2, <3>3
  <2> HIDE DEF new
  <2> QED BY <2>0, <2>1, <2>2 DEF Checkpoints
<1>2. TypeOK'
  BY <1>1, ProbeIsLive, ProbeTypes DEF IInv, TypeOK, SaveResult, session
<1>3. DataInv'
  BY <1>1 DEF IInv, DataInv, SaveResult, session, Live, InTier, Tier
<1>4. Quiet
  BY ProbeIsLive, ProbeTypes DEF Quiet, SaveResult, session, OnTrial, IInv, TypeOK, Live, InTier, Phases
<1> QED BY <1>2, <1>3, <1>4, Steady

\* A search and a probe that are over are well typed.
LEMMA NothingTypes == NoSearch \in Searches /\ NoProbe \in Probings /\ NoProbe.step = "idle"
  BY SearchTypes, ProbeTypes

\* Turns are counted.
LEMMA TurnIsNat == ASSUME TypeOK PROVE turn \in Nat /\ Len(Order) \in Nat
<1>1. Len(Order) \in Nat
  BY ScanAssumption
<1>2. turn \in 0..Len(Order)
  BY DEF TypeOK
<1>3. \A n \in Nat : \A i \in 0..n : i \in Nat
  OBVIOUS
<1> QED BY <1>1, <1>2, <1>3

\* A baseline that is measured.
LEMMA BaselinePassesSafe == ASSUME IInv, BaselinePasses PROVE IInv'
<1>1. probe.at \in Points /\ ckpt \in Checkpoints
  BY ProbeIsLive DEF BaselinePasses, Takes
<1>2. base' \in [Range(Regime) -> MaybePoints]
  BY <1>1, NoPointIsNone DEF BaselinePasses, IInv, TypeOK
<1>3. search' \in Searches /\ search'.here \in Points
  BY <1>1, SearchTypes DEF BaselinePasses
<1>4. TypeOK'
  BY <1>2, <1>3, ProbeTypes DEF IInv, TypeOK, BaselinePasses, Takes, disk
<1>5. pc' = IF turn = 0 THEN "tiers" ELSE "descent"
  BY DEF BaselinePasses
<1>6. DataInv'
  <2>1. UNCHANGED <<ckpt, turn, recovery>> /\ turn \in Nat
    BY TurnIsNat DEF BaselinePasses, disk, IInv
  <2>2. recovery.tier # "" => recovery.at \in Points
    BY DEF IInv, DataInv
  <2>3. pc' \in {"tiers", "descent"} /\ (pc' = "descent" => turn' > 0)
    BY <1>5, <2>1
  <2>4. ckpt' \in Checkpoints /\ (recovery'.tier # "" => recovery'.at \in Points)
    BY <1>1, <2>1, <2>2
  <2> QED BY <1>3, <2>3, <2>4 DEF DataInv, InTier
<1>7. Quiet
  BY ProbeIsLive DEF Quiet, OnTrial, Live, InTier, NoProbe, BaselinePasses, Takes, disk, Phases
<1> QED BY <1>4, <1>6, <1>7, Steady

\* A tier that starts, or fails as it starts.
LEMMA TierStartsSafe == ASSUME IInv, TierStarts PROVE IInv'
<1>1. NextTier \in Tiers /\ turn + 1 \in 0..Len(Order) /\ turn + 1 > 0
  <2>1. turn \in Nat /\ Len(Order) \in Nat /\ turn < Len(Order)
    BY TurnIsNat DEF TierStarts, IInv
  <2>2. turn + 1 \in 1..Len(Order)
    BY <2>1
  <2>3. DOMAIN Order = 1..Len(Order)
    BY ScanAssumption
  <2> QED BY <2>1, <2>2, <2>3 DEF NextTier, Tiers, Range
<1>2. ckpt \in Checkpoints
  BY DEF TierStarts, IInv, DataInv, Live
<1>3. ckpt' \in Checkpoints
  <2>1. [ckpt EXCEPT !.started = NextTier, !.ever = @ \cup {NextTier}, !.failed = NoPoint] \in Checkpoints
    BY <1>1, <1>2, NoPointIsNone DEF Checkpoints
  <2>2. ckpt' \in {ckpt, [ckpt EXCEPT !.started = NextTier, !.ever = @ \cup {NextTier}, !.failed = NoPoint]}
    BY DEF TierStarts
  <2> QED BY <1>2, <2>1, <2>2
<1>4. pending' \in [start : BOOLEAN, failed : MaybePoints]
  <2>1. pending' \in {pending, [start |-> TRUE, failed |-> NoPoint]}
    BY DEF TierStarts
  <2>2. [start |-> TRUE, failed |-> NoPoint] \in [start : BOOLEAN, failed : MaybePoints]
    BY NoPointIsNone
  <2>3. pending \in [start : BOOLEAN, failed : MaybePoints]
    BY DEF IInv, TypeOK
  <2> QED BY <2>1, <2>2, <2>3
<1>5. base[Regime[NextTier]] \in MaybePoints
  BY <1>1, ScanAssumption DEF IInv, TypeOK, Range
<1>6. /\ search' \in Searches /\ failed' \in BOOLEAN
      /\ pc' \in {"tiers", "finish", "error", "baseline", "descent"}
      /\ pc' = "descent" => search'.here \in Points
  <2> DEFINE measured == base[Regime[NextTier]]
  <2>1. \/ failed' = failed /\ measured = NoPoint /\ pc' = "baseline" /\ search' = From(Load)
        \/ failed' = failed /\ measured # NoPoint /\ pc' = "descent" /\ search' = From(measured)
        \/ failed' = TRUE /\ pc' \in {"tiers", "finish", "error"} /\ search' = NoSearch
    BY DEF TierStarts, TierFails
  <2>2. Load \in Points /\ failed \in BOOLEAN /\ (measured # NoPoint => measured \in Points)
    BY <1>5, ScanAssumption, NoPointIsNone DEF IInv, TypeOK
  <2> HIDE DEF measured
  <2> QED BY <2>1, <2>2, SearchTypes
<1>7. /\ UNCHANGED <<marker, unsafe, saved, interrupted, mem, base, replaying, recovery, results,
                     donation, probe, starts, harm>>
      /\ turn' = turn + 1 /\ pc = "tiers"
  BY DEF TierStarts
<1>8. probe.step = "idle"
  BY <1>7, ProbeIsLive DEF Phases
<1>9. TypeOK'
  BY <1>1, <1>3, <1>4, <1>6, <1>7, <1>8 DEF IInv, TypeOK
<1>10. DataInv'
  BY <1>1, <1>3, <1>6, <1>7 DEF DataInv, IInv, InTier, Live
<1>11. Quiet
  BY <1>6, <1>7 DEF Quiet, Live, InTier
<1> QED BY <1>9, <1>10, <1>11, Steady

\* A recovery begins at a point of the curve.
LEMMA DescentResumesSafe == ASSUME IInv, DescentResumes PROVE IInv'
<1>1. ckpt \in Checkpoints /\ ckpt' \in Checkpoints
  BY CheckpointsKept DEF DescentResumes, IInv, DataInv, Live, InTier
<1>2. recovery.at \in Points
  BY TierIsTier DEF DescentResumes, Resumes, IInv, DataInv
<1>3. \A i \in DOMAIN PassedBy(Tier) : PassedBy(Tier)[i] \in Points
  <2>1. ckpt.passed \in Seq([tier : Tiers, at : Points])
    BY <1>1 DEF Checkpoints
  <2>2. \A S : \A s \in Seq(S) : \A i \in DOMAIN s : s[i] \in S
    OBVIOUS
  <2>3. \A i \in DOMAIN ckpt.passed : ckpt.passed[i] \in [tier : Tiers, at : Points]
    BY <2>1, <2>2, Zenon
  <2> QED BY <2>3 DEF PassedBy
<1>4. {p \in Range(PassedBy(Tier)) : ~Blocked(unsafe, p, Tier)} \in SUBSET Points
  BY <1>3 DEF Range
<1>5. search' \in Searches /\ search'.here \in Points
  <2>1. recovery.at \in [v : Bins \cup {0}, c : Int]
    BY <1>2, CurveAssumption DEF Points
  <2>2. ASSUME NEW S \in SUBSET Points
        PROVE  LET t == [search EXCEPT !.here = recovery.at, !.resumed = TRUE, !.tested = S]
               IN  t \in Searches /\ t.here = recovery.at
    BY <2>1 DEF IInv, TypeOK, Searches
  <2> QED BY <1>2, <1>4, <2>2 DEF DescentResumes
<1>6. TypeOK'
  BY <1>1, <1>5, NoPointIsNone DEF IInv, TypeOK, DescentResumes, GoesLive, NoPending, tiers
<1>7. DataInv'
  BY <1>1, <1>5 DEF DescentResumes, DataInv, IInv, InTier, tiers
<1>8. Quiet
  BY DEF Quiet, DescentResumes, Live, InTier
<1> QED BY <1>6, <1>7, <1>8, Steady

\* Performance takes over what Balanced has found.
LEMMA DescentReusedSafe == ASSUME IInv, DescentReused PROVE IInv'
<1>1. donation.at \in Points /\ donation.history \in SUBSET Points
  BY NoPointIsNone DEF DescentReused, Donated, IInv, TypeOK
<1>2. search' \in Searches /\ search'.here \in Points
  <2>1. donation.at \in [v : Bins \cup {0}, c : Int]
    BY <1>1, CurveAssumption DEF Points
  <2>2. ASSUME NEW s \in Searches, NEW S \in SUBSET Points
        PROVE  LET t == [s EXCEPT !.here = donation.at, !.tested = @ \cup S]
               IN  t \in Searches /\ t.here = donation.at
    BY <2>1 DEF Searches
  <2>3. search \in Searches
    BY DEF IInv, TypeOK
  <2> QED BY <1>1, <2>2, <2>3 DEF DescentReused
<1>3. /\ UNCHANGED <<disk, interrupted, mem, replaying, pending, tiers, probe, starts, harm>>
      /\ pc' = "climb" /\ pc = "descent" /\ probe.step = "idle"
  BY DEF DescentReused
<1>4. TypeOK'
  BY <1>2, <1>3 DEF IInv, TypeOK, disk, tiers
<1>5. DataInv'
  BY <1>2, <1>3 DEF IInv, DataInv, InTier, Live, disk, tiers
<1>6. Quiet
  BY <1>3 DEF Quiet, Live, InTier, disk
<1> QED BY <1>4, <1>5, <1>6, Steady

\* What the list in memory learns of a failed descent is an entry.
LEMMA DescentFailsSafe == ASSUME IInv, DescentFails PROVE IInv'
<1>1. /\ UNCHANGED <<disk, turn, interrupted, base, replaying, pending, recovery, results, donation,
                   starts, harm>>
      /\ probe' = NoProbe /\ probe.step = "known" /\ pc = "descent"
      /\ search' \in {search, NoSearch} /\ failed' \in {failed, TRUE}
      /\ pc' \in {"tiers", "finish", "error"} \/ (pc' = "climb" /\ search' = search)
  BY ProbeIsLive DEF DescentFails, Takes, TierFails
<1>2. mem \subseteq mem' /\ mem' \in SUBSET Entries
  <2> DEFINE e == [v |-> probe.at.v, c |-> probe.at.c, floor |-> probe.at.c,
                   tier |-> "", why |-> Verdict.why]
  <2>1. probe.at \in Points /\ Verdict.why \in {"", "fault"} /\ mem \in SUBSET Entries
    BY <1>1, ProbeIsLive DEF IInv, TypeOK, Verdict, Probings
  <2>2. Verdict.why # "" => e \in Entries
    <3>1. e.floor = e.c /\ e.c \in Nat \ {0} /\ e.v \in Bins
      BY <2>1 DEF Points
    <3>2. \A n \in Nat : n <= n
      OBVIOUS
    <3>3. e.floor <= e.c
      BY <3>1, <3>2
    <3>4. Verdict.why # "" => e \in [v : Bins, c : Nat, floor : Nat \ {0}, tier : {""},
                                     why : {"freeze", "fault"}]
      BY <2>1, <3>1
    <3> HIDE DEF e
    <3> QED BY <3>3, <3>4 DEF Entries
  <2>3. mem' = IF Verdict.why = "" THEN mem ELSE mem \cup {e}
    BY DEF DescentFails
  <2> HIDE DEF e
  <2> QED BY <2>1, <2>2, <2>3
<1>3. TypeOK'
  BY <1>1, <1>2, NothingTypes DEF IInv, TypeOK, disk
<1>4. DataInv'
  BY <1>1 DEF IInv, DataInv, InTier, Live, disk
<1>5. Quiet
  BY <1>1, <1>2, ProbeTypes DEF Quiet, OnTrial, Live, InTier, disk
<1> QED BY <1>3, <1>4, <1>5, Steady

\* The search goes on from a point, or the tier is over.
LEMMA MovesSafe ==
    ASSUME IInv, UNCHANGED <<disk, Kept, starts, harm>>, Live,
           (probe.step = "known" /\ probe' = NoProbe) \/ (probe.step = "idle" /\ probe' = probe),
           search' \in Searches, failed' \in BOOLEAN,
           \/ pc' \in {"tiers", "finish", "error"}
           \/ pc' = "baseline" /\ pc = "baseline"
           \/ InTier /\ pc' \in {"descent", "climb", "choose", "soak"} /\ search'.here \in Points
    PROVE  IInv'
<1>1. TypeOK'
  BY NothingTypes DEF IInv, TypeOK, disk, Kept
<1>2. DataInv'
  BY DEF IInv, DataInv, InTier, Live, disk, Kept
<1>3. Quiet
  BY NothingTypes DEF Quiet, OnTrial, Live, InTier, disk, Kept
<1> QED BY <1>1, <1>2, <1>3, Steady

\* The steps of a descent and of a climb.
LEMMA SearchingSafe ==
    ASSUME IInv, \/ DescentEnds \/ DescentPasses \/ ClimbEnds \/ ClimbPasses \/ ClimbFails
                 \/ \E p \in Rungs : ClimbSkips(p)
    PROVE  IInv'
<1>1. search \in Searches /\ failed \in BOOLEAN
  BY DEF IInv, TypeOK
<1>2. InTier => search.here \in Points
  BY DEF IInv, DataInv
<1>3. CASE DescentEnds \/ ClimbEnds
  <2>1. /\ UNCHANGED <<disk, Kept, starts, harm, search, failed, probe>> /\ probe.step = "idle"
        /\ InTier /\ Live /\ pc' \in {"climb", "choose"}
    BY <1>3 DEF DescentEnds, ClimbEnds, session, Kept, InTier, Live
  <2> QED BY <1>1, <1>2, <2>1, MovesSafe
<1>4. CASE DescentPasses \/ ClimbPasses
  <2>1. /\ UNCHANGED <<disk, Kept, starts, harm, failed, pc>>
        /\ probe.step = "known" /\ probe' = NoProbe /\ probe.for \in {"descent", "climb"}
        /\ search' = Passed(probe.at)
    BY <1>4 DEF DescentPasses, ClimbPasses, Takes, tiers, Kept
  <2>2. InTier /\ Live /\ pc \in {"descent", "climb"} /\ probe.at \in Points
    BY <2>1, ProbeIsLive DEF InTier, Live
  <2>3. search' \in Searches /\ search'.here \in Points
    BY <1>1, <2>1, <2>2, SearchTypes DEF Passed
  <2> QED BY <1>1, <2>1, <2>2, <2>3, MovesSafe
<1>5. CASE ClimbFails
  <2>1. /\ UNCHANGED <<disk, Kept, starts, harm>> /\ failed' \in {failed, TRUE}
        /\ probe.step = "known" /\ probe' = NoProbe /\ probe.for = "climb"
        /\ \/ pc' \in {"tiers", "finish", "error"} /\ search' = NoSearch
           \/ pc' \in {"choose", pc} /\ search' = [search EXCEPT !.tried = @ \cup {probe.at}]
    BY <1>5 DEF ClimbFails, Takes, TierFails
  <2>2. InTier /\ Live /\ pc = "climb" /\ probe.at \in Points
    BY <2>1, ProbeIsLive DEF InTier, Live
  <2>3. [search EXCEPT !.tried = @ \cup {probe.at}] \in Searches
        /\ [search EXCEPT !.tried = @ \cup {probe.at}].here = search.here
    BY <1>1, <2>2, SearchTypes
  <2> QED BY <1>1, <1>2, <2>1, <2>2, <2>3, NothingTypes, MovesSafe
<1>6. ASSUME NEW p \in Rungs, ClimbSkips(p) PROVE IInv'
  <2>1. /\ UNCHANGED <<disk, Kept, starts, harm, failed, probe, pc>> /\ probe.step = "idle"
        /\ pc = "climb" /\ search' = [search EXCEPT !.tried = @ \cup {p}]
    BY <1>6 DEF ClimbSkips, tiers, Kept
  <2>2. InTier /\ Live /\ search.here \in Points
    BY <1>2, <2>1 DEF InTier, Live
  <2>3. p \in Points
    BY <2>2, RungsArePoints
  <2>4. search' \in Searches /\ search'.here = search.here
    BY <1>1, <2>1, <2>3, SearchTypes
  <2> QED BY <1>1, <2>1, <2>2, <2>4, MovesSafe
<1> QED BY <1>3, <1>4, <1>5, <1>6

\* A baseline that fails, or is given up.
LEMMA BaselineEndsSafe == ASSUME IInv, BaselineGivesUp \/ BaselineFails PROVE IInv'
<1>1. search \in Searches /\ failed \in BOOLEAN
  BY DEF IInv, TypeOK
<1>2. CASE BaselineGivesUp
  <2>1. /\ UNCHANGED <<disk, Kept, starts, harm, probe>> /\ failed' \in {failed, TRUE}
        /\ probe.step = "idle" /\ pc = "baseline"
        /\ pc' \in {"tiers", "finish", "error"} /\ search' \in {search, NoSearch}
    BY <1>2 DEF BaselineGivesUp, Fails, TierFails
  <2>2. Live
    BY <2>1 DEF Live
  <2> QED BY <1>1, <2>1, <2>2, NothingTypes, MovesSafe
<1>3. CASE BaselineFails
  <2> DEFINE h == [v |-> Load.v, c |-> probe.at.c - ClockStep]
             s == [search EXCEPT !.here = h, !.attempts = @ + 1]
  <2>1. /\ UNCHANGED <<disk, Kept, starts, harm>> /\ failed' \in {failed, TRUE}
        /\ probe.step = "known" /\ probe' = NoProbe /\ probe.for = "baseline"
        /\ \/ pc' \in {"tiers", "finish", "error"} /\ search' \in {search, NoSearch}
           \/ pc' = pc /\ search' = s
    BY <1>3 DEF BaselineFails, Takes, Fails, TierFails
  <2>2. probe.at \in Points /\ pc = "baseline" /\ Live
    BY <2>1, ProbeIsLive
  <2>3. h \in [v : Bins \cup {0}, c : Int]
    BY <2>2, ScanAssumption, CurveAssumption DEF Points
  <2>4. search.attempts + 1 \in Nat
    BY <1>1 DEF Searches
  <2> HIDE DEF h
  <2>5. s \in Searches
    BY <1>1, <2>3, <2>4 DEF Searches
  <2> HIDE DEF s
  <2> QED BY <1>1, <2>1, <2>2, <2>5, NothingTypes, MovesSafe
<1> QED BY <1>2, <1>3

\* A soak that fails, or is refused, falls back on a point.
LEMMA SoakEndsSafe == ASSUME IInv, SoakBlocked \/ SoakFails PROVE IInv'
<1>1. search \in Searches /\ failed \in BOOLEAN
  BY DEF IInv, TypeOK
<1>2. pc = "soak"
  BY ProbeIsLive DEF SoakBlocked, SoakFails, Takes
<1>3. InTier /\ Live /\ search.here \in Points
  BY <1>2 DEF IInv, DataInv, InTier, Live
<1>4. /\ UNCHANGED <<disk, Kept, starts, harm>>
      /\ (probe.step = "known" /\ probe' = NoProbe) \/ (probe.step = "idle" /\ probe' = probe)
      /\ FallsBack \/ TierFails(TRUE)
  BY DEF SoakBlocked, SoakFails, Takes
<1>5. ASSUME NEW c \in BOOLEAN, TierFails(c)
      PROVE  pc' \in {"tiers", "finish", "error"} /\ failed' = TRUE /\ search' = NoSearch
  BY <1>5 DEF TierFails
<1>6. CASE FallsBack
  <2> DEFINE soaked == search.failed \cup {search.here}
             next == Fallbacks(search.here, unsafe, soaked)
  <2>1. \/ TierFails(search.resumed)
        \/ /\ \E q \in next : search' = [search EXCEPT !.here = q, !.failed = soaked]
           /\ pc' = pc /\ failed' = failed
    BY <1>6 DEF FallsBack
  <2>2. search.resumed \in BOOLEAN /\ search.tested \in SUBSET Points /\ soaked \in SUBSET Points
    BY <1>1, <1>3 DEF Searches
  <2>3. next \subseteq Points
    BY <2>2 DEF Fallbacks
  <2> HIDE DEF next
  <2>4. ASSUME NEW q \in Points
        PROVE  LET t == [search EXCEPT !.here = q, !.failed = soaked] IN t \in Searches /\ t.here = q
    <3>1. q \in [v : Bins \cup {0}, c : Int]
      BY CurveAssumption DEF Points
    <3> HIDE DEF soaked
    <3> QED BY <1>1, <2>2, <3>1 DEF Searches
  <2> HIDE DEF soaked
  <2>5. CASE TierFails(search.resumed)
    BY <1>3, <1>4, <1>5, <2>2, <2>5, NothingTypes, MovesSafe
  <2>6. CASE /\ \E q \in next : search' = [search EXCEPT !.here = q, !.failed = soaked]
             /\ pc' = pc /\ failed' = failed
    <3>1. search' \in Searches /\ search'.here \in Points
      BY <2>3, <2>4, <2>6
    <3> QED BY <1>1, <1>2, <1>3, <1>4, <2>6, <3>1, MovesSafe
  <2> QED BY <2>1, <2>5, <2>6
<1>7. CASE TierFails(TRUE)
  BY <1>3, <1>4, <1>5, <1>7, NothingTypes, MovesSafe
<1> QED BY <1>4, <1>6, <1>7

\* What a probe has told is noted.
LEMMA NoteSafe == ASSUME IInv, Note PROVE IInv'
<1>1. probe.step = "saved" /\ UNCHANGED <<marker, unsafe, saved, pc, session, starts, harm>>
      /\ probe' = [probe EXCEPT !.step = "known"]
  BY DEF Note
<1>2. ckpt \in Checkpoints /\ probe.at \in Points /\ Tier \in Tiers /\ Live
      /\ probe \in Probings /\ probe.for = pc
  BY <1>1, ProbeIsLive, TierIsTier DEF IInv, TypeOK
<1>3. ckpt' \in Checkpoints
  <2>1. [ckpt EXCEPT !.failed = probe.at] \in Checkpoints
    BY <1>2, NoPointIsNone DEF Checkpoints
  <2>2. [ckpt EXCEPT !.passed = Append(@, [tier |-> Tier, at |-> probe.at])] \in Checkpoints
    <3>1. \A S : \A s \in Seq(S), x \in S : Append(s, x) \in Seq(S)
      OBVIOUS
    <3>2. ckpt.passed \in Seq([tier : Tiers, at : Points])
      BY <1>2 DEF Checkpoints
    <3>3. Append(ckpt.passed, [tier |-> Tier, at |-> probe.at]) \in Seq([tier : Tiers, at : Points])
      BY <1>2, <3>1, <3>2
    <3> QED BY <1>2, <3>3 DEF Checkpoints
  <2> QED BY <1>2, <2>1, <2>2 DEF Note
<1>4. probe' \in Probings /\ probe'.step = "known" /\ probe'.at = probe.at /\ probe'.for = probe.for
  BY <1>1, <1>2, ProbeTypes
<1>5. TypeOK'
  BY <1>1, <1>2, <1>3, <1>4 DEF IInv, TypeOK, session
<1>6. DataInv'
  BY <1>1, <1>3 DEF IInv, DataInv, InTier, Tier, session
<1>7. Quiet
  <2>1. pc # "unlink" /\ pc # "open"
    BY <1>2 DEF Live, InTier
  <2> QED BY <1>1, <1>4, <2>1 DEF Quiet, OnTrial, Live, InTier, session
<1> QED BY <1>5, <1>6, <1>7, Steady

\* A completed tier is not searched again.
LEMMA ReuseSafe == ASSUME IInv, Reuse PROVE IInv'
<1>1. NextTier \in Tiers /\ turn + 1 \in 0..Len(Order)
  <2>1. turn \in Nat /\ Len(Order) \in Nat /\ turn < Len(Order)
    BY TurnIsNat DEF Reuse, IInv
  <2>2. turn + 1 \in 1..Len(Order)
    BY <2>1
  <2>3. DOMAIN Order = 1..Len(Order)
    BY ScanAssumption
  <2> QED BY <2>1, <2>2, <2>3 DEF NextTier, Tiers, Range
<1>2. pc = "tiers" /\ UNCHANGED <<disk, interrupted, mem, base, search, replaying, pending, recovery, failed,
                   probe, starts, harm>>
  BY DEF Reuse
<1>3. ckpt \in Checkpoints /\ probe.step = "idle"
  BY <1>2, ProbeIsLive DEF Live, Phases
<1>4. Done(NextTier) \in MaybePoints
  BY <1>1, <1>3 DEF Done, Checkpoints
<1>5. /\ pc' \in {"tiers", "error"} /\ turn' \in {turn, turn + 1}
      /\ results' \in [Tiers -> MaybePoints] /\ donation' \in [at : MaybePoints, history : SUBSET Points]
  <2>1. [results EXCEPT ![NextTier] = Done(NextTier)] \in [Tiers -> MaybePoints]
    BY <1>1, <1>4 DEF IInv, TypeOK
  <2>2. [at |-> Done(NextTier), history |-> {}] \in [at : MaybePoints, history : SUBSET Points]
    BY <1>4
  <2>3. results \in [Tiers -> MaybePoints] /\ donation \in [at : MaybePoints, history : SUBSET Points]
    BY DEF IInv, TypeOK
  <2> QED BY <1>2, <2>1, <2>2, <2>3 DEF Reuse
<1>6. TypeOK'
  BY <1>1, <1>2, <1>3, <1>5 DEF IInv, TypeOK, disk
<1>7. DataInv'
  BY <1>2, <1>3, <1>5 DEF IInv, DataInv, Live, InTier, disk
<1>8. Quiet
  BY <1>2, <1>5 DEF Quiet, Live, InTier, disk
<1> QED BY <1>6, <1>7, <1>8, Steady

\* The choice between the points that were measured.
LEMMA ChoiceSafe == ASSUME IInv, Choose \/ Discard PROVE IInv'
<1>1. /\ pc = "choose" /\ GoesLive
      /\ UNCHANGED <<marker, unsafe, saved, interrupted, mem, tiers, probe, starts, harm>>
  BY DEF Choose, Discard
<1>2. InTier /\ Live /\ ckpt \in Checkpoints /\ probe.step = "idle" /\ search.here \in Points
  BY <1>1, ProbeIsLive DEF InTier, Live, Phases, IInv, DataInv
<1>3. SavedProgress \in Checkpoints /\ Tier \in Tiers
  BY <1>2, CheckpointsKept, TierIsTier DEF IInv
<1>4. ckpt' \in Checkpoints
  <2>1. [SavedProgress EXCEPT !.discarded = @ \cup {Tier}] \in Checkpoints
    BY <1>3 DEF Checkpoints
  <2> QED BY <1>3, <2>1 DEF Choose, Discard
<1>5. /\ search' \in Searches /\ pc' \in {"tiers", "soak"}
      /\ pc' = "soak" => search'.here \in Points
  <2>1. CASE Choose
    <3>1. PICK p \in {search.here} \cup search.tested : search' = [search EXCEPT !.here = p]
      BY <2>1 DEF Choose
    <3>2. search \in Searches /\ search.tested \in SUBSET Points
      BY DEF IInv, TypeOK, Searches
    <3>3. p \in Points
      BY <1>2, <3>2
    <3> QED BY <2>1, <3>1, <3>2, <3>3, SearchTypes DEF Choose
  <2>2. CASE Discard
    BY <2>2, NothingTypes DEF Discard
  <2> QED BY <2>1, <2>2
<1>6. NoPending \in [start : BOOLEAN, failed : MaybePoints]
  BY NoPointIsNone DEF NoPending
<1>7. TypeOK'
  BY <1>1, <1>2, <1>4, <1>5, <1>6 DEF IInv, TypeOK, GoesLive, tiers
<1>8. DataInv'
  BY <1>1, <1>2, <1>4, <1>5 DEF IInv, DataInv, Live, InTier, tiers
<1>9. Quiet
  BY <1>1, <1>2, <1>5 DEF Quiet, Live, InTier
<1> QED BY <1>7, <1>8, <1>9, Steady

\* A soak that passes becomes the profile of its tier.
LEMMA SoakPassesSafe == ASSUME IInv, SoakPasses PROVE IInv'
<1>1. /\ probe.step = "known" /\ probe.for = "soak" /\ probe' = NoProbe
      /\ saved' = [saved EXCEPT ![Tier] = probe.at] /\ pc' = "saved"
      /\ UNCHANGED <<marker, unsafe, ckpt, session, starts, harm>>
  BY DEF SoakPasses, Takes
<1>2. pc = "soak" /\ InTier /\ Live /\ probe.at \in Points /\ Tier \in Tiers /\ Tier' = Tier
  BY <1>1, ProbeIsLive, TierIsTier DEF IInv, InTier, Live, Tier, session
<1>3. saved' \in [Tiers -> MaybePoints] /\ saved'[Tier] \in Points
  BY <1>1, <1>2, NoPointIsNone DEF IInv, TypeOK
<1>4. TypeOK'
  BY <1>1, <1>3, NothingTypes DEF IInv, TypeOK, session
<1>5. DataInv'
  BY <1>1, <1>2, <1>3 DEF IInv, DataInv, InTier, session
<1>6. Quiet
  BY <1>1, <1>2, NothingTypes DEF Quiet, OnTrial, Live, InTier, session
<1> QED BY <1>4, <1>5, <1>6, Steady

\* The tier is recorded and reported.
LEMMA TierDoneSafe == ASSUME IInv, RecordTier \/ TierCompletes PROVE IInv'
<1>1. /\ pc \in {"saved", "verified"} /\ pc' \in {"verified", "tiers"}
      /\ UNCHANGED <<marker, unsafe, saved, turn, interrupted, mem, base, replaying, pending,
                     failed, probe, starts, harm>>
  BY DEF RecordTier, TierCompletes
<1>2. InTier /\ Live /\ ckpt \in Checkpoints /\ probe.step = "idle" /\ search.here \in Points
      /\ saved[Tier] \in Points /\ Tier \in Tiers /\ Tier' = Tier /\ turn > 0
  BY <1>1, ProbeIsLive, TierIsTier DEF InTier, Live, Phases, IInv, DataInv, Tier
<1>3. ckpt' \in Checkpoints
  <2>1. saved \in [Tiers -> MaybePoints] /\ saved[Tier] \in MaybePoints
    BY <1>2, NoPointIsNone DEF IInv, TypeOK
  <2>2. ckpt.done \in [Tiers -> MaybePoints]
    BY <1>2 DEF Checkpoints
  <2>3. [ckpt.done EXCEPT ![Tier] = saved[Tier]] \in [Tiers -> MaybePoints]
    BY <1>2, <2>1, <2>2
  <2>4. [ckpt EXCEPT !.done[Tier] = saved[Tier], !.receipts = saved] \in Checkpoints
    BY <1>2, <2>1, <2>3 DEF Checkpoints
  <2>5. [ckpt EXCEPT !.completed = @ \cup {Tier}] \in Checkpoints
    BY <1>2 DEF Checkpoints
  <2> QED BY <2>4, <2>5 DEF RecordTier, TierCompletes
<1>4. search' \in {search, NoSearch} /\ (pc' = "verified" => search' = search)
  BY DEF RecordTier, TierCompletes
<1>5. recovery' \in {recovery, NoRecovery}
  BY DEF RecordTier, TierCompletes
<1>6. results' \in [Tiers -> MaybePoints] /\ donation' \in [at : MaybePoints, history : SUBSET Points]
  <2>1. results \in [Tiers -> MaybePoints] /\ donation \in [at : MaybePoints, history : SUBSET Points]
        /\ search.tested \in SUBSET Points
    BY DEF IInv, TypeOK, Searches
  <2>2. [results EXCEPT ![Tier] = saved[Tier]] \in [Tiers -> MaybePoints]
    BY <1>2, <2>1, NoPointIsNone
  <2>3. [at |-> saved[Tier], history |-> (search.tested \cup {saved[Tier]}) \ {base[Regime[Tier]]}]
          \in [at : MaybePoints, history : SUBSET Points]
    BY <1>2, <2>1, NoPointIsNone
  <2> QED BY <2>1, <2>2, <2>3 DEF RecordTier, TierCompletes
<1>7. NoRecovery \in [tier : Tiers \cup {""}, at : MaybePoints] /\ NoRecovery.tier = ""
  BY NoPointIsNone DEF NoRecovery
<1>8. TypeOK'
  BY <1>1, <1>2, <1>3, <1>4, <1>5, <1>6, <1>7, NothingTypes DEF IInv, TypeOK
<1>9. DataInv'
  BY <1>1, <1>2, <1>3, <1>4, <1>5, <1>7 DEF IInv, DataInv, InTier
<1>10. Quiet
  BY <1>1, <1>2 DEF Quiet, Live, InTier
<1> QED BY <1>8, <1>9, <1>10, Steady

\* The scan is over.
LEMMA FinishSafe == ASSUME IInv, Finish PROVE IInv'
<1>1. /\ UNCHANGED <<marker, unsafe, saved, session, probe, starts, harm>>
      /\ pc \in {"finish", "tiers"} /\ pc' \in {"error", "returned"} /\ ckpt' \in {ckpt, NoCheckpoint}
  BY DEF Finish
<1>2. probe.step = "idle"
  BY <1>1, ProbeIsLive DEF Phases
<1>3. TypeOK'
  BY <1>1, <1>2 DEF IInv, TypeOK, session
<1>4. DataInv'
  BY <1>1 DEF IInv, DataInv, Live, InTier, session
<1>5. Quiet
  BY <1>1 DEF Quiet, Live, InTier, session
<1> QED BY <1>3, <1>4, <1>5, Steady

\* What the user does while no scan runs.
LEMMA OutsideSafe == ASSUME IInv, Start \/ \E t \in Tiers : ProfileDeleted(t) PROVE IInv'
<1>1. /\ UNCHANGED <<marker, unsafe, ckpt, session, probe, harm>> /\ pc = "off" /\ pc' \in {"off", "consume"}
      /\ saved' \in [Tiers -> MaybePoints] /\ starts' \in 0..MaxStarts
  <2>1. CASE Start
    <3>1. starts + 1 \in 0..MaxStarts
      <4>1. MaxStarts \in Nat /\ starts \in 0..MaxStarts /\ starts < MaxStarts
        BY <2>1, ScanAssumption DEF Start, IInv, TypeOK
      <4> QED BY <4>1
    <3> QED BY <2>1, <3>1 DEF Start, IInv, TypeOK, disk
  <2>2. ASSUME NEW t \in Tiers, ProfileDeleted(t)
        PROVE  /\ UNCHANGED <<marker, unsafe, ckpt, session, probe, harm, starts, pc>> /\ pc = "off"
               /\ saved' \in [Tiers -> MaybePoints]
    BY <2>2, NoPointIsNone DEF ProfileDeleted, IInv, TypeOK
  <2>3. starts \in 0..MaxStarts
    BY DEF IInv, TypeOK
  <2> QED BY <2>1, <2>2, <2>3
<1>2. probe.step = "idle"
  BY <1>1, ProbeIsLive DEF Phases
<1>3. TypeOK'
  BY <1>1, <1>2 DEF IInv, TypeOK, session
<1>4. DataInv'
  BY <1>1 DEF IInv, DataInv, Live, InTier, session
<1>5. Quiet
  BY <1>1 DEF Quiet, Live, InTier, session
<1> QED BY <1>3, <1>4, <1>5, Steady

-----------------------------------------------------------------------------
(* The steps that write the marker or the blacklist. *)

\* While a scan is live, the blacklist closes all that has done harm.
LEMMA AllClosed == ASSUME IInv, pc \in {"unlink", "open"} \/ Live
                   PROVE  \A p \in harm.found \cup harm.died : Blocked(unsafe, p, "")
  BY DEF IInv, HarmInv

\* A process that is gone is back where it began.
LEMMA ForgetsTypes ==
    ASSUME IInv, Forgets
    PROVE  /\ pc' = "off" /\ probe' = NoProbe /\ turn' = 0 /\ interrupted' = NoPoint /\ mem' = {}
           /\ search' = NoSearch /\ failed' = FALSE /\ replaying' = FALSE
           /\ base' \in [Range(Regime) -> MaybePoints]
           /\ pending' \in [start : BOOLEAN, failed : MaybePoints]
           /\ recovery' = NoRecovery /\ recovery' \in [tier : Tiers \cup {""}, at : MaybePoints]
           /\ results' \in [Tiers -> MaybePoints]
           /\ donation' \in [at : MaybePoints, history : SUBSET Points]
<1>1. base' \in [Range(Regime) -> MaybePoints]
  BY NoPointIsNone DEF Forgets, IInv, TypeOK
<1>2. NoPending \in [start : BOOLEAN, failed : MaybePoints]
  BY NoPointIsNone DEF NoPending
<1>3. NoRecovery \in [tier : Tiers \cup {""}, at : MaybePoints]
  BY NoPointIsNone DEF NoRecovery
<1>4. NoProfiles \in [Tiers -> MaybePoints] /\ NoDonation \in [at : MaybePoints, history : SUBSET Points]
  BY NoPointIsNone DEF NoProfiles, NoDonation
<1> QED BY <1>1, <1>2, <1>3, <1>4 DEF Forgets

\* The process ends, or dies: its probe, if there is one, is the one of the marker.
LEMMA GoneSafe == ASSUME IInv, StartFails \/ Quits \/ Leave \/ UserStops \/ Die PROVE IInv'
<1>1. Forgets /\ UNCHANGED <<unsafe, ckpt, saved, starts>>
  BY DEF StartFails, Quits, Leave, UserStops, Die, disk
<1>2. \/ marker' = marker /\ harm' = harm
      \/ marker' = NoPoint /\ harm' = harm /\ probe.step = "running"
      \/ /\ marker' = marker /\ probe.step = "running" /\ Marks(probe.for)
         /\ harm' = [harm EXCEPT !.died = @ \cup {probe.at}]
  BY DEF StartFails, Quits, Leave, UserStops, Die, disk
<1>3. marker' \in MaybePoints /\ harm' \in [found : SUBSET Points, died : SUBSET Points]
  <2>1. marker \in MaybePoints /\ harm \in [found : SUBSET Points, died : SUBSET Points]
    BY DEF IInv, TypeOK
  <2>2. probe.step = "running" => probe.at \in Points
    BY ProbeIsLive
  <2> QED BY <1>2, <2>1, <2>2, NoPointIsNone
<1>4. TypeOK'
  <2>1. 0 \in 0..Len(Order)
    BY TurnIsNat DEF IInv
  <2>2. UNCHANGED <<unsafe, ckpt, saved, starts>>
    BY <1>1
  <2> QED BY <1>1, <1>3, <2>1, <2>2, ForgetsTypes, NothingTypes, NoPointIsNone DEF IInv, TypeOK
<1>5. DataInv' /\ MarkerInv' /\ HarmInv' /\ NoSecondDeath'
  <2>1. NoRecovery.tier = ""
    BY DEF NoRecovery
  <2>2. pc' = "off" /\ probe' = NoProbe /\ recovery' = NoRecovery
    BY <1>1, ForgetsTypes
  <2> QED BY <2>1, <2>2, NothingTypes DEF DataInv, MarkerInv, HarmInv, NoSecondDeath, Live, InTier, OnTrial
<1>6. NothingForgotten'
  <2>1. unsafe' = unsafe
    BY <1>1
  <2>2. CASE marker' = marker /\ harm' = harm
    BY <2>1, <2>2 DEF IInv, NothingForgotten
  <2>3. CASE harm' = harm /\ probe.step = "running"
    <3>1. \A p \in harm.found \cup harm.died : Blocked(unsafe, p, "")
      BY <2>3, ProbeIsLive, AllClosed
    <3> QED BY <2>1, <2>3, <3>1 DEF NothingForgotten
  <2>4. CASE /\ marker' = marker /\ probe.step = "running" /\ Marks(probe.for)
             /\ harm' = [harm EXCEPT !.died = @ \cup {probe.at}]
    <3>1. marker = probe.at
      BY <2>4 DEF IInv, MarkerInv, OnTrial
    <3>2. harm'.found = harm.found /\ harm'.died = harm.died \cup {probe.at}
      BY <2>4 DEF IInv, TypeOK
    <3> QED BY <2>1, <2>4, <3>1, <3>2 DEF IInv, NothingForgotten
  <2> QED BY <1>2, <2>2, <2>3, <2>4
<1> QED BY <1>4, <1>5, <1>6 DEF IInv

\* The interrupted point is recorded, and the marker still there.
LEMMA ConsumeSafe == ASSUME IInv, Consume PROVE IInv'
<1>1. /\ UNCHANGED <<marker, ckpt, saved, mem, search, replaying, pending, tiers, probe, starts, harm>>
      /\ pc = "consume" /\ interrupted' = marker
      /\ IF marker = NoPoint THEN pc' = "open" /\ unsafe' = unsafe
         ELSE pc' = "unlink" /\ unsafe' = RecordUnsafe(unsafe, Entry(marker, "freeze"))
  BY DEF Consume
<1>2. marker \in MaybePoints /\ unsafe \in SUBSET Entries /\ probe.step = "idle"
  BY <1>1, ProbeIsLive DEF IInv, TypeOK, Phases
<1>3. /\ unsafe' \in SUBSET Entries /\ unsafe \subseteq unsafe'
      /\ marker # NoPoint => Blocked(unsafe', marker, "")
  <2>1. CASE marker = NoPoint
    BY <1>1, <1>2, <2>1
  <2>2. CASE marker # NoPoint
    <3>1. marker \in Points
      BY <1>2, <2>2, NoPointIsNone
    <3>2. /\ unsafe' = unsafe \cup {Entry(marker, "freeze")} /\ Entry(marker, "freeze") \in Entries
          /\ Blocked({Entry(marker, "freeze")}, marker, "")
      BY <1>1, <1>2, <2>2, <3>1, RecordedIsClosed
    <3>3. Blocked(unsafe', marker, "")
      BY <3>2 DEF Blocked
    <3> QED BY <1>2, <3>2, <3>3
  <2> QED BY <2>1, <2>2
<1>4. TypeOK'
  BY <1>1, <1>2, <1>3 DEF IInv, TypeOK, tiers
<1>5. DataInv' /\ MarkerInv' /\ NoSecondDeath'
  BY <1>1, <1>2 DEF IInv, DataInv, MarkerInv, NoSecondDeath, Live, InTier, OnTrial, tiers
<1>6. \A p \in harm.found \cup harm.died : Blocked(unsafe', p, "")
  <2>1. ASSUME NEW p \in harm.found \cup harm.died PROVE Blocked(unsafe', p, "")
    <3>1. p = marker \/ Blocked(unsafe, p, "")
      BY DEF IInv, NothingForgotten
    <3>2. p # NoPoint
      BY NoPointIsNone DEF IInv, TypeOK
    <3>3. Blocked(unsafe, p, "") => Blocked(unsafe', p, "")
      BY <1>3 DEF Blocked
    <3> QED BY <1>3, <3>1, <3>2, <3>3
  <2> QED BY <2>1
<1>7. HarmInv' /\ NothingForgotten'
  BY <1>1, <1>6 DEF HarmInv, NothingForgotten, Live, InTier
<1> QED BY <1>4, <1>5, <1>7 DEF IInv

\* The marker goes when its point is on the list.
LEMMA UnlinkSafe == ASSUME IInv, Unlink PROVE IInv'
<1>1. /\ pc = "unlink" /\ marker' = NoPoint /\ pc' = "open"
      /\ UNCHANGED <<unsafe, ckpt, saved, session, probe, starts, harm>>
  BY DEF Unlink
<1>2. probe.step = "idle"
  BY <1>1, ProbeIsLive DEF Phases
<1>3. TypeOK'
  BY <1>1, <1>2, NoPointIsNone DEF IInv, TypeOK, session
<1>4. DataInv' /\ MarkerInv' /\ NoSecondDeath'
  BY <1>1, <1>2 DEF IInv, DataInv, MarkerInv, NoSecondDeath, Live, InTier, OnTrial, session
<1>5. HarmInv' /\ NothingForgotten'
  BY <1>1, AllClosed DEF HarmInv, NothingForgotten, Live, InTier
<1> QED BY <1>3, <1>4, <1>5 DEF IInv

\* The list in memory is the one on disk.
LEMMA OpenSafe == ASSUME IInv, NEW drift \in BOOLEAN, Open(drift) PROVE IInv'
<1>1. /\ pc = "open" /\ mem' = unsafe /\ recovery' = Recovery /\ search' = From(Load)
      /\ interrupted' = NoPoint /\ pc' = "baseline"
      /\ UNCHANGED <<marker, unsafe, saved, turn, base, pending, results, failed, donation, probe,
                     starts, harm>>
  BY DEF Open
<1>2. probe.step = "idle"
  BY <1>1, ProbeIsLive DEF Phases
<1>3. ckpt' \in Checkpoints
  <2>1. CASE ~Accepted
    BY <2>1, CheckpointsKept DEF Open, IInv
  <2>2. CASE Accepted
    <3>1. ckpt \in Checkpoints
      BY <2>2 DEF Accepted, IInv, TypeOK
    <3>2. /\ ckpt.failed \in MaybePoints
          /\ ckpt.records \in SUBSET [at : Points, for : Phases, in : Tiers \cup Range(Regime),
                                      sev : Severities, why : {"", "fault"}]
      BY <3>1 DEF Checkpoints
    <3>3. ASSUME NEW f \in {NoPoint, ckpt.failed}, NEW r \in {{}, ckpt.records}
          PROVE  [ckpt EXCEPT !.failed = f, !.records = r] \in Checkpoints
      BY <3>1, <3>2, NoPointIsNone DEF Checkpoints
    <3>4. PICK f \in {NoPoint, ckpt.failed}, r \in {{}, ckpt.records} :
             ckpt' = [ckpt EXCEPT !.failed = f, !.records = r]
      BY <2>2 DEF Open
    <3> QED BY <3>3, <3>4
  <2> QED BY <2>1, <2>2
<1>4. replaying' \in BOOLEAN
  BY DEF Open
<1>5. /\ Recovery \in [tier : Tiers \cup {""}, at : MaybePoints]
      /\ Recovery.tier # "" => Recovery.at \in Points
  BY RecoveryIsPoint DEF IInv
<1>6. From(Load) \in Searches
  BY ScanAssumption, SearchTypes
<1>7. TypeOK'
  BY <1>1, <1>2, <1>3, <1>4, <1>5, <1>6, NoPointIsNone DEF IInv, TypeOK
<1>8. DataInv'
  BY <1>1, <1>3, <1>5 DEF DataInv, Live, InTier
<1>9. MarkerInv' /\ NoSecondDeath'
  BY <1>1, <1>2 DEF IInv, MarkerInv, NoSecondDeath, Live, InTier, OnTrial
<1>10. HarmInv' /\ NothingForgotten'
  BY <1>1, AllClosed DEF HarmInv, NothingForgotten, Live, InTier
<1> QED BY <1>7, <1>8, <1>9, <1>10 DEF IInv

\* A verdict is on the list before the marker goes.
LEMMA JudgeSafe == ASSUME IInv, NEW verdict \in Outcomes, Judge(verdict) PROVE IInv'
<1>1. /\ probe.step = "running" /\ probe' = [probe EXCEPT !.step = "judged", !.verdict = verdict]
      /\ UNCHANGED <<marker, ckpt, saved, pc, session, starts>>
      /\ IF verdict.why # "" /\ Marks(probe.for)
         THEN /\ unsafe' = RecordUnsafe(unsafe, Entry(probe.at, verdict.why))
              /\ harm' = Found(probe.at)
         ELSE UNCHANGED <<unsafe, harm>>
  BY DEF Judge
<1>2. verdict \in [sev : Severities, why : {"", "fault"}]
  <2>1. verdict \in {Pass, Critical, Soft, Unsafe}
    BY DEF Outcomes
  <2> DEFINE R == [sev : Severities, why : {"", "fault"}]
  <2>2. Pass \in R /\ Critical \in R
    BY DEF Pass, Critical, Severities
  <2>3. Soft \in R /\ Unsafe \in R
    BY DEF Soft, Unsafe, Severities
  <2> HIDE DEF R
  <2>4. verdict \in R
    BY <2>1, <2>2, <2>3
  <2> QED BY <2>4 DEF R
<1>3. probe.at \in Points /\ probe.for = pc /\ Live /\ probe \in Probings /\ unsafe \in SUBSET Entries
      /\ harm \in [found : SUBSET Points, died : SUBSET Points]
  BY <1>1, ProbeIsLive DEF IInv, TypeOK
<1>4. probe' \in Probings /\ probe'.step = "judged" /\ probe'.at = probe.at /\ probe'.for = probe.for
  BY <1>1, <1>2, <1>3 DEF Probings
<1>5. /\ unsafe' \in SUBSET Entries /\ unsafe \subseteq unsafe'
      /\ harm' \in [found : SUBSET Points, died : SUBSET Points] /\ harm'.died = harm.died
      /\ \A p \in harm'.found : p \in harm.found \/ Blocked(unsafe', p, "")
  <2>1. CASE verdict.why # "" /\ Marks(probe.for)
    <3> DEFINE e == Entry(probe.at, verdict.why)
    <3>1. unsafe' = unsafe \cup {e} /\ e \in Entries /\ Blocked({e}, probe.at, "")
      BY <1>1, <1>2, <1>3, <2>1, RecordedIsClosed
    <3>2. Blocked(unsafe', probe.at, "")
      BY <3>1 DEF Blocked
    <3>3. harm'.died = harm.died /\ harm'.found = harm.found \cup {probe.at}
          /\ harm' \in [found : SUBSET Points, died : SUBSET Points]
      BY <1>1, <1>3, <2>1 DEF Found
    <3> QED BY <1>3, <3>1, <3>2, <3>3
  <2>2. CASE ~(verdict.why # "" /\ Marks(probe.for))
    BY <1>1, <1>3, <2>2
  <2> QED BY <2>1, <2>2
<1>6. TypeOK'
  BY <1>1, <1>3, <1>4, <1>5 DEF IInv, TypeOK, session
<1>7. DataInv'
  BY <1>1 DEF IInv, DataInv, Live, InTier, Tier, session
<1>8. MarkerInv' /\ NoSecondDeath'
  BY <1>1, <1>4 DEF IInv, MarkerInv, NoSecondDeath, OnTrial, Live, InTier
<1>9. \A p \in harm'.found \cup harm'.died : Blocked(unsafe', p, "")
  <2>1. \A p : Blocked(unsafe, p, "") => Blocked(unsafe', p, "")
    BY <1>5 DEF Blocked
  <2> QED BY <1>3, <1>5, <2>1, AllClosed
<1>10. \A p \in harm'.died : Blocked(mem', p, "")
  BY <1>1, <1>3, <1>5 DEF IInv, HarmInv, session
<1> QED BY <1>6, <1>7, <1>8, <1>9, <1>10 DEF IInv, HarmInv, NothingForgotten

\* The marker goes, and nothing with it.
LEMMA UnmarkSafe == ASSUME IInv, Unmark PROVE IInv'
<1>1. /\ probe.step = "judged" /\ marker' = IF Marks(probe.for) THEN NoPoint ELSE marker
      /\ probe' = [probe EXCEPT !.step = IF probe.for = "soak" THEN "saved" ELSE "measured"]
      /\ UNCHANGED <<unsafe, ckpt, saved, pc, session, starts, harm>>
  BY DEF Unmark
<1>2. probe.at \in Points /\ probe.for = pc /\ Live /\ probe \in Probings /\ marker \in MaybePoints
  BY <1>1, ProbeIsLive DEF IInv, TypeOK
<1>3. probe' \in Probings /\ probe'.step \in {"saved", "measured"} /\ probe'.at = probe.at
      /\ probe'.for = probe.for
  <2>1. CASE probe.for = "soak"
    <3>1. probe' = [probe EXCEPT !.step = "saved"]
      BY <1>1, <2>1
    <3> QED BY <1>2, <3>1, ProbeTypes
  <2>2. CASE probe.for # "soak"
    <3>1. probe' = [probe EXCEPT !.step = "measured"]
      BY <1>1, <2>2
    <3> QED BY <1>2, <3>1, ProbeTypes
  <2> QED BY <2>1, <2>2
<1>4. marker' = NoPoint
  BY <1>1, <1>2 DEF IInv, MarkerInv, OnTrial
<1>5. TypeOK'
  BY <1>1, <1>2, <1>3, <1>4, NoPointIsNone DEF IInv, TypeOK, session
<1>6. DataInv'
  BY <1>1 DEF IInv, DataInv, Live, InTier, Tier, session
<1>7. MarkerInv' /\ NoSecondDeath'
  BY <1>3, <1>4 DEF MarkerInv, NoSecondDeath, OnTrial
<1>8. HarmInv' /\ NothingForgotten'
  <2>1. \A p \in harm.found \cup harm.died : Blocked(unsafe, p, "")
    BY <1>2, AllClosed
  <2>2. \A p \in harm.died : Blocked(mem, p, "")
    BY <1>2 DEF IInv, HarmInv
  <2>3. UNCHANGED <<unsafe, harm, mem>>
    BY <1>1 DEF session
  <2> QED BY <2>1, <2>2, <2>3 DEF HarmInv, NothingForgotten
<1> QED BY <1>5, <1>6, <1>7, <1>8 DEF IInv

\* A probe without a verdict, or whose verdict cannot be written.
LEMMA ProbeEndsSafe ==
    ASSUME IInv, RecordFails \/ \E critical \in BOOLEAN : ProbeRaises(critical)
    PROVE  IInv'
<1>1. /\ probe.step \in {"running", "judged"} /\ probe' = NoProbe
      /\ UNCHANGED <<unsafe, ckpt, saved, Kept, starts>>
      /\ pc' \in {"tiers", "finish", "error"} /\ failed' \in {failed, TRUE}
      /\ search' \in {search, NoSearch}
      /\ \/ /\ marker' = marker /\ probe.step = "running" /\ Marks(probe.for)
            /\ harm' = Found(probe.at) /\ pc' # "tiers"
         \/ marker' = (IF Marks(probe.for) THEN NoPoint ELSE marker) /\ harm' = harm
  BY DEF RecordFails, ProbeRaises, TierFails, Fails, disk
<1>2. probe.at \in Points /\ Live /\ ckpt \in Checkpoints
  BY <1>1, ProbeIsLive
<1>3. harm \in [found : SUBSET Points, died : SUBSET Points] /\ marker \in MaybePoints
  BY DEF IInv, TypeOK
<1>4. marker' \in MaybePoints /\ harm' \in [found : SUBSET Points, died : SUBSET Points]
  BY <1>1, <1>2, <1>3, NoPointIsNone DEF Found
<1>5. TypeOK'
  BY <1>1, <1>4, NothingTypes DEF IInv, TypeOK, Kept
<1>6. DataInv'
  BY <1>1, <1>2 DEF IInv, DataInv, Live, InTier, Kept
<1>7. \A p \in harm.found \cup harm.died : Blocked(unsafe, p, "")
  BY <1>2, AllClosed
<1>8. CASE marker' = (IF Marks(probe.for) THEN NoPoint ELSE marker) /\ harm' = harm
  <2>1. marker' = NoPoint
    BY <1>2, <1>8 DEF IInv, MarkerInv, OnTrial
  <2>2. MarkerInv' /\ NoSecondDeath'
    BY <1>1, <2>1, NothingTypes DEF MarkerInv, NoSecondDeath, OnTrial
  <2>3. \A p \in harm.died : Blocked(mem, p, "")
    BY <1>2 DEF IInv, HarmInv
  <2>4. UNCHANGED <<unsafe, mem>>
    BY <1>1 DEF Kept
  <2>5. HarmInv' /\ NothingForgotten'
    BY <1>7, <1>8, <2>3, <2>4 DEF HarmInv, NothingForgotten
  <2> QED BY <1>5, <1>6, <2>2, <2>5 DEF IInv
<1>9. CASE /\ marker' = marker /\ probe.step = "running" /\ Marks(probe.for)
           /\ harm' = Found(probe.at) /\ pc' # "tiers"
  <2>1. ~Live' /\ pc' \notin {"unlink", "open"}
    BY <1>1, <1>9 DEF Live, InTier
  <2>2. MarkerInv' /\ NoSecondDeath' /\ HarmInv'
    BY <1>1, <2>1, NothingTypes DEF MarkerInv, NoSecondDeath, OnTrial, HarmInv
  <2>3. marker = probe.at
    BY <1>9 DEF IInv, MarkerInv, OnTrial
  <2>4. harm'.found = harm.found \cup {probe.at} /\ harm'.died = harm.died
    BY <1>3, <1>9 DEF Found
  <2>5. NothingForgotten'
    BY <1>1, <1>7, <1>9, <2>3, <2>4 DEF NothingForgotten
  <2> QED BY <1>5, <1>6, <2>2, <2>5 DEF IInv
<1> QED BY <1>1, <1>8, <1>9

\* A probe of a point that one of the lists leaves open: it closes over no point that killed.
LEMMA ProbesSafe ==
    ASSUME IInv, NEW p \in Points, NEW for \in Phases, pc = for, Probes(p, for),
           ~Blocked(unsafe, p, Tier) \/ ~Blocked(mem, p, Tier),
           UNCHANGED <<pc, interrupted, mem, search, tiers, starts>>
    PROVE  IInv'
<1>1. Live /\ ckpt \in Checkpoints /\ (Marks(for) => InTier) /\ probe.step = "idle"
  BY ProbeIsLive DEF Live, InTier, Phases, Marks, Probes
<1>2. marker = NoPoint
  BY <1>1 DEF IInv, MarkerInv, OnTrial
<1>3. NoPending \in [start : BOOLEAN, failed : MaybePoints]
  BY NoPointIsNone DEF NoPending
<1>4. CASE Runs(p, for)
  <2>1. /\ replaying' = FALSE /\ pending' = NoPending /\ ckpt' = SavedProgress
        /\ marker' = (IF Marks(for) THEN p ELSE marker)
        /\ probe' = [at |-> p, for |-> for, step |-> "running", verdict |-> Pass]
        /\ UNCHANGED <<unsafe, saved, harm>>
    BY <1>4 DEF Runs, GoesLive
  <2>2. ckpt' \in Checkpoints
    BY <1>1, <2>1, CheckpointsKept DEF IInv
  <2>3. probe' \in Probings /\ probe'.at = p /\ probe'.for = for /\ probe'.step = "running"
    BY <2>1, NoPointIsNone DEF Probings, Pass, Severities
  <2>4. TypeOK'
    BY <1>2, <1>3, <2>1, <2>2, <2>3, NoPointIsNone DEF IInv, TypeOK, tiers
  <2>5. DataInv'
    BY <2>1, <2>2 DEF IInv, DataInv, Live, InTier, Tier, tiers
  <2>6. MarkerInv'
    BY <1>1, <1>2, <2>1, <2>3 DEF MarkerInv, OnTrial, Live, InTier
  <2>7. HarmInv' /\ NothingForgotten'
    <3>1. \A q \in harm.found \cup harm.died : Blocked(unsafe, q, "")
      BY <1>1, AllClosed
    <3>2. \A q \in harm.died : Blocked(mem, q, "")
      BY <1>1 DEF IInv, HarmInv
    <3> QED BY <2>1, <3>1, <3>2 DEF HarmInv, NothingForgotten
  <2>8. NoSecondDeath'
    <3>1. SUFFICES ASSUME NEW d \in harm.died, p.v <= d.v, p.c >= d.c PROVE FALSE
      BY <2>1, <2>3 DEF NoSecondDeath
    <3>2. d \in Points /\ unsafe \in SUBSET Entries /\ mem \in SUBSET Entries
      BY DEF IInv, TypeOK
    <3>3. Blocked(unsafe, d, "") /\ Blocked(mem, d, "")
      BY <1>1 DEF IInv, HarmInv
    <3>4. Blocked(unsafe, p, Tier) /\ Blocked(mem, p, Tier)
      BY <3>1, <3>2, <3>3, ClosedUpwards
    <3> QED BY <3>4
  <2> QED BY <2>4, <2>5, <2>6, <2>7, <2>8 DEF IInv
<1>5. ASSUME NEW record \in Known(p, for), Replayed(p, for, record) PROVE IInv'
  <2>1. /\ probe' = [at |-> p, for |-> for, step |-> "known",
                     verdict |-> [sev |-> record.sev, why |-> record.why]]
        /\ pending' = [start |-> FALSE, failed |-> IF record.sev = "pass" THEN NoPoint ELSE p]
        /\ UNCHANGED <<disk, replaying, harm>>
    BY <1>5 DEF Replayed
  <2>2. record.sev \in Severities /\ record.why \in {"", "fault"}
    <3>1. record \in ckpt.records
      BY DEF Known
    <3> QED BY <1>1, <3>1 DEF Checkpoints
  <2>3. probe' \in Probings /\ probe'.at = p /\ probe'.for = for /\ probe'.step = "known"
    BY <2>1, <2>2, NoPointIsNone DEF Probings
  <2>4. pending' \in [start : BOOLEAN, failed : MaybePoints]
    BY <2>1, NoPointIsNone
  <2>5. TypeOK'
    BY <2>1, <2>3, <2>4 DEF IInv, TypeOK, tiers, disk
  <2>6. DataInv'
    BY <2>1 DEF IInv, DataInv, Live, InTier, Tier, tiers, disk
  <2>7. Quiet
    <3>1. pc \notin {"unlink", "open"}
      BY <1>1 DEF Live, InTier
    <3> QED BY <1>1, <2>1, <2>3, <3>1 DEF Quiet, OnTrial, Live, InTier, disk
  <2> QED BY <2>5, <2>6, <2>7, Steady
<1> QED BY <1>4, <1>5 DEF Probes

\* Each phase asks one of the lists: baselines, climbs and soaks that on disk, descents that in memory.
LEMMA ProbingSafe ==
    ASSUME IInv, \/ BaselineProbes \/ DescentProbes \/ SoakProbes
                 \/ \E p \in Rungs : ClimbProbes(p)
    PROVE  IInv'
<1>1. pc \in {"descent", "climb", "soak"} => search.here \in Points
  BY DEF IInv, DataInv, InTier
<1>2. CASE BaselineProbes
  <2>1. Baseline \in Points /\ ~Blocked(unsafe, Baseline, Tier)
    BY <1>2, BaselineIsOpen DEF BaselineProbes, BaselineOpen, IInv
  <2>2. pc = "baseline" /\ Probes(Baseline, "baseline")
        /\ UNCHANGED <<pc, interrupted, mem, search, tiers, starts>>
    BY <1>2 DEF BaselineProbes
  <2> QED BY <2>1, <2>2, ProbesSafe DEF Phases
<1>3. CASE DescentProbes
  <2>1. pc = "descent" /\ Below.v > 0 /\ ~Blocked(mem, Below, Tier) /\ Probes(Below, "descent")
        /\ UNCHANGED <<pc, interrupted, mem, search, tiers, starts>>
    BY <1>3 DEF DescentProbes
  <2>2. Below \in Points
    BY <1>1, <2>1, BelowIsPoint
  <2> QED BY <2>1, <2>2, ProbesSafe DEF Phases
<1>4. CASE SoakProbes
  <2>1. pc = "soak" /\ ~Blocked(unsafe, search.here, Tier) /\ Probes(search.here, "soak")
        /\ UNCHANGED <<pc, interrupted, mem, search, tiers, starts>>
    BY <1>4 DEF SoakProbes
  <2> QED BY <1>1, <2>1, ProbesSafe DEF Phases
<1>5. ASSUME NEW p \in Rungs, ClimbProbes(p) PROVE IInv'
  <2>1. pc = "climb" /\ ~Blocked(unsafe, p, Tier) /\ Probes(p, "climb")
        /\ UNCHANGED <<pc, interrupted, mem, search, tiers, starts>>
    BY <1>5 DEF ClimbProbes
  <2>2. p \in Points
    BY <1>1, <2>1, RungsArePoints
  <2> QED BY <2>1, <2>2, ProbesSafe DEF Phases
<1> QED BY <1>2, <1>3, <1>4, <1>5

-----------------------------------------------------------------------------
(* The invariant. *)

\* The invariant holds at first.
LEMMA InitSafe == Init => IInv
<1> SUFFICES ASSUME Init PROVE IInv
  OBVIOUS
<1>1. Len(Order) \in Nat /\ MaxStarts \in Nat
  BY ScanAssumption
<1>2. 0 \in 0..Len(Order) /\ 0 \in 0..MaxStarts
  BY <1>1
<1>3. base \in [Range(Regime) -> MaybePoints]
  <2>1. {Regime[t] : t \in Tiers} = Range(Regime)
    BY ScanAssumption DEF Range
  <2> QED BY <2>1, NoPointIsNone DEF Init
<1>4. /\ NoPending \in [start : BOOLEAN, failed : MaybePoints]
      /\ NoRecovery \in [tier : Tiers \cup {""}, at : MaybePoints]
      /\ NoRecovery.tier = ""
  BY NoPointIsNone DEF NoPending, NoRecovery
<1>5. NoProfiles \in [Tiers -> MaybePoints] /\ NoDonation \in [at : MaybePoints, history : SUBSET Points]
  BY NoPointIsNone DEF NoProfiles, NoDonation
<1>6. TypeOK
  BY <1>2, <1>3, <1>4, <1>5, NoPointIsNone, NothingTypes DEF Init, TypeOK
<1>7. DataInv /\ MarkerInv /\ HarmInv /\ NothingForgotten /\ NoSecondDeath
  BY <1>4, NothingTypes DEF Init, DataInv, MarkerInv, HarmInv, NothingForgotten, NoSecondDeath,
                            Live, InTier, OnTrial
<1> QED BY <1>6, <1>7 DEF IInv

\* Every step keeps it.
LEMMA StepSafe == ASSUME IInv, Next PROVE IInv'
<1>1. CASE Work
  <2>1. CASE Consume \/ Unlink
    BY <2>1, ConsumeSafe, UnlinkSafe
  <2>2. CASE Open(FALSE) \/ (Drifts /\ Open(TRUE))
    BY <2>2, OpenSafe
  <2>3. ASSUME NEW verdict \in Outcomes, Judge(verdict) PROVE IInv'
    BY <2>3, JudgeSafe
  <2>4. CASE Unmark \/ SaveResult \/ Note
    BY <2>4, UnmarkSafe, SaveResultSafe, NoteSafe
  <2>5. CASE BaselineProbes \/ DescentProbes \/ SoakProbes \/ (\E p \in Rungs : ClimbProbes(p))
    BY <2>5, ProbingSafe
  <2>6. CASE BaselineGivesUp \/ BaselinePasses \/ BaselineFails
    BY <2>6, BaselineEndsSafe, BaselinePassesSafe
  <2>7. CASE Reuse \/ TierStarts
    BY <2>7, ReuseSafe, TierStartsSafe
  <2>8. CASE DescentResumes \/ DescentReused \/ DescentFails
    BY <2>8, DescentResumesSafe, DescentReusedSafe, DescentFailsSafe
  <2>9. CASE \/ DescentEnds \/ DescentPasses \/ ClimbEnds \/ ClimbPasses \/ ClimbFails
             \/ \E p \in Rungs : ClimbSkips(p)
    BY <2>9, SearchingSafe
  <2>10. CASE Choose \/ Discard
    BY <2>10, ChoiceSafe
  <2>11. CASE SoakBlocked \/ SoakFails \/ SoakPasses
    BY <2>11, SoakEndsSafe, SoakPassesSafe
  <2>12. CASE RecordTier \/ TierCompletes \/ Finish
    BY <2>12, TierDoneSafe, FinishSafe
  <2>13. CASE Leave
    BY <2>13, GoneSafe
  <2> QED BY <1>1, <2>1, <2>2, <2>3, <2>4, <2>5, <2>6, <2>7, <2>8, <2>9, <2>10, <2>11, <2>12, <2>13 DEF Work
<1>2. CASE Upsets
  <2>1. CASE Start \/ \E t \in Tiers : ProfileDeleted(t)
    BY <2>1, OutsideSafe
  <2>2. CASE StartFails \/ UserStops \/ Quits \/ Die
    BY <2>2, GoneSafe
  <2>3. CASE RecordFails \/ \E critical \in BOOLEAN : ProbeRaises(critical)
    BY <2>3, ProbeEndsSafe
  <2> QED BY <1>2, <2>1, <2>2, <2>3 DEF Upsets
<1> QED BY <1>1, <1>2 DEF Next

\* So does a step that changes nothing.
LEMMA StutterSafe == ASSUME IInv, UNCHANGED vars PROVE IInv'
<1>1. UNCHANGED <<disk, pc, session, probe, starts, harm>>
  BY DEF vars
<1>2. TypeOK'
  BY <1>1 DEF IInv, TypeOK, disk, session
<1>3. DataInv'
  BY <1>1 DEF IInv, DataInv, Live, InTier, Tier, disk, session
<1>4. MarkerInv' /\ HarmInv'
  BY <1>1 DEF IInv, MarkerInv, HarmInv, Live, InTier, OnTrial, disk, session
<1>5. NothingForgotten' /\ NoSecondDeath'
  BY <1>1 DEF IInv, NothingForgotten, NoSecondDeath, disk
<1> QED BY <1>2, <1>3, <1>4, <1>5 DEF IInv

\* The invariant holds in every scan.
LEMMA Invariance == Spec => []IInv
<1>1. Init => IInv
  BY InitSafe
<1>2. IInv /\ [Next]_vars => IInv'
  BY StepSafe, StutterSafe
<1> QED BY <1>1, <1>2, PTL DEF Spec

\* Every variable of a scan keeps its type, whatever the curve, the tiers and the bounds.
THEOREM ScanTypes == Spec => []TypeOK
<1>1. IInv => TypeOK
  BY DEF IInv
<1> QED BY <1>1, Invariance, PTL

\* No point that was found unsafe, or that killed the process, is ever forgotten:
\* consume_interrupted_probe_crash_marker and the finally of the probe write the
\* blacklist before they remove the marker.
THEOREM NothingIsForgotten == Spec => []NothingForgotten
<1>1. IInv => NothingForgotten
  BY DEF IInv
<1> QED BY <1>1, Invariance, PTL

\* No probe, of any phase of any later scan, runs at a point that closes over one
\* on which the machine died.
THEOREM NobodyDiesTwice == Spec => []NoSecondDeath
<1>1. IInv => NoSecondDeath
  BY DEF IInv
<1> QED BY <1>1, Invariance, PTL

-----------------------------------------------------------------------------
(* The marker and the blacklist keep the ledger of ProbeLedger. *)

\* The entries of a list stand for points.
LEMMA ListedArePoints ==
    \A list \in SUBSET Entries : {[v |-> e.v, c |-> e.c] : e \in list} \subseteq Points
<1>1. ASSUME NEW e \in Entries PROVE [v |-> e.v, c |-> e.c] \in Points
  <2>1. e.v \in Bins /\ e.c \in Nat /\ e.floor \in Nat \ {0} /\ e.floor <= e.c
    BY DEF Entries
  <2>2. \A i, j \in Nat : i # 0 /\ i <= j => j # 0
    OBVIOUS
  <2>3. e.c # 0
    BY <2>1, <2>2
  <2> QED BY <2>1, <2>3 DEF Points
<1> QED BY <1>1

\* A step that leaves the marker, the list and the fate alone is none of the ledger.
LEMMA InstantStutter ==
    ASSUME IInv, marker' = marker, unsafe' = unsafe, Fate' = Fate
    PROVE  UNCHANGED Ledger!vars
  BY DEF Ledger!vars, ListedPoints

\* Without a marker there is no fate to change.
LEMMA EmptyStutter ==
    ASSUME IInv, marker' = marker, unsafe' = unsafe, marker = NoPoint
    PROVE  UNCHANGED Ledger!vars
  BY InstantStutter DEF Fate

\* A marker that is found condemns its point.
LEMMA ConsumeMaps == ASSUME IInv, IInv', Consume PROVE [Ledger!Next]_Ledger!vars
<1>1. CASE marker = NoPoint
  BY <1>1, EmptyStutter DEF Consume
<1>2. CASE marker # NoPoint
  <2>1. marker' = marker /\ marker \in Points /\ unsafe \in SUBSET Entries /\ probe.step = "idle"
        /\ probe' = probe /\ pc = "consume" /\ pc' = "unlink"
        /\ unsafe' = RecordUnsafe(unsafe, Entry(marker, "freeze"))
    BY <1>2, NoPointIsNone, ProbeIsLive DEF Consume, IInv, TypeOK, Phases
  <2>2. unsafe' = unsafe \cup {Entry(marker, "freeze")}
    BY <2>1, RecordedIsClosed
  <2>3. Fate = "dead" /\ Fate' = "settled"
    BY <1>2, <2>1 DEF Fate
  <2>4. [v |-> Entry(marker, "freeze").v, c |-> Entry(marker, "freeze").c] = marker
    BY <2>1 DEF Entry, Points
  <2>5. ListedPoints \cup {marker} \subseteq ListedPoints'
    BY <2>2, <2>4 DEF ListedPoints
  <2>6. ListedPoints' \subseteq Points
    <3>1. unsafe' \in SUBSET Entries
      BY DEF IInv, TypeOK
    <3> QED BY <3>1, ListedArePoints DEF ListedPoints
  <2>7. Ledger!Condemn
    BY <2>1, <2>3, <2>5, <2>6 DEF Ledger!Condemn
  <2> QED BY <2>7 DEF Ledger!Next
<1> QED BY <1>1, <1>2

\* Its removal closes the trial.
LEMMA UnlinkMaps == ASSUME IInv, Unlink PROVE [Ledger!Next]_(Ledger!vars)
<1>1. marker' = NoPoint /\ unsafe' = unsafe /\ pc = "unlink"
  BY DEF Unlink
<1>2. CASE marker = NoPoint
  BY <1>1, <1>2, EmptyStutter
<1>3. CASE marker # NoPoint
  <2>1. Fate = "settled" /\ Fate' = "none" /\ ListedPoints' = ListedPoints
    BY <1>1, <1>3 DEF Fate, ListedPoints
  <2>2. Ledger!Close
    BY <1>1, <2>1 DEF Ledger!Close
  <2> QED BY <2>2 DEF Ledger!Next
<1> QED BY <1>2, <1>3

\* A stop ends a trial, the death of the process leaves it.
LEMMA GoneMaps ==
    ASSUME IInv, StartFails \/ Quits \/ Leave \/ UserStops \/ Die PROVE [Ledger!Next]_(Ledger!vars)
<1>1. Forgets /\ unsafe' = unsafe
  BY DEF StartFails, Quits, Leave, UserStops, Die, disk
<1>2. pc' = "off" /\ probe'.step = "idle" /\ ListedPoints' = ListedPoints
  BY <1>1, NothingTypes DEF Forgets, ListedPoints
<1>3. CASE UserStops
  <2>1. marker' = NoPoint /\ probe.step = "running"
    BY <1>3 DEF UserStops
  <2>2. pc \in Phases /\ probe.for = pc
    BY <2>1, ProbeIsLive
  <2>3. CASE marker = NoPoint
    BY <1>1, <2>1, <2>3, EmptyStutter
  <2>4. CASE marker # NoPoint
    <3>1. Marks(probe.for) /\ pc # "unlink"
      BY <2>1, <2>2, <2>4, ProbeIsLive DEF IInv, MarkerInv, OnTrial, Phases
    <3>2. Fate = "open" /\ Fate' = "none"
      BY <2>1, <2>4, <3>1 DEF Fate
    <3>3. Ledger!Stop
      BY <1>2, <2>1, <3>2 DEF Ledger!Stop
    <3> QED BY <3>3 DEF Ledger!Next
  <2> QED BY <2>3, <2>4
<1>4. CASE StartFails \/ Quits \/ Leave \/ Die
  <2>1. marker' = marker
    BY <1>4 DEF StartFails, Quits, Leave, Die, disk
  <2>2. CASE marker = NoPoint
    BY <1>1, <2>1, <2>2, EmptyStutter
  <2>3. CASE marker # NoPoint
    <3>1. Fate' = "dead" /\ Fate \in {"settled", "open", "dead"}
      BY <1>2, <2>1, <2>3 DEF Fate
    <3>2. CASE Fate = "dead"
      BY <1>1, <2>1, <3>1, <3>2, InstantStutter
    <3>3. CASE Fate # "dead"
      <4>1. Ledger!Die
        BY <1>2, <2>1, <3>1, <3>3 DEF Ledger!Die
      <4> QED BY <4>1 DEF Ledger!Next
    <3> QED BY <3>2, <3>3
  <2> QED BY <2>2, <2>3
<1> QED BY <1>3, <1>4

\* A verdict settles the trial.
LEMMA JudgeMaps ==
    ASSUME IInv, IInv', NEW verdict \in Outcomes, Judge(verdict) PROVE [Ledger!Next]_(Ledger!vars)
<1>1. /\ probe.step = "running" /\ probe' = [probe EXCEPT !.step = "judged", !.verdict = verdict]
      /\ marker' = marker /\ pc' = pc
      /\ (~Marks(probe.for) => unsafe' = unsafe)
      /\ unsafe' \in {unsafe, RecordUnsafe(unsafe, Entry(probe.at, verdict.why))}
  BY DEF Judge
<1>2. probe \in Probings /\ pc \in Phases /\ pc # "unlink"
  BY <1>1, ProbeIsLive DEF IInv, TypeOK, Phases
<1>3. probe'.step = "judged" /\ probe'.for = probe.for
  BY <1>1, <1>2 DEF Probings
<1>4. CASE marker = NoPoint
  <2>1. ~Marks(probe.for)
    BY <1>1, <1>4, ProbeIsLive, NoPointIsNone DEF IInv, MarkerInv, OnTrial
  <2> QED BY <1>1, <1>4, <2>1, EmptyStutter
<1>5. CASE marker # NoPoint
  <2>1. Marks(probe.for)
    BY <1>1, <1>5, ProbeIsLive DEF IInv, MarkerInv, OnTrial
  <2>2. Fate = "open" /\ Fate' = "settled"
    BY <1>1, <1>2, <1>3, <1>5, <2>1 DEF Fate
  <2>3. unsafe \subseteq unsafe' /\ unsafe' \in SUBSET Entries
    <3>1. unsafe \in SUBSET Entries /\ unsafe' \in SUBSET Entries
      BY DEF IInv, TypeOK
    <3>2. \A e \in unsafe : e.why # "controlled"
      BY <3>1 DEF Entries
    <3> QED BY <1>1, <3>1, <3>2 DEF RecordUnsafe
  <2>4. ListedPoints \subseteq ListedPoints' /\ ListedPoints' \subseteq Points
    BY <2>3, ListedArePoints DEF ListedPoints
  <2>5. Ledger!Settle
    BY <1>1, <2>2, <2>4 DEF Ledger!Settle
  <2> QED BY <2>5 DEF Ledger!Next
<1> QED BY <1>4, <1>5

\* Its marker closes it.
LEMMA UnmarkMaps == ASSUME IInv, Unmark PROVE [Ledger!Next]_(Ledger!vars)
<1>1. probe.step = "judged" /\ marker' = (IF Marks(probe.for) THEN NoPoint ELSE marker) /\ unsafe' = unsafe
  BY DEF Unmark
<1>2. CASE marker = NoPoint
  BY <1>1, <1>2, EmptyStutter
<1>3. CASE marker # NoPoint
  <2>1. Marks(probe.for)
    BY <1>1, <1>3, ProbeIsLive DEF IInv, MarkerInv, OnTrial
  <2>2. marker' = NoPoint /\ Fate = "settled" /\ Fate' = "none" /\ ListedPoints' = ListedPoints
    BY <1>1, <1>3, <2>1 DEF Fate, ListedPoints
  <2>3. Ledger!Close
    BY <2>2 DEF Ledger!Close
  <2> QED BY <2>3 DEF Ledger!Next
<1> QED BY <1>2, <1>3

\* A probe that raises ends its trial; one that cannot be recorded leaves it.
LEMMA ProbeEndsMaps ==
    ASSUME IInv, RecordFails \/ \E critical \in BOOLEAN : ProbeRaises(critical)
    PROVE  [Ledger!Next]_(Ledger!vars)
<1>1. /\ probe.step \in {"running", "judged"} /\ probe' = NoProbe /\ unsafe' = unsafe
      /\ pc' \in {"tiers", "finish", "error"}
      /\ \/ marker' = marker /\ probe.step = "running" /\ Marks(probe.for)
         \/ marker' = (IF Marks(probe.for) THEN NoPoint ELSE marker)
  BY DEF RecordFails, ProbeRaises, TierFails, Fails, disk
<1>2. ListedPoints' = ListedPoints /\ pc \in Phases /\ pc # "unlink" /\ pc' # "unlink" /\ probe'.step = "idle"
  BY <1>1, ProbeIsLive, NothingTypes DEF ListedPoints, Phases
<1>3. CASE marker = NoPoint
  BY <1>1, <1>3, EmptyStutter
<1>4. CASE marker # NoPoint
  <2>1. Marks(probe.for)
    BY <1>1, <1>4, ProbeIsLive DEF IInv, MarkerInv, OnTrial
  <2>2. Fate = IF probe.step = "judged" THEN "settled" ELSE "open"
    BY <1>1, <1>2, <1>4, <2>1 DEF Fate
  <2>3. CASE marker' = marker /\ probe.step = "running"
    <3>1. Fate' = "dead"
      BY <1>2, <1>4, <2>3 DEF Fate
    <3>2. Ledger!Die
      BY <1>2, <2>2, <2>3, <3>1 DEF Ledger!Die
    <3> QED BY <3>2 DEF Ledger!Next
  <2>4. CASE marker' = NoPoint
    <3>1. Fate' = "none"
      BY <2>4 DEF Fate
    <3>2. Ledger!Close \/ Ledger!Stop
      BY <1>1, <1>2, <2>2, <2>4, <3>1 DEF Ledger!Close, Ledger!Stop
    <3> QED BY <3>2 DEF Ledger!Next
  <2> QED BY <1>1, <2>1, <2>3, <2>4
<1> QED BY <1>3, <1>4

\* A probe that is marked begins a trial.
LEMMA ProbesMaps ==
    ASSUME IInv, NEW p \in Points, NEW for \in Phases, pc = for, pc' = pc, Probes(p, for)
    PROVE  [Ledger!Next]_(Ledger!vars)
<1>1. Live /\ probe.step = "idle" /\ pc # "unlink"
  BY DEF Live, InTier, Phases, Probes
<1>2. marker = NoPoint
  BY <1>1 DEF IInv, MarkerInv, OnTrial
<1>3. unsafe' = unsafe /\ ListedPoints' = ListedPoints
  BY DEF Probes, Runs, Replayed, disk, ListedPoints
<1>4. CASE marker' = marker
  BY <1>2, <1>3, <1>4, EmptyStutter
<1>5. CASE marker' # marker
  <2>1. Runs(p, for) /\ Marks(for) /\ marker' = p /\ probe'.step = "running" /\ probe'.for = for
    BY <1>5 DEF Probes, Runs, Replayed, disk
  <2>2. Fate = "none" /\ Fate' = "open"
    BY <1>1, <1>2, <2>1, NoPointIsNone DEF Fate
  <2>3. Ledger!Begin
    BY <1>3, <2>1, <2>2 DEF Ledger!Begin
  <2> QED BY <2>3 DEF Ledger!Next
<1> QED BY <1>4, <1>5

\* In every phase.
LEMMA ProbingMaps ==
    ASSUME IInv, \/ BaselineProbes \/ DescentProbes \/ SoakProbes
                 \/ \E p \in Rungs : ClimbProbes(p)
    PROVE  [Ledger!Next]_(Ledger!vars)
<1>1. pc \in {"descent", "climb", "soak"} => search.here \in Points
  BY DEF IInv, DataInv, InTier
<1>2. CASE BaselineProbes
  <2>1. Baseline \in Points
    BY <1>2, BaselineIsOpen DEF BaselineProbes, BaselineOpen, IInv
  <2>2. pc = "baseline" /\ pc' = pc /\ Probes(Baseline, "baseline")
    BY <1>2 DEF BaselineProbes
  <2> QED BY <2>1, <2>2, ProbesMaps DEF Phases
<1>3. CASE DescentProbes
  <2>1. pc = "descent" /\ pc' = pc /\ Below.v > 0 /\ Probes(Below, "descent")
    BY <1>3 DEF DescentProbes
  <2>2. Below \in Points
    BY <1>1, <2>1, BelowIsPoint
  <2> QED BY <2>1, <2>2, ProbesMaps DEF Phases
<1>4. CASE SoakProbes
  <2>1. pc = "soak" /\ pc' = pc /\ Probes(search.here, "soak")
    BY <1>4 DEF SoakProbes
  <2> QED BY <1>1, <2>1, ProbesMaps DEF Phases
<1>5. ASSUME NEW p \in Rungs, ClimbProbes(p) PROVE [Ledger!Next]_(Ledger!vars)
  <2>1. pc = "climb" /\ pc' = pc /\ Probes(p, "climb")
    BY <1>5 DEF ClimbProbes
  <2>2. p \in Points
    BY <1>1, <2>1, RungsArePoints
  <2> QED BY <2>1, <2>2, ProbesMaps DEF Phases
<1> QED BY <1>2, <1>3, <1>4, <1>5

\* Between two probes there is no marker: these steps are none of the ledger.
LEMMA LiveMaps ==
    ASSUME IInv, \/ SaveResult \/ Note
                 \/ BaselineGivesUp \/ BaselinePasses \/ BaselineFails
                 \/ Reuse \/ TierStarts
                 \/ DescentResumes \/ DescentReused \/ DescentEnds \/ DescentPasses \/ DescentFails
                 \/ (\E p \in Rungs : ClimbSkips(p)) \/ ClimbPasses \/ ClimbFails \/ ClimbEnds
                 \/ Choose \/ Discard
                 \/ SoakBlocked \/ SoakFails \/ SoakPasses \/ RecordTier \/ TierCompletes
    PROVE  [Ledger!Next]_(Ledger!vars)
<1>1. marker' = marker /\ unsafe' = unsafe
  BY DEF SaveResult, Note, BaselineGivesUp, BaselinePasses, BaselineFails, Reuse, TierStarts,
         DescentResumes, DescentReused, DescentEnds, DescentPasses, DescentFails, ClimbSkips,
         ClimbPasses, ClimbFails, ClimbEnds, Choose, Discard, SoakBlocked, SoakFails, SoakPasses,
         RecordTier, TierCompletes, disk
<1>2. \/ probe.step \in {"measured", "saved", "known"}
      \/ /\ pc \in {"baseline", "tiers", "descent", "climb", "choose", "soak", "saved", "verified"}
         /\ probe.step = "idle"
      \/ pc \in {"tiers", "choose", "saved", "verified"}
  BY DEF SaveResult, Note, BaselineGivesUp, BaselinePasses, BaselineFails, Reuse, TierStarts,
         DescentResumes, DescentReused, DescentEnds, DescentPasses, DescentFails, ClimbSkips,
         ClimbPasses, ClimbFails, ClimbEnds, Choose, Discard, SoakBlocked, SoakFails, SoakPasses,
         RecordTier, TierCompletes, Takes
<1>3. Live /\ ~OnTrial
  BY <1>2, ProbeIsLive DEF Live, InTier, OnTrial, Phases
<1>4. marker = NoPoint
  BY <1>3 DEF IInv, MarkerInv
<1> QED BY <1>1, <1>4, EmptyStutter

\* Nor are those outside a scan, and at its ends.
LEMMA OutsideMaps ==
    ASSUME IInv, \/ Start \/ Finish \/ (\E t \in Tiers : ProfileDeleted(t))
                 \/ \E drift \in BOOLEAN : Open(drift)
    PROVE  [Ledger!Next]_(Ledger!vars)
<1>1. marker' = marker /\ unsafe' = unsafe /\ probe' = probe
      /\ pc \in {"off", "finish", "tiers", "open"} /\ pc' # "unlink"
  BY DEF Start, Finish, ProfileDeleted, Open, disk
<1>2. pc # "unlink" /\ probe.step = "idle"
  BY <1>1, ProbeIsLive DEF Phases
<1>3. Fate' = Fate
  BY <1>1, <1>2 DEF Fate
<1> QED BY <1>1, <1>3, InstantStutter

\* Every step is one of the ledger, or none.
LEMMA StepMaps == ASSUME IInv, IInv', Next PROVE [Ledger!Next]_(Ledger!vars)
<1>1. CASE Work
  <2>1. CASE Consume \/ Unlink \/ Unmark
    BY <2>1, ConsumeMaps, UnlinkMaps, UnmarkMaps
  <2>2. CASE Open(FALSE) \/ (Drifts /\ Open(TRUE)) \/ Finish
    BY <2>2, OutsideMaps
  <2>3. ASSUME NEW verdict \in Outcomes, Judge(verdict) PROVE [Ledger!Next]_(Ledger!vars)
    BY <2>3, JudgeMaps
  <2>4. CASE BaselineProbes \/ DescentProbes \/ SoakProbes \/ (\E p \in Rungs : ClimbProbes(p))
    BY <2>4, ProbingMaps
  <2>5. CASE Leave
    BY <2>5, GoneMaps
  <2>6. CASE \/ SaveResult \/ Note
             \/ BaselineGivesUp \/ BaselinePasses \/ BaselineFails
             \/ Reuse \/ TierStarts
             \/ DescentResumes \/ DescentReused \/ DescentEnds \/ DescentPasses \/ DescentFails
             \/ (\E p \in Rungs : ClimbSkips(p)) \/ ClimbPasses \/ ClimbFails \/ ClimbEnds
             \/ Choose \/ Discard
             \/ SoakBlocked \/ SoakFails \/ SoakPasses \/ RecordTier \/ TierCompletes
    BY <2>6, LiveMaps
  <2> QED BY <1>1, <2>1, <2>2, <2>3, <2>4, <2>5, <2>6 DEF Work
<1>2. CASE Upsets
  <2>1. CASE Start \/ \E t \in Tiers : ProfileDeleted(t)
    BY <2>1, OutsideMaps
  <2>2. CASE StartFails \/ UserStops \/ Quits \/ Die
    BY <2>2, GoneMaps
  <2>3. CASE RecordFails \/ \E critical \in BOOLEAN : ProbeRaises(critical)
    BY <2>3, ProbeEndsMaps
  <2> QED BY <1>2, <2>1, <2>2, <2>3 DEF Upsets
<1> QED BY <1>1, <1>2 DEF Next

\* A step that changes nothing is none.
LEMMA StutterMaps == ASSUME UNCHANGED vars PROVE [Ledger!Next]_(Ledger!vars)
  BY DEF vars, disk, Fate, ListedPoints, Ledger!vars

\* At first nothing is on trial.
LEMMA InitMaps == Init => Ledger!Init
  BY DEF Init, Ledger!Init, Fate, ListedPoints

\* The marker and the blacklist, written in the order in which the code writes them,
\* keep the ledger: every trial is written down before it begins, and one that the
\* process did not survive is condemned before anything else is tried.
THEOREM MarkerKeepsLedger == Spec => ImplementsLedger
<1>1. Init => IInv
  BY InitSafe
<1>2. IInv /\ [Next]_vars => IInv'
  BY StepSafe, StutterSafe
<1>3. IInv /\ IInv' /\ [Next]_vars => [Ledger!Next]_(Ledger!vars)
  BY StepMaps, StutterMaps
<1> QED BY <1>1, <1>2, <1>3, InitMaps, PTL DEF Spec, ImplementsLedger, Ledger!Spec

-----------------------------------------------------------------------------
(* What a scan has on record as done. *)

(***************************************************************************)
(* The checkpoint's profiles and its receipts go together on disk.  While  *)
(* a scan is live they agree with the saved profiles, because a checkpoint *)
(* whose receipts differ is archived when it is opened, and what the tiers *)
(* returned agrees with the checkpoint.  A tier is only ever searched while *)
(* the checkpoint has no profile of it.                                    *)
(***************************************************************************)
Early == pc \in {"off", "consume", "unlink", "open"}
Searching == pc \in {"descent", "climb", "choose", "soak", "saved"} \/ (pc = "baseline" /\ turn > 0)
Agrees(these, those) == \A t \in Tiers : these[t] # NoPoint => those[t] = these[t]

DoneInv ==
    /\ ckpt \in Checkpoints => Agrees(ckpt.done, ckpt.receipts)
    /\ Live => Agrees(ckpt.done, saved) /\ Agrees(results, ckpt.done)
    /\ Searching => ckpt.done[Tier] = NoPoint
    /\ pc = "verified" => ckpt.done[Tier] = saved[Tier]
    /\ Early => results = NoProfiles /\ turn = 0
    /\ ReportedAsSaved

\* The steps that touch none of these, and lead from one phase of a tier to the next.
SameDone ==
    /\ ckpt' \in Checkpoints => /\ ckpt \in Checkpoints
                                /\ ckpt'.done = ckpt.done /\ ckpt'.receipts = ckpt.receipts
    /\ saved' = saved /\ turn' = turn /\ results' = results
    /\ Live' => Live
    /\ Searching' => Searching
    /\ pc' = "verified" => pc = "verified"
    /\ Early' => Early

LEMMA SameKeeps == ASSUME IInv, IInv', DoneInv, SameDone PROVE DoneInv'
<1>1. Tier' = Tier
  BY DEF SameDone, Tier
<1>2. Live' => ckpt'.done = ckpt.done
  BY DEF IInv, DataInv, SameDone
<1>3. Searching' => Live'
  BY DEF Searching, Live, InTier
<1>4. pc' = "verified" => Live'
  BY DEF Live, InTier
<1> QED BY <1>1, <1>2, <1>3, <1>4 DEF DoneInv, SameDone, Agrees, ReportedAsSaved

\* The replay's progress leaves the profiles alone.
LEMMA ProgressDone ==
    ASSUME ckpt \in Checkpoints
    PROVE  SavedProgress.done = ckpt.done /\ SavedProgress.receipts = ckpt.receipts
BY DEF SavedProgress, Flushed, Checkpoints

\* The steps of one probe.
LEMMA ProbingDone ==
    ASSUME IInv, \/ BaselineProbes \/ DescentProbes \/ SoakProbes
                 \/ \E p \in Rungs : ClimbProbes(p)
                 \/ \E verdict \in Outcomes : Judge(verdict)
                 \/ Unmark \/ SaveResult \/ Note
    PROVE  SameDone
<1>1. ckpt \in Checkpoints /\ UNCHANGED <<pc, saved, turn, results>>
  <2>1. CASE \/ BaselineProbes \/ DescentProbes \/ SoakProbes \/ \E p \in Rungs : ClimbProbes(p)
    <3>1. pc \in Phases /\ UNCHANGED <<pc, turn, results>>
      BY <2>1 DEF BaselineProbes, DescentProbes, SoakProbes, ClimbProbes, tiers, Phases
    <3>2. saved' = saved
      BY <2>1 DEF BaselineProbes, DescentProbes, SoakProbes, ClimbProbes, Probes, Replayed, Runs, disk
    <3>3. Live
      BY <3>1 DEF Phases, Live, InTier
    <3> QED BY <3>1, <3>2, <3>3 DEF IInv, DataInv
  <2>2. CASE (\E verdict \in Outcomes : Judge(verdict)) \/ Unmark \/ SaveResult \/ Note
    <3>1. probe.step # "idle" /\ UNCHANGED <<pc, saved, turn, results>>
      BY <2>2 DEF Judge, Unmark, SaveResult, Note, session
    <3> QED BY <3>1, ProbeIsLive
  <2> QED BY <2>1, <2>2
<1>2. ckpt'.done = ckpt.done /\ ckpt'.receipts = ckpt.receipts
  <2>1. CASE \/ BaselineProbes \/ DescentProbes \/ SoakProbes \/ \E p \in Rungs : ClimbProbes(p)
    <3>1. ckpt' \in {ckpt, SavedProgress}
      BY <2>1 DEF BaselineProbes, DescentProbes, SoakProbes, ClimbProbes, Probes, Replayed, Runs, disk
    <3> QED BY <1>1, <3>1, ProgressDone
  <2>2. CASE SaveResult
    <3>1. PICK r : ckpt' = [ckpt EXCEPT !.records = r]
      BY <2>2 DEF SaveResult
    <3> QED BY <1>1, <3>1 DEF Checkpoints
  <2>3. CASE Note
    <3>1. PICK f, s : ckpt' \in {ckpt, [ckpt EXCEPT !.failed = f], [ckpt EXCEPT !.passed = s]}
      BY <2>3 DEF Note
    <3> QED BY <1>1, <3>1 DEF Checkpoints
  <2>4. CASE (\E verdict \in Outcomes : Judge(verdict)) \/ Unmark
    BY <2>4 DEF Judge, Unmark
  <2> QED BY <2>1, <2>2, <2>3, <2>4
<1> QED BY <1>1, <1>2 DEF SameDone, Live, InTier, Searching, Early

\* The ends of a probe and the choices of a search.
LEMMA SearchingDone ==
    ASSUME IInv, \/ BaselineGivesUp \/ BaselinePasses \/ BaselineFails
                 \/ DescentResumes \/ DescentReused \/ DescentEnds \/ DescentPasses \/ DescentFails
                 \/ \E p \in Rungs : ClimbSkips(p)
                 \/ ClimbPasses \/ ClimbFails \/ ClimbEnds
                 \/ Choose \/ Discard \/ SoakBlocked \/ SoakFails
                 \/ RecordFails \/ \E critical \in BOOLEAN : ProbeRaises(critical)
    PROVE  SameDone
<1>1. probe.step # "idle" => Live /\ ckpt \in Checkpoints /\ probe.for = pc
  BY ProbeIsLive
<1>2. Live => ckpt \in Checkpoints
  BY ProbeIsLive
<1>3. turn \in Nat
  BY TurnIsNat DEF IInv
<1>4. CASE BaselineGivesUp \/ BaselineFails \/ DescentFails \/ ClimbFails \/ SoakBlocked \/ SoakFails
  <2>1. UNCHANGED <<ckpt, saved, turn, results>>
    BY <1>4 DEF BaselineGivesUp, BaselineFails, DescentFails, ClimbFails, SoakBlocked, SoakFails,
       Kept, disk
  <2>2. pc \in Phases
    BY <1>1, <1>4 DEF BaselineGivesUp, BaselineFails, DescentFails, ClimbFails, SoakBlocked,
       SoakFails, Takes, Phases
  <2>3. \/ pc' = pc \/ pc' \in {"tiers", "finish", "error"}
        \/ pc = "descent" /\ pc' = "climb"
        \/ pc = "climb" /\ pc' = "choose"
    <3>1. \A critical : TierFails(critical) => pc' \in {"tiers", "finish", "error"}
      BY DEF TierFails
    <3>2. \A critical : Fails(critical) => pc' \in {"tiers", "finish", "error"}
      BY <3>1 DEF Fails
    <3>3. FallsBack => pc' \in {pc, "tiers", "finish", "error"}
      BY <3>1 DEF FallsBack
    <3>4. CASE BaselineGivesUp \/ BaselineFails
      BY <3>2, <3>4 DEF BaselineGivesUp, BaselineFails
    <3>5. CASE DescentFails
      <4>1. pc = "descent" /\ (pc' = "climb" \/ TierFails(TRUE))
        BY <1>1, <3>5 DEF DescentFails, Takes
      <4> QED BY <4>1 DEF TierFails
    <3>6. CASE ClimbFails
      BY <1>1, <3>1, <3>6 DEF ClimbFails, Takes
    <3>7. CASE SoakBlocked \/ SoakFails
      BY <3>1, <3>3, <3>7 DEF SoakBlocked, SoakFails
    <3> QED BY <1>4, <3>4, <3>5, <3>6, <3>7
  <2> QED BY <1>2, <2>1, <2>2, <2>3 DEF SameDone, Live, InTier, Searching, Early, Phases
<1>5. CASE RecordFails \/ \E critical \in BOOLEAN : ProbeRaises(critical)
  <2>1. UNCHANGED <<ckpt, saved, turn, results>> /\ probe.step # "idle"
        /\ pc' \in {"tiers", "finish", "error"}
    BY <1>5 DEF RecordFails, ProbeRaises, Kept, disk, Fails, TierFails
  <2> QED BY <1>1, <2>1 DEF SameDone, Live, InTier, Searching, Early
<1>6. CASE BaselinePasses \/ DescentPasses \/ ClimbPasses
  <2>1. UNCHANGED <<ckpt, saved, turn, results>> /\ Live
        /\ \/ pc' = pc
           \/ pc = "baseline" /\ turn = 0 /\ pc' = "tiers"
           \/ pc = "baseline" /\ turn # 0 /\ pc' = "descent"
    BY <1>1, <1>6 DEF BaselinePasses, DescentPasses, ClimbPasses, Takes, tiers, disk
  <2> QED BY <1>2, <1>3, <2>1 DEF SameDone, Live, InTier, Searching, Early
<1>7. CASE \/ DescentReused \/ DescentEnds \/ ClimbEnds \/ \E p \in Rungs : ClimbSkips(p)
  <2>1. UNCHANGED <<ckpt, saved, turn, results>> /\ pc \in {"descent", "climb"}
        /\ pc' \in {pc, "climb", "choose"}
    BY <1>7 DEF DescentReused, DescentEnds, ClimbEnds, ClimbSkips, tiers, disk, session
  <2> QED BY <1>2, <2>1 DEF SameDone, Live, InTier, Searching, Early
<1>8. CASE DescentResumes \/ Choose \/ Discard
  <2>1. UNCHANGED <<saved, turn, results>> /\ pc \in {"descent", "choose"}
        /\ pc' \in {"soak", "tiers"}
    BY <1>8 DEF DescentResumes, Choose, Discard, tiers
  <2>2. ckpt \in Checkpoints
    BY <1>2, <2>1 DEF Live, InTier
  <2>3. PICK d : ckpt' \in {SavedProgress, [SavedProgress EXCEPT !.discarded = d]}
    BY <1>8 DEF DescentResumes, Choose, Discard
  <2>4. SavedProgress \in Checkpoints
    BY <2>2, CheckpointsKept DEF IInv
  <2>5. ckpt'.done = SavedProgress.done /\ ckpt'.receipts = SavedProgress.receipts
    BY <2>3, <2>4 DEF Checkpoints
  <2> QED BY <2>1, <2>2, <2>5, ProgressDone DEF SameDone, Live, InTier, Searching, Early
<1> QED BY <1>4, <1>5, <1>6, <1>7, <1>8

\* A process that is gone has returned nothing.
LEMMA GoneDone ==
    ASSUME DoneInv, StartFails \/ Quits \/ Leave \/ UserStops \/ Die
    PROVE  DoneInv'
<1>1. pc' = "off" /\ turn' = 0 /\ results' = NoProfiles /\ UNCHANGED <<ckpt, saved>>
  BY DEF StartFails, Quits, Leave, UserStops, Die, Forgets, disk
<1>2. \A t \in Tiers : NoProfiles[t] = NoPoint
  BY DEF NoProfiles
<1> QED BY <1>1, <1>2 DEF DoneInv, Live, InTier, Searching, Early, Agrees, ReportedAsSaved

\* Before a scan is live, and while no scan runs.
LEMMA EarlyDone ==
    ASSUME DoneInv, Start \/ Consume \/ Unlink \/ \E t \in Tiers : ProfileDeleted(t)
    PROVE  DoneInv'
<1>1. pc \in {"off", "consume", "unlink"} /\ pc' \in {"off", "consume", "unlink", "open"}
      /\ UNCHANGED <<ckpt, turn, results>>
  BY DEF Start, Consume, Unlink, ProfileDeleted, session, tiers, disk
<1>2. \A t \in Tiers : NoProfiles[t] = NoPoint
  BY DEF NoProfiles
<1> QED BY <1>1, <1>2 DEF DoneInv, Live, InTier, Searching, Early, Agrees, ReportedAsSaved

\* A checkpoint is only opened while its receipts are what the profiles are.
LEMMA OpenDone ==
    ASSUME IInv, DoneInv, NEW drift \in BOOLEAN, Open(drift)
    PROVE  DoneInv'
<1>1. pc = "open" /\ pc' = "baseline" /\ UNCHANGED <<saved, turn, results>>
  BY DEF Open
<1>2. results = NoProfiles /\ turn = 0 /\ \A t \in Tiers : NoProfiles[t] = NoPoint
  BY <1>1 DEF DoneInv, Early, NoProfiles
<1>3. ckpt'.receipts = saved /\ Agrees(ckpt'.done, saved)
  <2>1. CASE ~Accepted
    BY <1>2, <2>1 DEF Open, NewCheckpoint, Agrees
  <2>2. CASE Accepted
    <3>1. ckpt \in Checkpoints
      BY <2>2 DEF Accepted, IInv, TypeOK
    <3>2. PICK f, r : ckpt' = [ckpt EXCEPT !.failed = f, !.records = r]
      BY <2>2 DEF Open
    <3>3. ckpt'.receipts = ckpt.receipts /\ ckpt'.done = ckpt.done
      BY <3>1, <3>2 DEF Checkpoints
    <3> QED BY <2>2, <3>1, <3>3 DEF Accepted, DoneInv
  <2> QED BY <2>1, <2>2
<1> QED BY <1>1, <1>2, <1>3 DEF DoneInv, Live, InTier, Searching, Early, Agrees, ReportedAsSaved

\* A completed tier is returned as it is on record, and any other one is searched.
LEMMA TurnDone ==
    ASSUME IInv, DoneInv, Reuse \/ TierStarts
    PROVE  DoneInv'
<1>1. /\ pc = "tiers" /\ turn < Len(Order) /\ turn \in Nat /\ ckpt \in Checkpoints
      /\ saved' = saved
  BY TurnIsNat, ProbeIsLive DEF Reuse, TierStarts, disk, IInv, Live
<1>2. NextTier \in Tiers
  <2>1. turn + 1 \in 1..Len(Order)
    BY <1>1, TurnIsNat DEF IInv
  <2> QED BY <2>1, ScanAssumption DEF NextTier, Tiers, Range
<1>3. CASE Reuse
  <2>1. /\ ckpt' = ckpt /\ pc' \in {"tiers", "error"}
        /\ \/ results' = results
           \/ results' = [results EXCEPT ![NextTier] = ckpt.done[NextTier]]
    BY <1>3 DEF Reuse, Done, disk
  <2>2. results \in [Tiers -> MaybePoints]
    BY DEF IInv, TypeOK
  <2>3. Agrees(results', ckpt.done) /\ Agrees(ckpt.done, saved)
    BY <1>1, <1>2, <2>1, <2>2 DEF DoneInv, Live, Agrees
  <2>4. \A t \in Tiers : results'[t] # NoPoint => saved[t] = results'[t]
    BY <2>3 DEF Agrees
  <2> QED BY <1>1, <2>1, <2>3, <2>4 DEF DoneInv, Live, InTier, Searching, Early, Agrees,
          ReportedAsSaved
<1>4. CASE TierStarts
  <2>1. /\ pc' \in {"baseline", "descent", "tiers", "finish", "error"} /\ results' = results
        /\ turn' = turn + 1 /\ Done(NextTier) = NoPoint
    BY <1>4 DEF TierStarts, TierFails
  <2>2. ckpt'.done = ckpt.done /\ ckpt'.receipts = ckpt.receipts
    <3>1. PICK s, e, f : ckpt' \in {ckpt, [ckpt EXCEPT !.started = s, !.ever = e, !.failed = f]}
      BY <1>4 DEF TierStarts
    <3> QED BY <1>1, <3>1 DEF Checkpoints
  <2>3. Tier' = NextTier
    BY <1>1, <2>1 DEF Tier, NextTier
  <2>4. ckpt'.done[Tier'] = NoPoint
    BY <2>1, <2>2, <2>3 DEF Done
  <2> QED BY <1>1, <2>1, <2>2, <2>4 DEF DoneInv, Live, InTier, Searching, Early, Agrees,
          ReportedAsSaved
<1> QED BY <1>3, <1>4

\* A tier's profile is saved, put on record, and returned.
LEMMA VerifiedDone ==
    ASSUME IInv, DoneInv, SoakPasses \/ RecordTier \/ TierCompletes \/ Finish
    PROVE  DoneInv'
<1>1. Tier \in Tiers /\ saved \in [Tiers -> MaybePoints] /\ results \in [Tiers -> MaybePoints]
  BY TierIsTier DEF IInv, TypeOK
<1>2. pc \in {"soak", "saved", "verified"} => ckpt \in Checkpoints /\ ckpt.done \in [Tiers -> MaybePoints]
  <2>1. \A c \in Checkpoints : c.done \in [Tiers -> MaybePoints]
    BY DEF Checkpoints
  <2> QED BY <2>1, ProbeIsLive DEF Live, InTier
<1>3. CASE SoakPasses
  <2>1. /\ pc = "soak" /\ pc' = "saved" /\ UNCHANGED <<ckpt, turn, results>>
        /\ saved' = [saved EXCEPT ![Tier] = probe.at]
    BY <1>3, ProbeIsLive DEF SoakPasses, Takes, session
  <2>2. ckpt.done[Tier] = NoPoint /\ Tier' = Tier
    BY <2>1 DEF DoneInv, Searching, Tier
  <2>3. results[Tier] = NoPoint
    BY <1>1, <2>1, <2>2 DEF DoneInv, Live, InTier, Agrees
  <2>4. Agrees(ckpt.done, saved') /\ Agrees(results, saved') /\ Agrees(results, ckpt.done)
    BY <1>1, <2>1, <2>2, <2>3 DEF DoneInv, Live, InTier, Agrees, ReportedAsSaved
  <2> QED BY <1>2, <2>1, <2>2, <2>4 DEF DoneInv, Live, InTier, Searching, Early, Agrees,
          ReportedAsSaved
<1>4. CASE RecordTier
  <2>1. /\ pc = "saved" /\ pc' = "verified" /\ UNCHANGED <<saved, turn, results>>
        /\ ckpt' = [ckpt EXCEPT !.done[Tier] = saved[Tier], !.receipts = saved]
    BY <1>4 DEF RecordTier
  <2>2. /\ ckpt'.done = [ckpt.done EXCEPT ![Tier] = saved[Tier]] /\ ckpt'.receipts = saved
    BY <1>2, <2>1 DEF Checkpoints
  <2>3. ckpt.done[Tier] = NoPoint /\ Tier' = Tier
    BY <2>1 DEF DoneInv, Searching, Tier
  <2>4. Agrees(ckpt'.done, saved) /\ Agrees(results, ckpt'.done)
    BY <1>1, <1>2, <2>1, <2>2, <2>3 DEF DoneInv, Live, InTier, Agrees
  <2>5. ckpt'.done[Tier] = saved[Tier]
    BY <1>1, <1>2, <2>1, <2>2
  <2> QED BY <2>1, <2>2, <2>3, <2>4, <2>5 DEF DoneInv, Live, InTier, Searching, Early, Agrees,
          ReportedAsSaved
<1>5. CASE TierCompletes
  <2>1. /\ pc = "verified" /\ pc' = "tiers" /\ UNCHANGED <<saved, turn>>
        /\ results' = [results EXCEPT ![Tier] = saved[Tier]]
    BY <1>5 DEF TierCompletes
  <2>2. ckpt'.done = ckpt.done /\ ckpt'.receipts = ckpt.receipts
    <3>1. PICK c : ckpt' = [ckpt EXCEPT !.completed = c]
      BY <1>5 DEF TierCompletes
    <3> QED BY <1>2, <2>1, <3>1 DEF Checkpoints
  <2>3. Agrees(results', ckpt.done) /\ Agrees(ckpt.done, saved) /\ Agrees(results', saved)
    BY <1>1, <2>1 DEF DoneInv, Live, InTier, Agrees, ReportedAsSaved
  <2> QED BY <1>2, <2>1, <2>2, <2>3 DEF DoneInv, Live, InTier, Searching, Early, Agrees,
          ReportedAsSaved
<1>6. CASE Finish
  <2>1. pc' \in {"error", "returned"} /\ ckpt' \in {NoCheckpoint, ckpt} /\ UNCHANGED <<saved, results>>
    BY <1>6 DEF Finish, session
  <2>2. NoCheckpoint \notin Checkpoints
    <3>1. \A c \in Checkpoints : "done" \in DOMAIN c
      BY DEF Checkpoints
    <3>2. "done" \notin DOMAIN NoCheckpoint
      BY DEF NoCheckpoint
    <3> QED BY <3>1, <3>2
  <2> QED BY <2>1, <2>2 DEF DoneInv, Live, InTier, Searching, Early, Agrees, ReportedAsSaved
<1> QED BY <1>3, <1>4, <1>5, <1>6

LEMMA InitDone == Init => DoneInv
<1>1. \A t \in Tiers : NoProfiles[t] = NoPoint
  BY DEF NoProfiles
<1>2. NoCheckpoint \notin Checkpoints
  <2>1. \A c \in Checkpoints : "done" \in DOMAIN c
    BY DEF Checkpoints
  <2>2. "done" \notin DOMAIN NoCheckpoint
    BY DEF NoCheckpoint
  <2> QED BY <2>1, <2>2
<1> QED BY <1>1, <1>2 DEF Init, DoneInv, Live, InTier, Searching, Early, Agrees, ReportedAsSaved

LEMMA AlwaysDone == Spec => []DoneInv
<1>1. IInv /\ IInv' /\ DoneInv /\ Next => DoneInv'
  BY SearchingDone, ProbingDone, SameKeeps, GoneDone, EarlyDone, OpenDone, TurnDone, VerifiedDone
     DEF Next, Work, Upsets
<1>2. DoneInv /\ UNCHANGED vars => DoneInv'
  BY DEF vars, disk, session, DoneInv, Live, InTier, Searching, Early, Agrees, ReportedAsSaved, Tier
<1>3. IInv /\ IInv' /\ DoneInv /\ [Next]_vars => DoneInv'
  BY <1>1, <1>2
<1> QED BY <1>3, InitDone, Invariance, PTL DEF Spec

\* A tier that has its verified profile on record is not searched again: completed_tier
\* is asked before a tier starts, and the record is only ever made at the end of its search.
THEOREM CompletedTiersRest == Spec => []CompletedTierRests
<1>1. IInv /\ DoneInv => CompletedTierRests
  <2> SUFFICES ASSUME IInv, DoneInv, probe.step = "running", turn > 0
               PROVE  ckpt.done[Tier] = NoPoint
    BY DEF CompletedTierRests
  <2>1. pc \in Phases
    BY ProbeIsLive
  <2> QED BY <2>1 DEF DoneInv, Searching, Phases
<1> QED BY <1>1, Invariance, AlwaysDone, PTL

\* What a scan reports of a tier is the profile on disk: a checkpoint whose receipts are
\* not the saved profiles is not resumed (receipts), and a tier that was returned is
\* neither searched nor saved again in the same scan.
THEOREM ReportsAreSaved == Spec => []ReportedAsSaved
<1>1. DoneInv => ReportedAsSaved
  BY DEF DoneInv
<1> QED BY <1>1, AlwaysDone, PTL
=============================================================================
