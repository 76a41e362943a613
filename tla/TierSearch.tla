----------------------------- MODULE TierSearch -----------------------------
(***************************************************************************)
(* The search for one tier's point of voltage and clock, from the measured *)
(* baseline to the verified point: a descent that lowers the voltage at a  *)
(* fixed clock (base_uv_loop.py), a climb that raises the clock again      *)
(* (auto_oc/search.py), the choice among what passed, and the long soak    *)
(* with its fallbacks (main_loop.py, final_verification). The rules that   *)
(* close points are those of AutoUvRules.                                  *)
(*                                                                         *)
(* What a probe measures is chosen freely; a probe is one step here, and   *)
(* what a crash in the middle of one leaves behind is in AutoUvScan.       *)
(***************************************************************************)
EXTENDS AutoUvRules, SequencesExt

CONSTANTS
    Setups,       \* the searches to look at, see Setup
    Floor,        \* the lowest voltage that the settings allow
    Target,       \* the endpoint of the tier's climb, as the table has it
    Steps,        \* the steps of the climb (10 in the code)
    Headroom,     \* the bins that Performance may add to the proven voltage (6)
    StopDrop,     \* the drop, in percent, before Balanced may stop for efficiency
    StopStreak,   \* the extra probes without gain that Balanced asks for
    Records       \* the blacklists that a scan may find

Points == [v : Bins, c : Nat]

Tiers == {"efficiency", "balanced", "performance"}

\* A tier, the measured baseline from which its descent starts, and whether the
\* user lets a climb retry what froze the machine.
Setup == [tier : Tiers, start : Points, retry : BOOLEAN]

\* A blacklist may name voltages that only another curve had.
Entries == [v : Nat, c : Nat, floor : Nat, tier : Tiers \cup {""}, why : Reasons]

ASSUME SearchAssumption ==
    /\ Setups \subseteq Setup
    /\ Records \subseteq SUBSET Entries
    /\ Target \in [v : Nat, c : Nat]
    /\ {Floor, Headroom, StopDrop, StopStreak} \subseteq Nat
    /\ Steps \in Nat \ {0}

\* evaluate_stable_run with what the failure leaves on the blacklist: a
\* recoverable failure ends what the search was doing, an unsafe one the climb,
\* a critical one the scan. Unsafe failures are always recorded.
Verdicts ==
    {[sev |-> "pass", why |-> ""]}
        \cup [sev : {"recoverable"}, why : {"", "fault"}]
        \cup [sev : {"unsafe"}, why : {"fault", "freeze"}]
        \cup {[sev |-> "critical", why |-> ""]}

VARIABLES
    setup,   \* the search that was asked for; it does not change
    pc,      \* what the search is doing
    file,    \* the blacklist on disk
    mem,     \* accumulated_unsafe: the list that the tiers of a scan share
    stable,  \* the last point that the descent passed
    chosen,  \* the point selected so far
    passes,  \* the points that the descent passed, in order
    wall,    \* Balanced: probes without gain, and whether one is pending
    tested,  \* tier_history: the points with a tested curve
    climb,   \* the climb's bookkeeping
    runoff,  \* the probes that the comparison of two finalists still has to run
    failed,  \* the points that a soak rejected
    log      \* every probe that reached the GPU, and for what

vars == <<setup, pc, file, mem, stable, chosen, passes, wall, tested, climb, runoff, failed, log>>

Tier == setup.tier
Start == setup.start

NoClimb == [from |-> NoPoint, cap |-> 0, ladder |-> <<>>, rung |-> 0, retries |-> <<>>,
            passed |-> {}, done |-> {}, tried |-> {}, closed |-> 0, raised |-> 0,
            cached |-> FALSE]

Init ==
    /\ setup \in Setups
    /\ pc = "descend"
    /\ file \in Records /\ mem = file
    /\ stable = Start /\ chosen = Start
    /\ passes = <<>> /\ tested = {Start}
    /\ wall = [streak |-> 0, pending |-> FALSE]
    /\ climb = NoClimb
    /\ runoff = <<>> /\ failed = {} /\ log = <<>>

-----------------------------------------------------------------------------
(* Probes. *)

\* record_probe_unsafe: the entry on disk binds the two clocks below as well.
Recorded(p, verdict) ==
    IF verdict.why = "" THEN file
    ELSE RecordUnsafe(file, [v |-> p.v, c |-> p.c, floor |-> BandFloor(p.c),
                             tier |-> "", why |-> verdict.why])

\* A probe that runs on the GPU, and that the files remember.
OnGpu(p, purpose, verdict) ==
    /\ log' = Append(log, [at |-> p, for |-> purpose, sev |-> verdict.sev])
    /\ file' = Recorded(p, verdict)

\* What the list in memory has learned: tier_mark_unsafe, without the band.
Marked(p, verdict) ==
    IF verdict.why = "" THEN mem
    ELSE mem \cup {[v |-> p.v, c |-> p.c, floor |-> p.c, tier |-> "", why |-> verdict.why]}

-----------------------------------------------------------------------------
(* The descent. *)

\* higher_min_search_voltage
LowestVoltage == Max({Floor, MinSearch(mem, Start.v, Tier)})

\* build_next_lower_voltage_candidate, while there are bins below.
Lowered ==
    LET v == NextLower(Start.v, stable.v, LowestVoltage)
    IN  IF v = 0 THEN {} ELSE {[v |-> v, c |-> stable.c]}

\* Before the GPU is touched: the list in memory, then the edge margin.
DescentCloses(p) == Blocked(mem, p, Tier) \/ UnderEdge(mem, p)

\* Mutant: the pass at the floor is forgotten neither as a choice nor a fallback.
BugFloorCaution == UNCHANGED <<chosen, tested>>

\* run_base_uv_loop, floor-caution: when every probe passed down to the floor,
\* the pass above it goes on and drop_excluded_sweep_pass forgets the floor's.
FloorCaution ==
    IF Len(passes) >= 2 /\ chosen = Last(passes) /\ LowestVoltage > 0
    THEN /\ chosen' = passes[Len(passes) - 1]
         /\ tested' = tested \ {Last(passes)}
    ELSE UNCHANGED <<chosen, tested>>

\* The descent ends where a point is closed, or where the bins end.
DescentEnds ==
    /\ pc = "descend"
    /\ \/ Lowered = {} /\ FloorCaution
       \/ (\E p \in Lowered : DescentCloses(p)) /\ UNCHANGED <<chosen, tested>>
    /\ pc' = "climb"
    /\ UNCHANGED <<setup, file, mem, stable, passes, wall, climb, runoff, failed, log>>

\* accept_current_candidate
Accept(p) == chosen' = p /\ wall' = [streak |-> 0, pending |-> FALSE]

\* decide_efficiency_stop
WallReached(p, streak) ==
    /\ 100 * (Start.v - p.v) >= StopDrop * Start.v
    /\ wall.pending
    /\ streak > StopStreak

\* accept_passing_probe and decide_passed_probe: only Balanced stops where the
\* frames per watt stop rising, on the point before or, when the last one was
\* no worse, on that one.
DescentPasses(p, gain, noWorse) ==
    /\ pc = "descend" /\ ~DescentCloses(p)
    /\ OnGpu(p, "descent", [sev |-> "pass", why |-> ""])
    /\ stable' = p
    /\ passes' = Append(passes, p)
    /\ tested' = tested \cup {p}
    /\ IF gain \/ Tier # "balanced" THEN pc' = pc /\ Accept(p)
       ELSE LET streak == wall.streak + 1
                stops  == WallReached(p, streak)
            IN  /\ wall' = [streak |-> streak, pending |-> ~(stops /\ noWorse)]
                /\ chosen' = IF stops /\ noWorse THEN p ELSE chosen
                /\ pc' = IF stops THEN "climb" ELSE pc
    /\ UNCHANGED <<setup, mem, climb, runoff, failed>>

\* run_base_uv_loop: a failed probe ends the descent, a critical one the scan.
DescentFails(p, verdict) ==
    /\ pc = "descend" /\ ~DescentCloses(p)
    /\ verdict.sev # "pass"
    /\ OnGpu(p, "descent", verdict)
    /\ mem' = Marked(p, verdict)
    /\ pc' = IF verdict.sev = "critical" THEN "error" ELSE "climb"
    /\ UNCHANGED <<setup, stable, chosen, passes, wall, tested, climb, runoff, failed>>

-----------------------------------------------------------------------------
(* The climb. *)

\* Performance climbs to its target, and at the proven voltage when that is
\* over the target's; the other tiers reclaim clock at the proven voltage.
RaisedEndpoint == Tier = "performance" /\ chosen.v > Target.v /\ chosen.c < Target.c
Endpoint ==
    IF Tier = "performance" /\ ~RaisedEndpoint THEN Target
    ELSE [v |-> chosen.v, c |-> Target.c]

ClimbLadder == Ladder(chosen, Endpoint, Steps)

\* run_auto_oc_candidate_search, up to its first rung.
ClimbStarts ==
    /\ pc = "climb"
    /\ ClimbLadder # <<>>
    /\ climb' = [NoClimb EXCEPT
            !.from = chosen, !.ladder = ClimbLadder, !.rung = 1, !.passed = {chosen},
            !.cap = IF RaisedEndpoint THEN BinsAbove(chosen.v, Headroom) ELSE Endpoint.v]
    /\ pc' = "rung"
    /\ UNCHANGED <<setup, file, mem, stable, chosen, passes, wall, tested, runoff, failed, log>>

\* No legal step, or a savings tier whose descent was not bound by power.
ClimbSkipped ==
    /\ pc = "climb"
    /\ ClimbLadder = <<>> \/ Tier # "performance"
    /\ pc' = "choose"
    /\ UNCHANGED <<setup, file, mem, stable, chosen, passes, wall, tested, climb, runoff, failed, log>>

\* The rung's step, at no less than the voltage that a retry has proved since.
Rung ==
    LET step == climb.ladder[climb.rung]
    IN  [step EXCEPT !.v = Max({@, climb.raised})]

\* A point tried before, or a voltage at which a rung failed.
RungSkipped ==
    \/ Rung \in climb.tried
    \/ climb.closed > 0 /\ Rung.v <= climb.closed

SkipRung ==
    /\ pc = "rung" /\ climb.rung <= Len(climb.ladder)
    /\ RungSkipped
    /\ climb' = [climb EXCEPT !.rung = @ + 1]
    /\ UNCHANGED <<setup, pc, file, mem, stable, chosen, passes, wall, tested, runoff, failed, log>>

\* The point that the climb turns to: a rung, a higher voltage for it, or the
\* best clock so far at the ladder's top voltage.
Turned ==
    CASE pc = "rung" /\ climb.rung <= Len(climb.ladder) -> IF RungSkipped THEN {} ELSE {Rung}
      [] pc = "retry"   -> {[v |-> Head(climb.retries), c |-> Rung.c]}
      [] pc = "backoff" -> {[v |-> Last(climb.ladder).v, c |-> chosen.c]}
      [] OTHER          -> {}

\* probe_step, before the GPU is touched: the blacklist on disk, the edge
\* margin over the list in memory, and the rungs that a freeze closed.
ClimbCloses(p) ==
    \/ Blocked(file, p, Tier)
    \/ UnderEdge(mem, p)
    \/ ~setup.retry /\ FrozenRung(file, climb.from.v, p)

\* backoff_after_unsafe: only to a voltage over the one selected.
BacksOff == pc' = IF chosen.v < Last(climb.ladder).v THEN "backoff" ELSE "settle"

\* What follows a point that was not passed: the next higher voltage of the
\* rung; without one, the next rung, or the back-off if the rung was closed
\* before it was tried. A retry that was closed does not raise the voltage
\* under which rungs are skipped.
NextVoltage(p, closed) ==
    LET rest   == IF pc = "rung" THEN RetryVoltages(p.v, climb.cap) ELSE Tail(climb.retries)
        cached == IF pc = "rung" THEN closed ELSE climb.cached
    IN  /\ climb' = [climb EXCEPT
              !.tried = @ \cup {p}, !.retries = rest, !.cached = cached,
              !.rung = IF rest = <<>> THEN @ + 1 ELSE @,
              !.closed = IF pc = "retry" /\ closed THEN @ ELSE Max({@, p.v})]
        /\ IF rest # <<>> THEN pc' = "retry"
           ELSE IF cached THEN BacksOff
           ELSE pc' = "rung"

\* A point that is closed costs no probe.
ClimbClosed(p) ==
    /\ ClimbCloses(p)
    /\ IF pc = "backoff" THEN pc' = "settle" /\ climb' = climb ELSE NextVoltage(p, TRUE)
    /\ UNCHANGED <<setup, file, mem, stable, chosen, passes, wall, tested, runoff, failed, log>>

\* record_outcome of a pass: adopted when its measured clock is the best; when
\* the board's power set that clock it is not adopted, and the climb ends. A
\* back-off that passes is adopted in any case.
ClimbPasses(p, better, walled) ==
    /\ ~ClimbCloses(p)
    /\ OnGpu(p, IF pc = "backoff" THEN pc ELSE "climb", [sev |-> "pass", why |-> ""])
    /\ climb' = [climb EXCEPT
            !.tried = @ \cup {p}, !.done = @ \cup {p}, !.retries = <<>>, !.rung = @ + 1,
            !.passed = IF walled THEN @ ELSE @ \cup {p},
            !.raised = IF pc = "retry" THEN Max({@, p.v}) ELSE @]
    /\ chosen' = IF ~walled /\ (better \/ pc = "backoff") THEN p ELSE chosen
    /\ pc' = IF walled \/ pc = "backoff" THEN "settle" ELSE "rung"
    /\ UNCHANGED <<setup, mem, stable, passes, wall, tested, runoff, failed>>

\* Mutant: the point that the climb backed off to is taken over, passed or not.
BugBackoffFails(p, verdict) ==
    /\ ~ClimbCloses(p)
    /\ verdict.sev # "pass"
    /\ OnGpu(p, IF pc = "backoff" THEN pc ELSE "climb", verdict)
    /\ pc = "backoff" /\ pc' = "settle" /\ chosen' = p
    /\ UNCHANGED <<setup, mem, stable, passes, wall, tested, climb, runoff, failed>>

\* Mutant: an unsafe rung is retried at a higher voltage like any other.
BugClimbFails(p, verdict) ==
    /\ ~ClimbCloses(p)
    /\ verdict.sev # "pass"
    /\ OnGpu(p, IF pc = "backoff" THEN pc ELSE "climb", verdict)
    /\ IF verdict.sev = "critical" THEN pc' = "error" /\ climb' = climb
       ELSE IF pc = "backoff" THEN pc' = "settle" /\ climb' = climb
       ELSE NextVoltage(p, FALSE)
    /\ UNCHANGED <<setup, mem, stable, chosen, passes, wall, tested, runoff, failed>>

\* A failure on the GPU: a critical one ends the scan, an unsafe one the climb
\* after one step back, and any other leads to the next voltage.
ClimbFails(p, verdict) ==
    /\ ~ClimbCloses(p)
    /\ verdict.sev # "pass"
    /\ OnGpu(p, IF pc = "backoff" THEN pc ELSE "climb", verdict)
    /\ IF verdict.sev = "critical" THEN pc' = "error" /\ climb' = climb
       ELSE IF pc = "backoff" THEN pc' = "settle" /\ climb' = climb
       ELSE IF verdict.sev = "unsafe" THEN
            /\ climb' = [climb EXCEPT !.tried = @ \cup {p}, !.retries = <<>>]
            /\ BacksOff
       ELSE NextVoltage(p, FALSE)
    /\ UNCHANGED <<setup, mem, stable, chosen, passes, wall, tested, runoff, failed>>

LadderEnds ==
    /\ pc = "rung" /\ climb.rung > Len(climb.ladder)
    /\ pc' = "settle"
    /\ UNCHANGED <<setup, file, mem, stable, chosen, passes, wall, tested, climb, runoff, failed, log>>

Allowed(points) == {p \in points : ~Blocked(file, p, Tier)}

\* A later failure can close what passed earlier: then anything that passed and
\* is still open, from the climb or from the descent that led to it.
Eligible ==
    IF ~Blocked(file, chosen, Tier) THEN {chosen}
    ELSE Allowed(climb.passed \cup {p \in tested : p.c <= climb.from.c})

ClimbSettles ==
    /\ pc = "settle"
    /\ IF Eligible = {} THEN pc' = "error" /\ chosen' = chosen
       ELSE pc' = "choose" /\ chosen' \in Eligible
    /\ tested' = tested \cup climb.done
    /\ climb' = [NoClimb EXCEPT !.from = climb.from]
    /\ UNCHANGED <<setup, file, mem, stable, passes, wall, runoff, failed, log>>

-----------------------------------------------------------------------------
(* The choice and the soak. *)

\* select_final_scan_candidate: Efficiency takes the best measured frames per
\* watt of all that is allowed; Performance may have two close finalists run
\* against each other, twice each.
Choose ==
    /\ pc = "choose"
    /\ \/ /\ pc' = "dialog" /\ runoff' = runoff
          /\ IF Tier = "efficiency" /\ Allowed(tested) # {}
             THEN chosen' \in Allowed(tested) ELSE chosen' = chosen
       \/ /\ Tier = "performance"
          /\ \E a, b \in Allowed(tested) : a # b /\ runoff' = <<a, b, b, a>>
          /\ pc' = "compare" /\ chosen' = chosen
    /\ UNCHANGED <<setup, file, mem, stable, passes, wall, tested, climb, failed, log>>

\* compare_performance_finalists: anything but a pass is critical.
Compare(verdict) ==
    /\ pc = "compare"
    /\ LET p == Head(runoff)
       IN  IF Blocked(file, p, Tier)
           THEN pc' = "error" /\ UNCHANGED <<file, chosen, runoff, log>>
           ELSE /\ OnGpu(p, "compare", verdict)
                /\ runoff' = Tail(runoff)
                /\ IF verdict.sev # "pass" THEN pc' = "error" /\ chosen' = chosen
                   ELSE IF Tail(runoff) # <<>> THEN pc' = pc /\ chosen' = p
                   ELSE pc' = "dialog" /\ chosen' \in {chosen, p}
    /\ UNCHANGED <<setup, mem, stable, passes, wall, tested, climb, failed>>

\* choose_final_verification_candidate: whoever started the scan may be asked.
Dialog ==
    /\ pc = "dialog"
    /\ \/ pc' = "soak" /\ chosen' = chosen
       \/ pc' = "soak" /\ ~Blocked(file, chosen, Tier) /\ chosen' \in Allowed(tested)
       \/ pc' = "discarded" /\ ~Blocked(file, chosen, Tier) /\ chosen' = chosen
    /\ UNCHANGED <<setup, file, mem, stable, passes, wall, tested, climb, runoff, failed, log>>

\* Mutant: only the point that failed last is left out.
BugFallbacks(p, unsafe, rejected) ==
    {q \in tested : /\ q.v > p.v \/ q.c < p.c
                    /\ q.c <= p.c + ClockStep
                    /\ ~Blocked(unsafe, q, Tier)}

\* choose_next_candidate_after_final_failure: measured points that are safer.
Fallbacks(p, unsafe, rejected) ==
    {q \in tested : /\ q \notin rejected
                    /\ q.v > p.v \/ q.c < p.c
                    /\ q.c <= p.c
                    /\ ~Blocked(unsafe, q, Tier)}

\* run_final_verification_with_fallbacks, after a soak that may be retried.
FallsBack ==
    /\ failed' = failed \cup {chosen}
    /\ IF Fallbacks(chosen, file', failed') = {} THEN pc' = "error" /\ chosen' = chosen
       ELSE pc' = pc /\ chosen' \in Fallbacks(chosen, file', failed')

\* run_final_verification_and_save finds the point on the blacklist.
SoakBlocked ==
    /\ pc = "soak" /\ Blocked(file, chosen, Tier)
    /\ FallsBack
    /\ UNCHANGED <<setup, file, mem, stable, passes, wall, tested, climb, runoff, log>>

Soak(verdict) ==
    /\ pc = "soak" /\ ~Blocked(file, chosen, Tier)
    /\ OnGpu(chosen, "soak", verdict)
    /\ CASE verdict.sev = "pass"     -> pc' = "done" /\ UNCHANGED <<chosen, failed>>
         [] verdict.sev = "critical" -> pc' = "error" /\ UNCHANGED <<chosen, failed>>
         [] OTHER                    -> FallsBack
    /\ UNCHANGED <<setup, mem, stable, passes, wall, tested, climb, runoff>>

\* A search that has ended stays so; in any other state it can go on.
Ended == pc \in {"done", "discarded", "error"} /\ UNCHANGED vars

Next ==
    \/ \E p \in Lowered, gain, noWorse \in BOOLEAN : DescentPasses(p, gain, noWorse)
    \/ \E p \in Lowered, verdict \in Verdicts : DescentFails(p, verdict)
    \/ \E p \in Turned : ClimbClosed(p)
    \/ \E p \in Turned, better, walled \in BOOLEAN : ClimbPasses(p, better, walled)
    \/ \E p \in Turned, verdict \in Verdicts : ClimbFails(p, verdict)
    \/ \E verdict \in Verdicts : Compare(verdict)
    \/ \E verdict \in Verdicts : Soak(verdict)
    \/ DescentEnds \/ ClimbStarts \/ ClimbSkipped \/ SkipRung \/ LadderEnds
    \/ ClimbSettles \/ Choose \/ Dialog \/ SoakBlocked
    \/ Ended

Spec == Init /\ [][Next]_vars

-----------------------------------------------------------------------------
Climbs == [from : Points \cup {NoPoint}, cap : Nat, ladder : Seq(Points), rung : Nat,
           retries : Seq(Bins), passed : SUBSET Points, done : SUBSET Points,
           tried : SUBSET Points, closed : Nat, raised : Bins \cup {0}, cached : BOOLEAN]

Runs == [at : Points, for : {"descent", "climb", "backoff", "compare", "soak"},
         sev : {"pass", "recoverable", "unsafe", "critical"}]

TypeOK ==
    /\ setup \in Setup
    /\ pc \in {"descend", "climb", "rung", "retry", "backoff", "settle", "choose",
               "compare", "dialog", "soak", "done", "discarded", "error"}
    /\ file \in SUBSET Entries /\ mem \in SUBSET Entries
    /\ stable \in Points /\ chosen \in Points
    /\ passes \in Seq(Points) /\ runoff \in Seq(Points)
    /\ tested \in SUBSET Points /\ failed \in SUBSET Points
    /\ wall \in [streak : Nat, pending : BOOLEAN]
    /\ climb \in Climbs
    /\ log \in Seq(Runs)

Probes(purposes) == {i \in DOMAIN log : log[i].for \in purposes}

\* The soak is given a point that was measured and passed in this search, at
\* the very voltage and clock that it soaks: through back-offs, retries, points
\* closed by later failures and fallbacks, no untested curve is ever saved.
TestedBeforeSoak ==
    \A i \in Probes({"soak"}) :
        log[i].at = Start \/ \E j \in 1..(i - 1) : log[j].at = log[i].at /\ log[j].sev = "pass"

\* A climb goes over the edge once: after a rung that the GPU found unsafe it
\* makes at most the one probe that steps back.
OneUnsafePerClimb ==
    \A i, j \in Probes({"climb", "backoff"}) :
        log[i].sev = "unsafe" /\ j > i => log[j].for = "backoff" /\ log[i].for = "climb"

\* A descent that passed everywhere down to the floor has not shown where the
\* edge is, and its deepest point is never soaked.
FloorNotSoaked ==
    LET deepest == passes[Len(passes)]
    IN  Len(passes) >= 2 /\ (\A i \in Probes({"descent"}) : log[i].sev = "pass")
          /\ wall = [streak |-> 0, pending |-> FALSE] /\ deepest.v = Floor
        => \A i \in Probes({"soak"}) : log[i].at # deepest

\* A search soaks no point twice, and no fallback asks for a higher clock.
SoaksRetreat ==
    \A i, j \in Probes({"soak"}) :
        i < j => log[i].at # log[j].at /\ log[j].at.c <= log[i].at.c

=============================================================================
