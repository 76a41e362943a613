----------------------------- MODULE AutoUvScan -----------------------------
(***************************************************************************)
(* An adaptive Auto-UV scan over its three tiers, with the files that let  *)
(* it survive a frozen machine: the crash marker, the blacklist of unsafe  *)
(* points, the checkpoint and the saved profiles. The process may die at   *)
(* any step, the user may stop a probe and start the scan again.           *)
(*                                                                         *)
(* How a tier searches is in TierSearch; here a descent takes the next     *)
(* lower voltage and a climb the next higher clock, so that the steps of   *)
(* one probe (mark, run, record, unmark, save, note) can be told apart.    *)
(***************************************************************************)
EXTENDS AutoUvRules, Functions

CONSTANTS
    Order,     \* the tiers of the scan, in their order
    Regime,    \* the power, memory and tail settings of each tier
    Load,      \* where the stock curve settles under load
    Attempts,  \* the probes of a baseline before it is given up (10)
    Retry,     \* --auto-uv-retry-after-freeze
    Discards,  \* bound: the tiers whose choice the user may discard
    Verdicts,  \* bound: what a probe of each phase may end with, besides a pass
    Drifts,    \* whether the stock curve may have moved between two scans
    MaxStarts  \* bound: how often the user starts a scan

Tiers == Range(Order)
Clocks == {Curve[b] : b \in Bins}
Phases == {"baseline", "descent", "climb", "soak"}
Points == [v : Bins, c : Nat \ {0}]

ASSUME ScanAssumption ==
    /\ Order \in Seq({"efficiency", "balanced", "performance"}) /\ Order # <<>>
    /\ DOMAIN Regime = Tiers
    /\ Verdicts \in [Phases -> SUBSET {"critical", "recoverable", "unsafe"}]
    /\ Load \in Points
    /\ {Attempts, MaxStarts} \subseteq Nat
    /\ Discards \subseteq Tiers
    /\ {Retry, Drifts} \subseteq BOOLEAN

Pass == [sev |-> "pass", why |-> ""]
Critical == [sev |-> "critical", why |-> ""]
Soft == [sev |-> "recoverable", why |-> ""]
Unsafe == [sev |-> "unsafe", why |-> "fault"]

VARIABLES
    \* on disk
    marker,   \* the point of the probe in progress
    unsafe,   \* the blacklist
    ckpt,     \* the checkpoint
    saved,    \* the profile of each tier
    \* in the process
    pc,
    turn,         \* how many tiers have had their turn
    interrupted,  \* the point whose marker this start has consumed
    mem,          \* accumulated_unsafe
    base,         \* baseline_cache: the measured baseline of each regime
    search,       \* the search of the current tier
    probe,        \* the probe in progress
    replaying,    \* whether saved measurements stand in for probes
    pending,      \* the events that a replay holds back
    recovery,     \* where the interrupted tier resumes
    results,      \* what the tiers have returned
    failed,       \* whether a tier has failed: last_tier_error
    donation,     \* what Balanced hands to Performance
    \* history
    starts,
    harm          \* the points found unsafe, and those that killed the process

disk    == <<marker, unsafe, ckpt, saved>>
tiers   == <<turn, base, recovery, results, failed, donation>>
session == <<turn, interrupted, mem, base, search, replaying, pending, recovery,
             results, failed, donation>>
vars    == <<disk, pc, session, probe, starts, harm>>

Tier == IF turn = 0 THEN Order[1] ELSE Order[turn]

NoProfiles == [t \in Tiers |-> NoPoint]
NewCheckpoint == [records |-> {}, passed |-> <<>>, started |-> Order[1], ever |-> {},
                  failed |-> NoPoint, completed |-> {}, discarded |-> {},
                  done |-> NoProfiles, receipts |-> saved]
NoCheckpoint == [records |-> {}]

NoProbe    == [at |-> NoPoint, for |-> "", step |-> "idle", verdict |-> Pass]
NoPending  == [start |-> FALSE, failed |-> NoPoint]
NoRecovery == [tier |-> "", at |-> NoPoint]
NoDonation == [at |-> NoPoint, history |-> {}]
NoSearch   == [here |-> NoPoint, tested |-> {}, tried |-> {}, failed |-> {}, attempts |-> 0,
               resumed |-> FALSE]
From(p)    == [NoSearch EXCEPT !.here = p, !.tested = {p}]

Init ==
    /\ marker = NoPoint /\ unsafe = {} /\ ckpt = NoCheckpoint /\ saved = NoProfiles
    /\ pc = "off" /\ probe = NoProbe
    /\ turn = 0 /\ interrupted = NoPoint /\ mem = {} /\ search = NoSearch
    /\ base = [r \in {Regime[t] : t \in Tiers} |-> NoPoint]
    /\ replaying = FALSE /\ pending = NoPending /\ recovery = NoRecovery
    /\ results = NoProfiles /\ failed = FALSE /\ donation = NoDonation
    /\ starts = 0 /\ harm = [found |-> {}, died |-> {}]

-----------------------------------------------------------------------------
(* Starting a scan. *)

\* The process is gone, and with it all that is not on disk.
Forgets ==
    /\ pc' = "off" /\ probe' = NoProbe
    /\ turn' = 0 /\ interrupted' = NoPoint /\ mem' = {} /\ search' = NoSearch
    /\ base' = [r \in DOMAIN base |-> NoPoint]
    /\ replaying' = FALSE /\ pending' = NoPending /\ recovery' = NoRecovery
    /\ results' = NoProfiles /\ failed' = FALSE /\ donation' = NoDonation

Start ==
    /\ pc = "off" /\ starts < MaxStarts
    /\ starts' = starts + 1
    /\ pc' = "consume"
    /\ UNCHANGED <<disk, session, probe, harm>>

\* What the blacklist is told of a point.
Entry(p, why) == [v |-> p.v, c |-> p.c, floor |-> BandFloor(p.c), tier |-> "", why |-> why]

\* Mutant: the marker goes and the blacklist is not told.
BugConsume ==
    /\ pc = "consume"
    /\ pc' = IF marker = NoPoint THEN "open" ELSE "unlink"
    /\ interrupted' = marker
    /\ UNCHANGED <<marker, unsafe, ckpt, saved, mem, search, replaying, pending, tiers, probe,
                   starts, harm>>

\* consume_interrupted_probe_crash_marker: recorded first, removed afterwards.
Consume ==
    /\ pc = "consume"
    /\ IF marker = NoPoint THEN pc' = "open" /\ unsafe' = unsafe
       ELSE pc' = "unlink" /\ unsafe' = RecordUnsafe(unsafe, Entry(marker, "freeze"))
    /\ interrupted' = marker
    /\ UNCHANGED <<marker, ckpt, saved, mem, search, replaying, pending, tiers, probe, starts, harm>>

Unlink ==
    /\ pc = "unlink"
    /\ marker' = NoPoint
    /\ pc' = "open"
    /\ UNCHANGED <<unsafe, ckpt, saved, session, probe, starts, harm>>

\* The blacklist cannot be written, or the GPU or the checkpoint not opened.
StartFails ==
    /\ pc \in {"consume", "open"}
    /\ Forgets
    /\ UNCHANGED <<disk, starts, harm>>

\* Mutant: any checkpoint will do, whatever became of the profiles.
BugAccepted == ckpt # NoCheckpoint

Accepted == ckpt # NoCheckpoint /\ ckpt.receipts = saved
Resuming == Accepted /\ (ckpt.records # {} \/ ckpt.passed # <<>>)

\* The points that a tier passed, by when it did.
PassedBy(t) ==
    [i \in {j \in DOMAIN ckpt.passed : ckpt.passed[j].tier = t} |-> ckpt.passed[i].at]

\* prepare_recovery: the tier that was interrupted resumes over its last safe
\* pass; without one it starts again.
Recovery ==
    LET t      == ckpt.started
        end    == IF interrupted # NoPoint THEN interrupted ELSE ckpt.failed
        past   == PassedBy(t)
    IN  IF /\ Resuming /\ t \notin ckpt.completed
           /\ t # "performance" \/ ~Retry
           /\ Resumable(past, unsafe, end, t) # {}
        THEN [tier |-> t, at |-> ResumePoint(past, unsafe, end, t)]
        ELSE NoRecovery

\* The list in memory is loaded, and the checkpoint restored: archived when a
\* profile has changed, stripped of its measurements when the stock curve has
\* drifted. completed_ui_events drops the failures.
Open(drift) ==
    /\ pc = "open"
    /\ mem' = unsafe
    /\ ckpt' = IF ~Accepted THEN NewCheckpoint
               ELSE [ckpt EXCEPT !.failed = IF Resuming THEN NoPoint ELSE @, !.records = IF drift THEN {} ELSE @]
    /\ replaying' = (Resuming /\ ~drift)
    /\ recovery' = Recovery
    /\ search' = From(Load)
    /\ interrupted' = NoPoint
    /\ pc' = "baseline"
    /\ UNCHANGED <<marker, unsafe, saved, turn, base, pending, results, failed, donation, probe,
                   starts, harm>>

-----------------------------------------------------------------------------
(* One probe. *)

\* Descents are labelled with their tier; the key of any other probe tells the
\* settings apart but not the tier.
Key(p, for) == [at |-> p, for |-> for, in |-> IF for = "descent" THEN Tier ELSE Regime[Tier]]
KeyOf(record) == [at |-> record.at, for |-> record.for, in |-> record.in]
Known(p, for) == {r \in ckpt.records : KeyOf(r) = Key(p, for)}

\* probe_phase_writes_crash_marker
Marks(for) == for # "baseline"

\* continue_live: what the replay held back and the file does not hold yet.
Flushed(c) ==
    LET tells == pending.start /\ Tier \notin c.ever
    IN  [c EXCEPT !.ever = IF tells THEN @ \cup {Tier} ELSE @,
                  !.started = IF tells THEN Tier ELSE @,
                  !.failed = IF pending.failed # NoPoint THEN pending.failed
                             ELSE IF tells THEN NoPoint ELSE @]

GoesLive == replaying' = FALSE /\ pending' = NoPending
SavedProgress == IF replaying THEN Flushed(ckpt) ELSE ckpt

\* ScanCheckpoint.lookup: the saved result stands in for the GPU.
Replayed(p, for, record) ==
    /\ replaying /\ record \in Known(p, for)
    /\ probe' = [at |-> p, for |-> for, step |-> "known",
                 verdict |-> [sev |-> record.sev, why |-> record.why]]
    /\ pending' = [start |-> FALSE, failed |-> IF record.sev = "pass" THEN NoPoint ELSE p]
    /\ UNCHANGED <<disk, replaying, harm>>

\* Mutant: the marker is left for the blacklist to make up for.
BugRuns(p, for) ==
    /\ GoesLive /\ ckpt' = SavedProgress
    /\ probe' = [at |-> p, for |-> for, step |-> "running", verdict |-> Pass]
    /\ UNCHANGED <<marker, unsafe, saved, harm>>

\* The marker is written before the curve is applied. A soak is never replayed.
Runs(p, for) ==
    /\ for = "soak" \/ ~replaying \/ Known(p, for) = {}
    /\ GoesLive /\ ckpt' = SavedProgress
    /\ marker' = IF Marks(for) THEN p ELSE marker
    /\ probe' = [at |-> p, for |-> for, step |-> "running", verdict |-> Pass]
    /\ UNCHANGED <<unsafe, saved, harm>>

\* Before anything is asked of a point, the search looks at its list.
Probes(p, for) ==
    /\ probe.step = "idle"
    /\ (for # "soak" /\ \E record \in Known(p, for) : Replayed(p, for, record)) \/ Runs(p, for)

Found(p) == [harm EXCEPT !.found = @ \cup {p}]

\* What happened is on the blacklist before the marker goes.
Judge(verdict) ==
    /\ probe.step = "running"
    /\ probe' = [probe EXCEPT !.step = "judged", !.verdict = verdict]
    /\ IF verdict.why # "" /\ Marks(probe.for)
       THEN /\ unsafe' = RecordUnsafe(unsafe, Entry(probe.at, verdict.why))
            /\ harm' = Found(probe.at)
       ELSE UNCHANGED <<unsafe, harm>>
    /\ UNCHANGED <<marker, ckpt, saved, pc, session, starts>>

\* clear_probe_in_progress_marker, in the finally of the probe.
Unmark ==
    /\ probe.step = "judged"
    /\ marker' = IF Marks(probe.for) THEN NoPoint ELSE marker
    /\ probe' = [probe EXCEPT !.step = IF probe.for = "soak" THEN "saved" ELSE "measured"]
    /\ UNCHANGED <<unsafe, ckpt, saved, pc, session, starts, harm>>

\* ScanCheckpoint.record
SaveResult ==
    /\ probe.step = "measured"
    /\ LET key == Key(probe.at, probe.for)
           new == [at |-> key.at, for |-> key.for, in |-> key.in,
                   sev |-> probe.verdict.sev, why |-> probe.verdict.why]
       IN  ckpt' = [ckpt EXCEPT !.records = {r \in @ : KeyOf(r) # key} \cup {new}]
    /\ probe' = [probe EXCEPT !.step = "saved"]
    /\ UNCHANGED <<marker, unsafe, saved, pc, session, starts, harm>>

\* note_pass, or the probe_result that tells of a failure.
Note ==
    /\ probe.step = "saved"
    /\ ckpt' = IF probe.verdict.sev # "pass" THEN [ckpt EXCEPT !.failed = probe.at]
               ELSE IF probe.for = "soak" THEN ckpt
               ELSE [ckpt EXCEPT !.passed = Append(@, [tier |-> Tier, at |-> probe.at])]
    /\ probe' = [probe EXCEPT !.step = "known"]
    /\ UNCHANGED <<marker, unsafe, saved, pc, session, starts, harm>>

\* A user's stop is heard while the GPU runs: the marker goes, nothing is recorded.
UserStops ==
    /\ probe.step = "running"
    /\ marker' = NoPoint
    /\ Forgets
    /\ UNCHANGED <<unsafe, ckpt, saved, starts, harm>>

\* A stop that is seen between two probes, as KeyboardInterrupt or by SIGINT.
Quits ==
    /\ pc \in {"baseline", "descent", "climb", "choose", "tiers"} /\ probe.step = "idle"
    /\ Forgets
    /\ UNCHANGED <<disk, starts, harm>>

-----------------------------------------------------------------------------
(* How a tier ends. *)

\* record_tier_failure: only a critical failure ends the scan, and it raises
\* when no tier has returned a profile yet.
TierFails(critical) ==
    /\ pc' = IF ~critical THEN "tiers" ELSE IF results = NoProfiles THEN "error" ELSE "finish"
    /\ failed' = TRUE /\ search' = NoSearch

\* Before the first tier there is nothing to go on with.
Fails(critical) ==
    IF turn = 0 THEN pc' = "error" /\ UNCHANGED <<failed, search>> ELSE TierFails(critical)

\* The steps that may end a tier leave these alone.
Kept == <<turn, interrupted, mem, base, replaying, pending, recovery, results, donation>>

\* Mutant: the record is missing, and so is the point.
BugRecordFails ==
    /\ probe.step = "running" /\ Marks(probe.for)
    /\ harm' = Found(probe.at)
    /\ marker' = NoPoint /\ probe' = NoProbe
    /\ TierFails(TRUE)
    /\ UNCHANGED <<unsafe, ckpt, saved, Kept, starts>>

\* The blacklist cannot be written: critical, and the marker stays.
RecordFails ==
    /\ probe.step = "running" /\ Marks(probe.for)
    /\ harm' = Found(probe.at)
    /\ probe' = NoProbe
    /\ TierFails(TRUE)
    /\ UNCHANGED <<disk, Kept, starts>>

\* The daemon or the driver is gone, or, before the load starts, the curve on the
\* GPU is not the one that was asked for (a soak treats that as its failure): no
\* verdict, and the marker goes as it does for a stop.
ProbeRaises(critical) ==
    /\ probe.step = "running" \/ (probe.step = "judged" /\ critical)
    /\ critical \/ probe.for # "soak"
    /\ marker' = IF Marks(probe.for) THEN NoPoint ELSE marker
    /\ probe' = NoProbe
    /\ Fails(critical)
    /\ UNCHANGED <<unsafe, ckpt, saved, Kept, starts, harm>>

Verdict == probe.verdict
Takes(for) == probe.step = "known" /\ probe.for = for /\ probe' = NoProbe

-----------------------------------------------------------------------------
(* The baseline of a tier's settings. *)

\* The clock, lowered until no entry closes it: entries bind from a clock up.
Lowered(clock) ==
    LET floors == {e.floor : e \in {f \in unsafe : BlocksPoint(f, [v |-> Load.v, c |-> clock], Tier)}}
    IN  IF floors = {} THEN clock
        ELSE ClockStep * ((Min(floors) - 1) \div ClockStep)

Baseline == [v |-> Load.v, c |-> Lowered(search.here.c)]
BaselineOpen == search.attempts < Attempts /\ Baseline.c > 0

BaselineProbes ==
    /\ pc = "baseline" /\ BaselineOpen
    /\ Probes(Baseline, "baseline")
    /\ UNCHANGED <<pc, interrupted, mem, search, tiers, starts>>

BaselineGivesUp ==
    /\ pc = "baseline" /\ probe.step = "idle" /\ ~BaselineOpen
    /\ Fails(FALSE)
    /\ UNCHANGED <<disk, Kept, probe, starts, harm>>

BaselinePasses ==
    /\ Takes("baseline") /\ Verdict.sev = "pass"
    /\ base' = [base EXCEPT ![Regime[Tier]] = probe.at]
    /\ search' = From(probe.at)
    /\ pc' = IF turn = 0 THEN "tiers" ELSE "descent"
    /\ UNCHANGED <<disk, turn, interrupted, mem, replaying, pending, recovery, results, failed,
                   donation, starts, harm>>

BaselineFails ==
    /\ Takes("baseline") /\ Verdict.sev # "pass"
    /\ IF Verdict.sev # "critical"
       THEN /\ pc' = pc /\ failed' = failed
            /\ search' = [search EXCEPT !.here = [v |-> Load.v, c |-> probe.at.c - ClockStep],
                                        !.attempts = @ + 1]
       ELSE Fails(TRUE)
    /\ UNCHANGED <<disk, Kept, starts, harm>>

-----------------------------------------------------------------------------
(* The tiers, in order. *)

NextTier == Order[turn + 1]

\* completed_tier: only a failure at no higher clock and no lower voltage, since
\* the soak, tells against it.
Condemned(p) == \E e \in unsafe : Condemns(e, p) /\ BlocksPoint(e, p, "")

\* Mutant: completed tiers count only while saved measurements are replayed.
BugDone(t) == IF replaying THEN ckpt.done[t] ELSE NoPoint

\* A completed tier stays so when a missing measurement has ended the replay.
Done(t) == ckpt.done[t]

Reuse ==
    /\ pc = "tiers" /\ turn < Len(Order) /\ Done(NextTier) # NoPoint
    /\ IF Condemned(Done(NextTier))
       THEN pc' = "error" /\ UNCHANGED <<turn, results, donation>>
       ELSE /\ pc' = pc /\ turn' = turn + 1
            /\ results' = [results EXCEPT ![NextTier] = Done(NextTier)]
            /\ donation' = IF NextTier = "balanced"
                           THEN [at |-> Done(NextTier), history |-> {}] ELSE donation
    /\ UNCHANGED <<disk, interrupted, mem, base, search, replaying, pending, recovery, failed,
                   probe, starts, harm>>

\* The tier starts: its event, its settings, its baseline if it has none yet.
TierStarts ==
    /\ pc = "tiers" /\ turn < Len(Order) /\ Done(NextTier) = NoPoint
    /\ turn' = turn + 1
    /\ IF replaying THEN pending' = [start |-> TRUE, failed |-> NoPoint] /\ ckpt' = ckpt
       ELSE /\ pending' = pending
            /\ ckpt' = [ckpt EXCEPT !.started = NextTier, !.ever = @ \cup {NextTier},
                                    !.failed = NoPoint]
    /\ \/ LET measured == base[Regime[NextTier]]
          IN  /\ failed' = failed
              /\ IF measured = NoPoint
                 THEN pc' = "baseline" /\ search' = From(Load)
                 ELSE pc' = "descent" /\ search' = From(measured)
       \/ \E critical \in BOOLEAN : TierFails(critical)
    /\ UNCHANGED <<marker, unsafe, saved, interrupted, mem, base, replaying, recovery, results,
                   donation, probe, starts, harm>>

-----------------------------------------------------------------------------
(* The descent. *)

Resumes == recovery.tier = Tier
Donated ==
    /\ Tier = "performance" /\ donation.at # NoPoint
    /\ Regime["performance"] = Regime["balanced"]

\* run_adaptive_tier_descent and select_final_scan_candidate: a recovery goes
\* straight to its soak, with what the tier passed before to fall back on.
DescentResumes ==
    /\ pc = "descent" /\ probe.step = "idle" /\ Resumes
    /\ search' = [search EXCEPT !.here = recovery.at, !.resumed = TRUE,
                                !.tested = {p \in Range(PassedBy(Tier)) : ~Blocked(unsafe, p, Tier)}]
    /\ pc' = "soak"
    /\ GoesLive /\ ckpt' = SavedProgress
    /\ UNCHANGED <<marker, unsafe, saved, interrupted, mem, tiers, probe, starts, harm>>

\* performance_can_reuse_balanced_descent
DescentReused ==
    /\ pc = "descent" /\ probe.step = "idle" /\ ~Resumes /\ Donated
    /\ search' = [search EXCEPT !.here = donation.at, !.tested = @ \cup donation.history]
    /\ pc' = "climb"
    /\ UNCHANGED <<disk, interrupted, mem, replaying, pending, tiers, probe, starts, harm>>

Below == [v |-> NextLower(base[Regime[Tier]].v, search.here.v, 0), c |-> search.here.c]

\* Before the GPU is touched, the descent asks the list in memory.
DescentProbes ==
    /\ pc = "descent" /\ ~Resumes /\ ~Donated
    /\ Below.v > 0 /\ ~Blocked(mem, Below, Tier)
    /\ Probes(Below, "descent")
    /\ UNCHANGED <<pc, interrupted, mem, search, tiers, starts>>

DescentEnds ==
    /\ pc = "descent" /\ probe.step = "idle" /\ ~Resumes /\ ~Donated
    /\ Below.v = 0 \/ Blocked(mem, Below, Tier)
    /\ pc' = "climb"
    /\ UNCHANGED <<disk, session, probe, starts, harm>>

Passed(p) == [search EXCEPT !.here = p, !.tested = @ \cup {p}]

DescentPasses ==
    /\ Takes("descent") /\ Verdict.sev = "pass"
    /\ search' = Passed(probe.at)
    /\ UNCHANGED <<disk, pc, interrupted, mem, replaying, pending, tiers, starts, harm>>

\* tier_mark_unsafe: what the list in memory learns has no band.
DescentFails ==
    /\ Takes("descent") /\ Verdict.sev # "pass"
    /\ IF Verdict.sev = "critical" THEN TierFails(TRUE)
       ELSE pc' = "climb" /\ UNCHANGED <<failed, search>>
    /\ mem' = IF Verdict.why = "" THEN mem
              ELSE mem \cup {[v |-> probe.at.v, c |-> probe.at.c, floor |-> probe.at.c,
                              tier |-> "", why |-> Verdict.why]}
    /\ UNCHANGED <<disk, turn, interrupted, base, replaying, pending, recovery, results, donation,
                   starts, harm>>

-----------------------------------------------------------------------------
(* The climb. *)

\* One clock up, at the lowest voltage that was not tried yet.
Rungs ==
    LET up   == {c \in Clocks : c > search.here.c}
        rung(c) == {[v |-> v, c |-> c] : v \in {w \in Bins : w >= search.here.v}} \ search.tried
    IN  IF up = {} THEN {}
        ELSE {p \in rung(Min(up)) :
                 \A q \in Bins : search.here.v <= q /\ q < p.v
                                    => [v |-> q, c |-> p.c] \in search.tried}

\* Before the GPU is touched, the climb asks the list on disk.
ClimbProbes(p) ==
    /\ pc = "climb" /\ ~Blocked(unsafe, p, Tier)
    /\ Probes(p, "climb")
    /\ UNCHANGED <<pc, interrupted, mem, search, tiers, starts>>

ClimbSkips(p) ==
    /\ pc = "climb" /\ probe.step = "idle" /\ Blocked(unsafe, p, Tier)
    /\ search' = [search EXCEPT !.tried = @ \cup {p}]
    /\ UNCHANGED <<disk, pc, interrupted, mem, replaying, pending, tiers, probe, starts, harm>>

ClimbPasses ==
    /\ Takes("climb") /\ Verdict.sev = "pass"
    /\ search' = Passed(probe.at)
    /\ UNCHANGED <<disk, pc, interrupted, mem, replaying, pending, tiers, starts, harm>>

ClimbFails ==
    /\ Takes("climb") /\ Verdict.sev # "pass"
    /\ IF Verdict.sev = "critical" THEN TierFails(TRUE)
       ELSE /\ pc' = IF Verdict.sev = "unsafe" THEN "choose" ELSE pc
            /\ search' = [search EXCEPT !.tried = @ \cup {probe.at}]
            /\ failed' = failed
    /\ UNCHANGED <<disk, Kept, starts, harm>>

\* The ladder's end, or no reason to climb: the savings tiers only reclaim
\* clock that the power limit took.
ClimbEnds ==
    /\ pc = "climb" /\ probe.step = "idle"
    /\ Rungs = {} \/ Tier # "performance"
    /\ pc' = "choose"
    /\ UNCHANGED <<disk, session, probe, starts, harm>>

-----------------------------------------------------------------------------
(* The choice and the soak. *)

\* select_final_scan_candidate: what the search ends on, or any measured point
\* that is still allowed. From here on nothing is replayed.
Choose ==
    /\ pc = "choose"
    /\ \E p \in {search.here} \cup {q \in search.tested : ~Blocked(unsafe, q, Tier)} :
          search' = [search EXCEPT !.here = p]
    /\ GoesLive /\ ckpt' = SavedProgress
    /\ pc' = "soak"
    /\ UNCHANGED <<marker, unsafe, saved, interrupted, mem, tiers, probe, starts, harm>>

\* AutoUvFinalChoiceDiscarded
Discard ==
    /\ pc = "choose" /\ Tier \in Discards /\ ~Blocked(unsafe, search.here, Tier)
    /\ GoesLive /\ ckpt' = [SavedProgress EXCEPT !.discarded = @ \cup {Tier}]
    /\ pc' = "tiers" /\ search' = NoSearch
    /\ UNCHANGED <<marker, unsafe, saved, interrupted, mem, tiers, probe, starts, harm>>

\* Mutant: a fallback may be a point whose soak failed before.
BugFallbacks(p, list, soaked) ==
    {q \in search.tested : /\ q.v > p.v \/ q.c < p.c \/ q = p
                           /\ q.c <= p.c
                           /\ ~Blocked(list, q, Tier)}

\* choose_next_candidate_after_final_failure
Fallbacks(p, list, soaked) ==
    {q \in search.tested \ soaked : /\ q.v > p.v \/ q.c < p.c
                                    /\ q.c <= p.c
                                    /\ ~Blocked(list, q, Tier)}

\* run_final_verification_with_fallbacks: no second chance for a resumed tier.
FallsBack ==
    LET soaked == search.failed \cup {search.here}
        next   == Fallbacks(search.here, unsafe, soaked)
    IN  IF search.resumed \/ next = {}
        THEN TierFails(search.resumed)
        ELSE /\ \E q \in next : search' = [search EXCEPT !.here = q, !.failed = soaked]
             /\ pc' = pc /\ failed' = failed

SoakBlocked ==
    /\ pc = "soak" /\ probe.step = "idle" /\ Blocked(unsafe, search.here, Tier)
    /\ FallsBack
    /\ UNCHANGED <<disk, Kept, probe, starts, harm>>

SoakProbes ==
    /\ pc = "soak" /\ ~Blocked(unsafe, search.here, Tier)
    /\ Probes(search.here, "soak")
    /\ UNCHANGED <<pc, interrupted, mem, search, tiers, starts>>

SoakFails ==
    /\ Takes("soak") /\ Verdict.sev # "pass"
    /\ IF Verdict.sev = "critical" THEN TierFails(TRUE) ELSE FallsBack
    /\ UNCHANGED <<disk, Kept, starts, harm>>

\* write_final_verified_profile
SoakPasses ==
    /\ Takes("soak") /\ Verdict.sev = "pass"
    /\ saved' = [saved EXCEPT ![Tier] = probe.at]
    /\ pc' = "saved"
    /\ UNCHANGED <<marker, unsafe, ckpt, session, starts, harm>>

\* finish_with_final_verification: the tier and the receipts of all profiles.
RecordTier ==
    /\ pc = "saved"
    /\ ckpt' = [ckpt EXCEPT !.done[Tier] = saved[Tier], !.receipts = saved]
    /\ recovery' = IF search.resumed THEN NoRecovery ELSE recovery
    /\ pc' = "verified"
    /\ UNCHANGED <<marker, unsafe, saved, turn, interrupted, mem, base, search, replaying, pending,
                   results, failed, donation, probe, starts, harm>>

\* tier_completed, and what Balanced hands on.
TierCompletes ==
    /\ pc = "verified"
    /\ results' = [results EXCEPT ![Tier] = saved[Tier]]
    /\ donation' = IF Tier = "balanced"
                   THEN [at |-> saved[Tier],
                         history |-> (search.tested \cup {saved[Tier]}) \ {base[Regime[Tier]]}]
                   ELSE donation
    /\ ckpt' = [ckpt EXCEPT !.completed = @ \cup {Tier}]
    /\ pc' = "tiers" /\ search' = NoSearch
    /\ UNCHANGED <<marker, unsafe, saved, turn, interrupted, mem, base, replaying, pending,
                   recovery, failed, probe, starts, harm>>

-----------------------------------------------------------------------------
(* How a scan ends. *)

\* ScanCheckpoint.finish; without a profile the scan ends in the error of its
\* last tier, or, when the user discarded every candidate, forgets itself.
AllTold == ckpt.completed \cup ckpt.discarded = Tiers
Finish ==
    /\ pc = "finish" \/ (pc = "tiers" /\ turn = Len(Order))
    /\ ckpt' = IF IF results = NoProfiles THEN ~failed ELSE AllTold THEN NoCheckpoint ELSE ckpt
    /\ pc' = IF results = NoProfiles THEN "error" ELSE "returned"
    /\ UNCHANGED <<marker, unsafe, saved, session, probe, starts, harm>>

Leave ==
    /\ pc \in {"error", "returned"}
    /\ Forgets
    /\ UNCHANGED <<disk, starts, harm>>

\* The machine freezes, or the process is killed.
Die ==
    /\ pc # "off"
    /\ Forgets
    /\ harm' = IF probe.step = "running" /\ Marks(probe.for)
               THEN [harm EXCEPT !.died = @ \cup {probe.at}]
               ELSE harm
    /\ UNCHANGED <<disk, starts>>

\* The user deletes the profile of a tier while no scan runs.
ProfileDeleted(t) ==
    /\ pc = "off" /\ saved[t] # NoPoint
    /\ saved' = [saved EXCEPT ![t] = NoPoint]
    /\ UNCHANGED <<marker, unsafe, ckpt, pc, session, probe, starts, harm>>

Outcomes ==
    {Pass} \cup {v \in {Critical, Soft, Unsafe} :
                   /\ probe.step = "running" /\ v.sev \in Verdicts[probe.for]
                   /\ v = Unsafe => Marks(probe.for)}

Work ==
    \/ Consume \/ Unlink \/ Open(FALSE) \/ (Drifts /\ Open(TRUE))
    \/ \E verdict \in Outcomes : Judge(verdict)
    \/ Unmark \/ SaveResult \/ Note
    \/ BaselineProbes \/ BaselineGivesUp \/ BaselinePasses \/ BaselineFails
    \/ Reuse \/ TierStarts
    \/ DescentResumes \/ DescentReused \/ DescentProbes \/ DescentEnds \/ DescentPasses
    \/ DescentFails
    \/ \E p \in Rungs : ClimbProbes(p)
    \/ \E p \in Rungs : ClimbSkips(p)
    \/ ClimbPasses \/ ClimbFails \/ ClimbEnds
    \/ Choose \/ Discard
    \/ SoakBlocked \/ SoakProbes \/ SoakFails \/ SoakPasses \/ RecordTier \/ TierCompletes
    \/ Finish \/ Leave

Upsets ==
    \/ Start \/ StartFails \/ UserStops \/ Quits \/ RecordFails \/ Die
    \/ \E critical \in BOOLEAN : ProbeRaises(critical)
    \/ \E t \in Tiers : ProfileDeleted(t)

Next == Work \/ Upsets

Spec == Init /\ [][Next]_vars

\* The scan goes on by itself; nobody has to start it.
LiveSpec == Spec /\ WF_vars(Work)

-----------------------------------------------------------------------------
MaybePoints == Points \cup {NoPoint}
Entries == {e \in [v : Bins, c : Nat, floor : Nat \ {0}, tier : {""}, why : {"freeze", "fault"}] :
               e.floor <= e.c}
Severities == {"pass", "critical", "recoverable", "unsafe"}

Checkpoints ==
    [records : SUBSET [at : Points, for : Phases, in : Tiers \cup Range(Regime),
                       sev : Severities, why : {"", "fault"}],
     passed : Seq([tier : Tiers, at : Points]), started : Tiers, ever : SUBSET Tiers,
     failed : MaybePoints, completed : SUBSET Tiers, discarded : SUBSET Tiers,
     done : [Tiers -> MaybePoints], receipts : [Tiers -> MaybePoints]]

Searches ==
    [here : [v : Bins \cup {0}, c : Int], tested : SUBSET Points, tried : SUBSET Points,
     failed : SUBSET Points, attempts : Nat, resumed : BOOLEAN]

Probings ==
    [at : MaybePoints, for : Phases \cup {""},
     step : {"idle", "running", "judged", "measured", "saved", "known"},
     verdict : [sev : Severities, why : {"", "fault"}]]

TypeOK ==
    /\ marker \in MaybePoints /\ unsafe \in SUBSET Entries
    /\ ckpt \in Checkpoints \cup {NoCheckpoint} /\ saved \in [Tiers -> MaybePoints]
    /\ pc \in {"off", "consume", "unlink", "open", "baseline", "tiers", "descent", "climb",
               "choose", "soak", "saved", "verified", "finish", "returned", "error"}
    /\ turn \in 0..Len(Order) /\ interrupted \in MaybePoints /\ mem \in SUBSET Entries
    /\ base \in [Range(Regime) -> MaybePoints]
    /\ search \in Searches /\ probe \in Probings
    /\ probe.step # "idle" => probe.at \in Points /\ probe.for = pc
    /\ replaying \in BOOLEAN /\ pending \in [start : BOOLEAN, failed : MaybePoints]
    /\ recovery \in [tier : Tiers \cup {""}, at : MaybePoints]
    /\ results \in [Tiers -> MaybePoints] /\ failed \in BOOLEAN
    /\ donation \in [at : MaybePoints, history : SUBSET Points]
    /\ starts \in 0..MaxStarts /\ harm \in [found : SUBSET Points, died : SUBSET Points]

\* No probe runs at a point that closes over one on which the machine died: the
\* same or a higher clock at the same or a lower voltage, whatever the phase,
\* and however many scans, crashes and stops lie between.
NoSecondDeath ==
    probe.step = "running" =>
        \A d \in harm.died : ~(probe.at.v <= d.v /\ probe.at.c >= d.c)

\* Nothing that killed the process or was found unsafe is ever forgotten: the
\* blacklist closes it, or its marker waits for the next start to record it.
NothingForgotten ==
    \A p \in harm.found \cup harm.died : p = marker \/ Blocked(unsafe, p, "")

\* A tier whose verification is on record takes no more probes.
CompletedTierRests ==
    probe.step = "running" /\ turn > 0 => ckpt.done[Tier] = NoPoint

\* A tier that a scan reports as done is the one whose profile is on disk.
ReportedAsSaved ==
    \A t \in Tiers : results[t] # NoPoint => saved[t] = results[t]

\* The marker and the blacklist keep the ledger that ProbeLedger describes.
Fate ==
    IF marker = NoPoint THEN "none"
    ELSE IF pc = "unlink" \/ (probe.step = "judged" /\ Marks(probe.for)) THEN "settled"
    ELSE IF probe.step = "running" /\ Marks(probe.for) THEN "open"
    ELSE "dead"

ListedPoints == {[v |-> e.v, c |-> e.c] : e \in unsafe}

Ledger == INSTANCE ProbeLedger WITH
    Points <- Points, None <- NoPoint, trial <- marker, fate <- Fate,
    condemned <- ListedPoints

ImplementsLedger == Ledger!Spec

\* A scan that is left alone comes to an end.
ScanEnds == pc # "off" ~> pc = "off"
=============================================================================
