---------------------------- MODULE ProbeWorkload ----------------------------
(***************************************************************************)
(* One stability probe of Auto-UV, as stability/q2rtx/runtime.py runs it.  *)
(* The benchmark Q2RTX is a process of its own: it reports what it does on *)
(* an event pipe, prints to its output, and may crash, freeze or exit at   *)
(* any time.  The monitor polls it in passes: it first drains the pipe and *)
(* then judges what it found, in a fixed order.  The CUDA workload runs    *)
(* beside the benchmark or after it, or not at all.  A benchmark whose     *)
(* frames stopped is run once more before its result counts, and a result  *)
(* may put the voltage on the blacklist, in the phases that write a crash  *)
(* marker (CRASH_CACHE_CANDIDATE_PHASES); suppress_unsafe_recording, which *)
(* no caller sets, is left out.                                            *)
(*                                                                         *)
(* One pass stands for one poll interval: every pass samples the GPU.      *)
(***************************************************************************)
EXTENDS Naturals, Sequences, FiniteSets, SequencesExt

CONSTANTS
    Modes,      \* the ways CUDA may be configured: "none", "serial", "together"
    Hang,       \* passes without a new frame that trip the watchdog
    Limit,      \* passes a benchmark may take to start, and then to measure
    Target,     \* passes the benchmark has to measure
    MinSamples, \* samples before the telemetry may end a run
    Streak,     \* samples below the power floor in a row that mean a lost load
    Readings,   \* what a sample may show: "busy", "low" or "idle"
    Stalls,     \* where the GPU may stop answering the CUDA workload
    GameEvents, \* the events the benchmark may write
    Marked,     \* does the phase the probe belongs to write a crash marker?
    MaxUnread,  \* bound: events that wait in the pipe
    MaxBeside   \* bound: the same once CUDA has been started beside the benchmark

ASSUME WorkloadAssumption ==
    /\ Modes \subseteq {"none", "serial", "together"}
    /\ {Hang, Limit, Target, MinSamples, Streak, MaxUnread, MaxBeside} \subseteq Nat \ {0}
    \* A measurement takes more than one poll interval, a streak more than one sample.
    /\ 1 < Target /\ Target < Limit /\ 1 < Streak
    /\ GameEvents \subseteq {"start", "measure", "frame", "pulse", "mark", "good", "short",
                           "bad", "fatal", "junk"}
    /\ Marked \in BOOLEAN
    /\ Readings \subseteq {"busy", "low", "idle"}
    /\ Stalls \subseteq {"setup", "sanity", "load", "tearok", "tearbad"}

VARIABLES
    pc,         \* where the monitor is
    mode,       \* how CUDA was configured
    attempt,    \* 1, or 2 while a hang is confirmed
    why,        \* the reason why the loop ended
    result,     \* the reason the probe reports, "ok" when it passed
    recorded,   \* has the voltage been put on the blacklist?
    game,       \* the benchmark process
    frozen,     \* has it stopped rendering?
    pipe,       \* events it wrote that the monitor has not read
    spoke,      \* has it printed a fatal line?
    measured,   \* passes it has measured
    heard,      \* the kinds of events the monitor has read
    advances,   \* heartbeats since the last boundary that showed another frame, up to two
    still,      \* passes since the last new frame or boundary
    age,        \* passes since the run or the measurement began
    samples,    \* samples of the measurement, up to MinSamples
    routed,     \* has one of them shown a GPU that was not idle?
    low,        \* samples below the power floor in a row
    cuda,       \* the CUDA process
    stalled,    \* does the GPU not answer it?
    cried,      \* has it printed a fatal line?
    stop,       \* has the user asked to stop?
    truth       \* what really happened, for the properties

game_vars == <<game, frozen, pipe, spoke, measured>>
seen_vars == <<heard, advances, still, age, samples, routed, low>>
cuda_vars == <<cuda, stalled, cried>>
end_vars  == <<mode, attempt, why, result, recorded>>
vars == <<pc, end_vars, game_vars, seen_vars, cuda_vars, stop, truth>>

Least(a, b) == IF a < b THEN a ELSE b

-----------------------------------------------------------------------------
(* The benchmark. *)

Running == {"loading", "startup", "measure", "done", "dying"}   \* poll() says None

\* Events after which a pause of the frames is no freeze.
Resets == {"measure", "mark", "good", "short", "bad"}

\* The truth of an attempt before its benchmark has started.
Untouched == [fault |-> FALSE, crash |-> FALSE, quiet |-> 0, frames |-> 0,
              lows |-> 0, spent |-> 0, combined |-> FALSE, hung |-> FALSE,
              hungBefore |-> FALSE]

\* What the benchmark writes to its pipe, and what it is doing then: "frame" and "pulse"
\* are heartbeats, with a new frame's index and with the last one's again.  truth.frames
\* is the number of different frames it has reported since the last boundary, up to two;
\* a frame from before the boundary that it reports again after it is one of them.
GameSays(e) ==
    /\ game \in {"loading", "startup", "measure"}
    /\ Len(pipe) < IF cuda = "off" THEN MaxUnread ELSE MaxBeside
    /\ pipe' = Append(pipe, e)
    /\ CASE e = "start"   -> game = "loading" /\ game' = "startup"
         [] e = "measure" -> game = "startup" /\ game' = "measure"
         [] e = "good"    -> game = "measure" /\ measured >= Target /\ game' = "done"
         [] e \in {"short", "bad"} -> game = "measure" /\ game' = "done"
         [] OTHER         -> game \in {"startup", "measure"} /\ game' = game
    /\ frozen = (e = "pulse")
    /\ truth' = CASE e = "frame" -> [truth EXCEPT !.quiet = 0, !.frames = Least(@ + 1, 2)]
                  [] e = "pulse" -> [truth EXCEPT !.frames = IF @ = 0 THEN 1 ELSE @]
                  [] e \in Resets -> [truth EXCEPT !.quiet = 0, !.frames = 0,
                                                   !.fault = @ \/ e \in {"short", "bad"}]
                  [] e \in {"fatal", "junk"} -> [truth EXCEPT !.fault = TRUE]
                  [] OTHER -> truth
    /\ UNCHANGED <<pc, end_vars, frozen, spoke, measured, seen_vars, cuda_vars, stop>>

\* The picture freezes, and may move again.
GameFreezes ==
    /\ game \in {"startup", "measure"}
    /\ frozen' = ~frozen
    /\ UNCHANGED <<pc, end_vars, game, pipe, spoke, measured, seen_vars, cuda_vars, stop,
                   truth>>

GamePrints ==
    /\ game \in {"startup", "measure"} /\ ~spoke
    /\ spoke' = TRUE
    /\ truth' = [truth EXCEPT !.fault = TRUE]
    /\ UNCHANGED <<pc, end_vars, game, frozen, pipe, measured, seen_vars, cuda_vars, stop>>

\* The process ends.  One that crashes may leave half a line in the pipe, and its
\* pipe closes a moment before it can be reaped.
GameEnds ==
    /\ \/ game = "done" /\ game' \in {"exited", "failed"} /\ pipe' = pipe
       \/ game = "loading" /\ pipe = <<>> /\ game' = "unlinked" /\ pipe' = pipe
       \/ /\ game \in {"startup", "measure", "done"} /\ game' = "dying"
          /\ pipe' \in {pipe, Append(pipe, "cut")}
       \/ game = "dying" /\ game' = "crashed" /\ pipe' = pipe
    /\ truth' = [truth EXCEPT !.fault = @ \/ game' \in {"failed", "dying", "crashed"},
                              !.crash = @ \/ game' = "dying"]
    /\ UNCHANGED <<pc, end_vars, frozen, spoke, measured, seen_vars, cuda_vars, stop>>

-----------------------------------------------------------------------------
(* The CUDA workload. *)

\* While it runs: a setup, a first check, the load, and the release of the GPU.
Working == {"setup", "sanity", "load", "tearok", "tearbad"}
\* Ends with an exit code other than 0; "killed" is the monitor's own signal.
Broken == {"exit1", "exit3", "exit4", "killed"}
\* The part of the run that its own watchdog thread guards.
Guarded == {"sanity", "load"}

CudaSetsUp == cuda = "setup" /\ cuda' \in {"sanity", "exit1"}
CudaChecks == cuda = "sanity" /\ cuda' \in {"load", "exit1"}
\* Wrong results and faults under load count as instability; an earlier one does not.
CudaLoads == cuda = "load" /\ cuda' \in {"tearok", "tearbad"}
CudaReleases == \/ cuda = "tearok" /\ cuda' = "exit0"
                \/ cuda = "tearbad" /\ cuda' = "exit3"

CudaSteps ==
    /\ ~stalled
    /\ CudaSetsUp \/ CudaChecks \/ CudaLoads \/ CudaReleases
    /\ cried' \in {cried, cried \/ cuda' \in {"exit1", "tearbad"}}
    /\ truth' = [truth EXCEPT !.fault = @ \/ cuda' \in {"exit1", "tearbad"}]
    /\ UNCHANGED <<pc, end_vars, game_vars, seen_vars, stalled, stop>>

CudaStalls ==
    /\ cuda \in Working \cap Stalls /\ ~stalled
    /\ stalled' = TRUE
    /\ cried' \in BOOLEAN /\ (cried => cried')
    /\ truth' = [truth EXCEPT !.fault = TRUE]
    /\ UNCHANGED <<pc, end_vars, game_vars, seen_vars, cuda, stop>>

\* The watchdog thread ends a process whose GPU has not answered for long.
CudaWatchdog ==
    /\ cuda \in Guarded /\ stalled
    /\ cuda' = "exit4"
    /\ UNCHANGED <<pc, end_vars, game_vars, seen_vars, stalled, cried, stop, truth>>

-----------------------------------------------------------------------------
(* The monitor's loop. *)

UserStops ==
    /\ ~stop /\ pc # "ended"
    /\ stop' = TRUE
    /\ UNCHANGED <<pc, end_vars, game_vars, seen_vars, cuda_vars, truth>>

\* A run begins: the benchmark is started with nothing read from it so far.
Launch ==
    /\ pc = "launch"
    /\ pc' = "drain"
    /\ game' = "loading" /\ frozen' = FALSE /\ pipe' = <<>> /\ spoke' = FALSE /\ measured' = 0
    /\ heard' = {} /\ advances' = 0 /\ still' = 0 /\ age' = 0
    /\ samples' = 0 /\ routed' = FALSE /\ low' = 0
    /\ cuda' = "off" /\ stalled' = FALSE /\ cried' = FALSE
    /\ truth' = [Untouched EXCEPT !.hungBefore = truth.hung]
    /\ UNCHANGED <<end_vars, stop>>

Phase(h) == IF {"good", "short", "bad"} \cap h # {} THEN "done"
            ELSE IF "measure" \in h THEN "measure" ELSE "startup"

\* The lines of the pipe; half a line, which is its last, waits in a buffer for its end.
Cut == "cut" \in ToSet(pipe)
Lines == IF Cut THEN Front(pipe) ELSE pipe
LastReset == LET at == {i \in 1..Len(Lines) : Lines[i] \in Resets}
             IN  IF at = {} THEN 0 ELSE CHOOSE i \in at : \A j \in at : j <= i
SinceReset == LastReset + 1 .. Len(Lines)
FramesRead == Cardinality({i \in SinceReset : Lines[i] = "frame"})

\* Mutant: a boundary does not disarm the watchdog.
BugStaysArmed == advances

\* What is left of the advances when the new heartbeats are counted.
Base == IF LastReset = 0 THEN advances ELSE 0

\* A boundary makes the watchdog forget the last index, so that the first heartbeat after
\* it is an advance even when its index is an old one: 1 if there is such a heartbeat.
OldFirst == \E i \in SinceReset : /\ Lines[i] = "pulse"
                                 /\ \A j \in SinceReset : Lines[j] = "frame" => i < j
StaleRead == IF Base = 0 /\ OldFirst THEN 1 ELSE 0

\* The kinds of events the monitor's verdicts ask for.
Read(e) == heard' = heard \cup (ToSet(Lines) \ {"frame", "pulse", "mark"}) \cup e

\* The first half of a pass: time has passed, and everything written is read.
Drain ==
    /\ pc = "drain"
    /\ pc' = "judge"
    /\ Read({})
    /\ advances' = Least(2, Base + FramesRead + StaleRead)
    /\ still' = IF ToSet(Lines) \cap (Resets \cup {"frame"}) # {} \/ StaleRead = 1 THEN 0
                ELSE Least(still + 1, Hang)
    /\ age' = IF "measure" \in ToSet(Lines) THEN 0 ELSE Least(age + 1, Limit)
    /\ pipe' = IF Cut THEN <<"cut">> ELSE <<>>
    /\ measured' = IF game = "measure" /\ ~frozen THEN Least(measured + 1, Target)
                   ELSE measured
    /\ LET quiet == IF ToSet(pipe) \cap (Resets \cup {"frame"}) # {} THEN 0
                    ELSE Least(truth.quiet + 1, Hang)
           hung  == quiet = Hang /\ truth.frames = 2 /\ game \in Running
       IN  truth' = [truth EXCEPT
               !.quiet = quiet, !.hung = @ \/ hung,
               !.spent = IF game \in {"measure", "done"} THEN Least(@ + 1, Limit) ELSE 0]
    /\ UNCHANGED <<end_vars, game, frozen, spoke, samples, routed, low, cuda_vars, stop>>

\* Mutant: it is started with the benchmark.
BugJoinsEarly == mode = "together" /\ cuda = "off" /\ game \in Running

\* The companion is started beside the benchmark once that measures.
Joins == /\ mode = "together" /\ cuda = "off"
         /\ Phase(heard) = "measure" /\ game \in Running
CudaNow == IF Joins THEN "setup" ELSE cuda

Tripped == advances = 2 /\ still >= Hang

\* What a pass finds before it samples the GPU; the first that applies ends the loop.
Found ==
    IF CudaNow \in Broken THEN "cuda-failed"
    ELSE IF game \in Running /\ Tripped THEN "hang"
    ELSE IF "junk" \in heard THEN "protocol"
    ELSE IF "fatal" \in heard THEN "fatal-event"
    ELSE IF game = "dying" /\ Phase(heard) # "done" THEN "pipe-closed"
    ELSE IF game \notin Running THEN "completed"
    ELSE IF age >= Limit THEN IF "measure" \in heard THEN "timeout" ELSE "startup-timeout"
    ELSE "none"

\* The telemetry's verdict on a sample r, of which n have been taken.
LowNow(r, n) == IF n >= MinSamples THEN IF r \in {"low", "idle"} THEN low + 1 ELSE 0
                ELSE low
LiveAbort(r, n) ==
    IF n >= MinSamples /\ LowNow(r, n) >= Streak THEN "load-lost"
    ELSE IF n >= MinSamples /\ ~routed /\ r = "idle" THEN "wrong-gpu"
    ELSE "none"

\* What a sample r makes of the pass: a fatal line, the user, then the telemetry.
Sampled(r, n) ==
    IF spoke THEN "fatal-output"
    ELSE IF CudaNow # "off" /\ cried THEN "fatal-cuda"
    ELSE IF stop THEN "user-stop"
    ELSE IF Phase(heard) = "measure" THEN LiveAbort(r, n)
    ELSE "none"

\* A signal to a process group: one that hangs in the driver may stay.
Killed(p) == IF p \notin Running THEN {p}
             ELSE IF frozen THEN {"killed", "stuck"} ELSE {"killed"}

\* The loop's counters are gone with the loop.
Forget == advances' = 0 /\ still' = 0 /\ age' = 0 /\ samples' = 0 /\ measured' = 0

\* Of the truth, what the properties still ask for.
Settled(t) == [t EXCEPT !.quiet = 0, !.frames = 0,
                        !.lows = IF @ = Streak THEN @ ELSE 0,
                        !.spent = IF @ = Limit THEN @ ELSE 0]

LeaveLoop(w) ==
    /\ why' = w
    /\ game' \in IF w = "completed" THEN {game} ELSE Killed(game)
    /\ pc' = "rest"
    /\ Forget

\* The second half of a pass.
Judge ==
    /\ pc = "judge"
    /\ cuda' = CudaNow
    /\ LET joined == [truth EXCEPT !.combined = @ \/ (Joins /\ game = "measure")]
       IN  \/ /\ Found # "none"
              /\ LeaveLoop(Found)
              /\ truth' = Settled(joined)
              /\ UNCHANGED <<routed, low>>
           \/ /\ Found = "none"
              /\ \E r \in Readings :
                   LET measuring == Phase(heard) = "measure"
                       n    == IF measuring THEN Least(samples + 1, MinSamples) ELSE samples
                       seen == [joined EXCEPT !.lows = IF measuring /\ r # "busy"
                                                       THEN Least(@ + 1, Streak) ELSE 0]
                   IN  /\ routed' = (routed \/ (measuring /\ r # "idle"))
                       /\ low' = IF measuring THEN Least(LowNow(r, n), Streak) ELSE 0
                       /\ \/ Sampled(r, n) # "none" /\ LeaveLoop(Sampled(r, n))
                             /\ truth' = Settled(seen)
                          \/ Sampled(r, n) = "none" /\ pc' = "drain" /\ samples' = n
                             /\ truth' = seen
                             /\ UNCHANGED <<why, game, advances, still, age, measured>>
    /\ UNCHANGED <<mode, attempt, result, recorded, frozen, pipe, spoke, heard, stalled,
                   cried, stop>>

-----------------------------------------------------------------------------
(* After the loop. *)

Passed == why = "completed" /\ game = "exited"

\* What the loop's end leaves to do for the CUDA workload.
Companion ==
    IF cuda # "off" THEN "reap"
    ELSE IF mode = "none" \/ ~Passed THEN "session"
    ELSE IF mode = "serial" THEN "serial"
    ELSE "missed"

\* What is left in the pipe is read, half a line included, before the companion is
\* waited for, started or missed.
Rest ==
    /\ pc = "rest"
    /\ Read(IF Cut THEN {"junk"} ELSE {})
    /\ pipe' = <<>>
    /\ pc' = IF Companion = "missed" THEN "session" ELSE Companion
    /\ why' = IF Companion = "missed" THEN "start-missing" ELSE why
    /\ cuda' = IF Companion = "serial" THEN "setup" ELSE cuda
    /\ UNCHANGED <<mode, attempt, result, recorded, game, frozen, spoke, measured, advances,
                   still, age, samples, routed, low, stalled, cried, stop, truth>>

\* Mutant: a companion that still runs is left alone.
BugCompanionLeft == cuda' = cuda

EndCompanion == cuda' = IF cuda \in Working THEN "killed" ELSE cuda

\* The companion of a failed benchmark is killed.  That of a passed one has some time
\* to finish and is killed then; only its log counts against it in that case.
Reap ==
    /\ pc = "reap"
    /\ \/ ~Passed /\ EndCompanion
          /\ why' = IF why = "completed" /\ cuda' \in Broken
                    THEN (IF cuda' = "killed" THEN "cuda-killed" ELSE "cuda-failed") ELSE why
       \/ Passed /\ cuda \notin Working /\ cuda' = cuda
          /\ why' = IF cried THEN "fatal-cuda"
                    ELSE IF cuda \in Broken THEN "cuda-failed" ELSE why
       \/ Passed /\ cuda \in Working /\ cuda' = "killed"
          /\ why' = IF cried THEN "fatal-cuda" ELSE why
    /\ pc' = "session"
    /\ UNCHANGED <<mode, attempt, result, recorded, game_vars, seen_vars, stalled, cried,
                   stop, truth>>

\* Mutant: only the log of a companion that runs after the benchmark is read.
BugDeaf == IF cried \/ spoke THEN "fatal-cuda" ELSE "none"

\* The log, which has the benchmark's lines too, and the user are asked in every pass.
SerialAbort ==
    IF cried \/ spoke THEN "fatal-cuda"
    ELSE IF stop THEN "user-stop"
    ELSE "none"

\* A companion that runs after the benchmark is waited for without a limit of time.
Serial ==
    /\ pc = "serial"
    /\ \/ SerialAbort # "none" /\ why' = SerialAbort
       \/ cuda \notin Working /\ why' = IF cuda \in Broken THEN "cuda-failed" ELSE why
    /\ EndCompanion
    /\ pc' = "session"
    /\ UNCHANGED <<mode, attempt, result, recorded, game_vars, seen_vars, stalled, cried,
                   stop, truth>>

\* The reason of the finished run, which the driver's own log may still turn.
Verdict(xid) ==
    IF why # "completed" THEN why
    ELSE IF "junk" \in heard THEN "protocol"
    ELSE IF "start" \notin heard THEN "start-event-missing"
    ELSE IF "fatal" \in heard THEN "fatal-event"
    ELSE IF game # "exited" THEN "exit-failed"
    ELSE IF Phase(heard) # "done" THEN "summary-missing"
    ELSE IF "measure" \notin heard THEN "measure-missing"
    ELSE IF "bad" \in heard THEN "metrics-invalid"
    ELSE IF "short" \in heard THEN "duration-short"
    ELSE IF spoke THEN "fatal-output"
    ELSE IF xid THEN "xid"
    ELSE "ok"

\* A benchmark that the loader could not start says nothing about the voltage.
Classified(r) == IF r # "ok" /\ game = "unlinked" THEN "launcher" ELSE r

\* Mutant: a benchmark that exits without a word is not held against the voltage.
BugForgiving == {"ok", "user-stop", "launcher", "cuda-killed", "start-missing",
                 "startup-timeout", "wrong-gpu", "exit-failed", "pipe-closed"}

\* Reasons that never put a voltage on the blacklist.
Excused == {"ok", "user-stop", "launcher", "cuda-killed", "start-missing",
            "startup-timeout", "wrong-gpu"}

Finish(r) ==
    /\ result' = r
    /\ recorded' = (Marked /\ r \notin Excused)
    /\ pc' = "ended"

\* Mutant: the first hang counts.
BugUnconfirmed(r) == FALSE

RunsAgain(r) == r = "hang" /\ attempt = 1

\* The result of a run: a hang is confirmed by one more, every other is the probe's.
Session ==
    /\ pc = "session"
    /\ \E xid \in {FALSE, truth.fault} :
         LET r == Classified(Verdict(xid))
         IN  IF RunsAgain(r)
             THEN /\ pc' = "launch" /\ attempt' = 2 /\ why' = "none"
                  /\ UNCHANGED <<result, recorded>>
             ELSE Finish(r) /\ UNCHANGED <<attempt, why>>
    /\ UNCHANGED <<mode, game_vars, seen_vars, cuda_vars, stop, truth>>

\* The monitor itself fails, say on a full disk, or is interrupted: both processes are
\* killed on the way out, and only the failure is recorded.  A StabilityTestError (a
\* program or a renderer that is missing) refuses a run before anything is started, and
\* is not recorded.
Breaks ==
    /\ pc \in {"launch", "drain", "judge", "rest", "serial", "reap"}
    /\ game' \in Killed(game)
    /\ EndCompanion
    /\ pc' = "ended"
    /\ \/ result' = "exception" /\ recorded' = Marked
       \/ result' = "interrupt" /\ recorded' = FALSE
       \/ pc = "launch" /\ result' = "refused" /\ recorded' = FALSE
    /\ Forget
    /\ pipe' = <<>> /\ heard' = {} /\ routed' = FALSE /\ low' = 0
    /\ UNCHANGED <<mode, attempt, why, frozen, spoke, stalled, cried, stop, truth>>

Done == pc = "ended" /\ UNCHANGED vars

-----------------------------------------------------------------------------
Init ==
    /\ pc = "launch" /\ mode \in Modes /\ attempt = 1
    /\ why = "none" /\ result = "none" /\ recorded = FALSE
    /\ game = "off" /\ frozen = FALSE /\ pipe = <<>> /\ spoke = FALSE /\ measured = 0
    /\ heard = {} /\ advances = 0 /\ still = 0 /\ age = 0
    /\ samples = 0 /\ routed = FALSE /\ low = 0
    /\ cuda = "off" /\ stalled = FALSE /\ cried = FALSE
    /\ stop = FALSE /\ truth = Untouched

Game == (\E e \in GameEvents : GameSays(e)) \/ GameFreezes \/ GamePrints \/ GameEnds
Cuda == CudaSteps \/ CudaStalls \/ CudaWatchdog
Monitor == Launch \/ Drain \/ Judge \/ Rest \/ Reap \/ Serial \/ Session

Next == Monitor \/ Game \/ Cuda \/ UserStops \/ Breaks \/ Done

\* The monitor's passes go on, a CUDA program whose GPU answers gets on, and so does
\* its watchdog thread.  The benchmark owes nobody anything.
Spec == Init /\ [][Next]_vars
             /\ WF_vars(Monitor) /\ WF_vars(CudaSteps) /\ WF_vars(CudaWatchdog)

-----------------------------------------------------------------------------
(* Properties. *)

Reasons == {"none", "cuda-failed", "hang", "protocol", "fatal-event", "pipe-closed",
            "completed", "timeout", "startup-timeout", "load-lost", "wrong-gpu",
            "fatal-output", "fatal-cuda", "user-stop", "start-missing", "cuda-killed"}

Truths == [fault : BOOLEAN, crash : BOOLEAN, hung : BOOLEAN, hungBefore : BOOLEAN,
           combined : BOOLEAN, quiet : 0..Hang, frames : 0..2, lows : 0..Streak,
           spent : 0..Limit]

TypeOK ==
    /\ pc \in {"launch", "drain", "judge", "rest", "reap", "serial", "session", "ended"}
    /\ mode \in Modes /\ attempt \in 1..2
    /\ why \in Reasons /\ recorded \in BOOLEAN
    /\ game \in Running \cup {"off", "exited", "failed", "unlinked", "crashed", "killed", "stuck"}
    /\ pipe \in Seq(GameEvents \cup {"cut"}) /\ measured \in 0..Target
    /\ {frozen, spoke, routed, stalled, cried, stop} \subseteq BOOLEAN
    /\ heard \subseteq GameEvents \cup {"junk"} /\ advances \in 0..2
    /\ still \in 0..Hang /\ age \in 0..Limit /\ samples \in 0..MinSamples /\ low \in 0..Streak
    /\ cuda \in Working \cup Broken \cup {"off", "exit0"}
    /\ truth \in Truths

\* A probe that passed has really run: the benchmark ended by itself and reported a full
\* measurement, nothing went wrong meanwhile (a companion that was killed when its time
\* was up may still have been about to), and the CUDA workload the probe was asked for ran:
\* to its end after the benchmark, or beside it.  (_run_benchmark_process and
\* _run_benchmark_session, which look at each of these in a different place.)
PassIsSound ==
    result = "ok" =>
        /\ game = "exited" /\ "good" \in heard
        /\ truth.fault => cuda = "killed"
        /\ mode = "serial" => cuda = "exit0"
        /\ mode = "together" => truth.combined /\ ~cried

\* No probe leaves a workload behind on the GPU that the next one measures: whatever ended
\* it, its processes are dead, or are hung in the driver after the kill.
NothingOutlives == pc = "ended" => game \notin Running /\ cuda \notin Working

\* A voltage goes on the blacklist only when the GPU gave a reason: something failed, its
\* picture stood still after two different frames of the same scene were reported, its load
\* was gone for a whole streak of samples, it was out of time measuring, or the monitor
\* could not tell.  A slow start, a load that another GPU ran, a scene that loads or samples
\* of an earlier run are no reason.
HealthyIsKept ==
    recorded => \/ truth.fault \/ truth.hung
                \/ truth.lows = Streak /\ routed
                \/ truth.spent = Limit
                \/ result = "exception"

\* A hang that a probe reports was seen in two runs: run_probe_with_hang_confirmation runs
\* the benchmark again after the first, whose picture had really stood still.  In both, two
\* different frames were reported after the last boundary; one of them may be the frame
\* from before the boundary, reported again, where the docstring of the watchdog asks for
\* two new ones (see README.md).
HangIsConfirmed == result = "hang" => truth.hung /\ truth.hungBefore

\* A crash of the benchmark puts the voltage on the blacklist, however the monitor learns
\* of it (from the closed pipe, half a line, the exit code), in the phases that record
\* anything, unless the user ended the probe or the run that should confirm a hang is
\* refused.  Not beside a companion: the signal that ends it then becomes the reason.
CrashIsRecorded ==
    pc = "ended" /\ truth.crash /\ mode # "together" /\ Marked
        => recorded \/ result \in {"user-stop", "interrupt", "refused"}

\* Whatever the benchmark and the CUDA program do, the probe ends; only a GPU that stops
\* answering while CUDA sets up or cleans up holds it, where neither the watchdog thread
\* nor a limit of time applies, and then a stop by the user still ends it.
ProbeEnds ==
    []<>(pc = "ended" \/ (~stop /\ stalled /\ cuda \in Working \ Guarded))
=============================================================================
