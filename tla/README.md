# PenguinBurner in TLA+

PenguinBurner undervolts NVIDIA GPUs. A root daemon, `burnerd` (Rust), owns every
write to a GPU; a Qt application, a command line and game-launch wrappers (Python)
ask it to apply profiles, to run Auto-UV scans and to follow games. This directory
holds a specification of the parts whose correctness depends on the order of things:
who may write to a GPU, which profile a GPU is left with, what is on disk when the
power fails, when a game has really ended, how a scan is told to stop, how it searches
for a voltage, what it remembers of the ones that froze the machine, and what becomes of
a game's launch command when it is wrapped and unwrapped.

- `PROJECT.json` is the machine-readable index: components, runs, mutants, the map
  from each definition to the lines it models, findings, hazards and theorems.
- `tlc -config X.cfg M` checks a run, `tlapm M_proofs.tla` a proof module.

## 1. Inventory

### The daemon, `burnerd/src`

| part | state it keeps | operations | what is hard | what makes it correct |
|---|---|---|---|---|
| boot runtime set (`supervisor.rs` 93-195, 715-868, 1741-1819) | `boot-runtime.json`: one spec per GPU, an active and a main GPU; a file lock | save, remove, clear, choose the main GPU, load, PCI hints | concurrent requests, full disk, crash in a write, a second daemon | the file always loads; each request takes effect at once or not at all; no absent, addressless or stock GPU of the boot set hides one with work from the deep-sleep watcher |
| supervisor (`supervisor.rs`) | one mutex over the profile slot, the child slot, game watches, standing/restore spec, caches; `active-runtime.json`, `applied-runtime-history.json` | apply with rollback, stop, game apply, end of games, begin/finish/stop child, autostart, boot replay, park and wake | GPU calls that fail, hang or outlive their timeout; daemon crashes; work done after the mutex is released | one writer; a game's profile is temporary; what is recovered is what the user asked for |
| engine (`profile/mod.rs`) | a control thread with a stop flag and a return code | start, stop with timeout, exit | late writes after a stop was given up | seen through the supervisor |
| launch sessions (`sessions.rs`) | registry by pid, lifetime handles, subscribers | register, update, observe, watch, recover, exit threads with handoff | forks and exits while `/proc` is read, pid reuse, restarts, the session limit | a handle closes if and only if the whole launch has ended |
| scan children (`scan.rs`, markers in `paths.rs`) | stop marker file, threads per child | stream output, stop, disconnect cleanup, kill ladder | a marker shared by successive scans, hung children, clients that vanish | stops reach the right scan; the slot outlives the process |
| deep sleep (`rtd3/`) | sampled power states, client latch, countdown | startup decision, park, wake | samples race with games and clients | a parked runtime comes back; a sleeping GPU is not woken |
| apply transaction, adaptive control, guards, fan (`profile/`) | curves, controller state | apply and verify, step the controller | partial writes, thresholds, hysteresis | a failed write restores; controllers stay in bounds |
| GPU RPC (`gpu_rpc.rs`), deletion (`delete.rs`) | none of their own | direct GPU operations of a child; delete a profile | ownership across processes; a profile in use | only the owner writes; no dangling selection |
| socket and API (`server.rs`, `api.rs`, `main.rs`) | connections | dispatch | none beyond the handlers | requests are the actions of the modules below |

### Around it

| part | what it does | hard behaviour |
|---|---|---|
| Auto-UV search (`auto_uv/main_loop.py`, `base_uv_loop.py`, `auto_oc/`, `probes/`, `curve/`) | per tier: lowers the voltage at a clock, climbs the clock, has the user choose, soaks the choice and falls back; memory only | every probe may fail in four ways, and each way closes other points; retries and back-offs must not repeat or invent a point |
| Auto-UV persistence (`auto_uv/persistence/`) | crash marker, blacklist of unsafe points, checkpoint, saved profiles | the machine dies in a probe, or between two of the files; the next run must learn from it, and a resumed scan must not redo or misreport what was done |
| profile store (`profiles/`) | profile files and their verification state | partial writes, selection of a deleted profile |
| launcher integrations (`integrations/launchers/`, `steam/`, `lutris/`, `heroic/`, `faugus/`) | put the wrapper into a game's launch command and take it out again; keep a record per game | the command is another program's and the user's: edits, inherited levels and stale caches between a write and the undo; two files, one failing |
| launch wrapper (`overlay/launcher.py`) | registers a session, applies the game's profile, becomes the game | failure between these steps, handoff to child processes |
| session client (`ui/features/integrations/launcher_events.py`) | follows snapshots by epoch and sequence | reconnects, coalesced wakeups |
| stability workloads (`stability/`, `probes/run_probe_with_hang_confirmation.py`) | run the benchmark Q2RTX and a CUDA program at a candidate point, watch both, give the verdict | every way a process, a picture or a GPU can stop, seen by polling; a healthy voltage must not be condemned, a bad one not be passed, nothing may stay on the GPU |
| user interface, editors, command line, importers, overlay | windows, text, conversions, external programs | little state that another part relies on |

### How they interact

Clients send one JSON line per request over a Unix socket; each connection has its
own thread, and a scan's connection is consumed by its output. All GPU work goes
through the supervisor's mutex, which a handler keeps for the whole of a GPU
transition, seconds included. Four kinds of threads come back to that mutex on their
own: the game-watch monitor, one monitor per child, the deep-sleep watcher, and the
autostart after a child. The session registry has its own mutex; the supervisor only
takes a lifetime handle from it and polls it. Scans learn of a stop through a marker
file and SIGINT. State survives in files: the boot set on disk, the active runtime
and the applied history under `/run`, and the environment of the games' processes,
from which sessions are recovered.

Every hazard met while reading is in `PROJECT.json`, `hazards`, at its line, with the
properties that would catch it or the reason why none does yet.

## 2. Modules

| module | models | kind |
|---|---|---|
| `BootSet` | the boot set as a value: upsert, remove, main GPU, validation; the order of the deep-sleep watcher's hints and the GPU it takes from them | operators |
| `BootIntent` | what the boot set promises its users: an atomic map of intents | abstract specification |
| `BootRuntimeSet` | the requests on the file, under its lock, with failing writes and crashes | state machine, implements `BootIntent` |
| `Supervisor` | the mutex, the slots, games, children, files, boot replay, parks, crashes | state machine |
| `MCSupervisor` | constants of the Supervisor runs, and the next-state relation of clients that leave the daemon alone | instances |
| `LaunchLifetime` | what a lifetime handle promises | abstract specification |
| `Sessions` | registry, exit threads, `/proc` scans, recovery, pids and their reuse | state machine, implements `LaunchLifetime` |
| `MCSessions` | Sessions without unrelated programs, and reconciled early | instances |
| `ChildStream` | stop requests, the stop marker, the scan's reaction, streaming threads, kill ladder | state machine |
| `AutoUvRules` | what closes a point: blacklist entries and their bands, the edge of earlier freezes, voltage steps, ladders, resume points | operators |
| `TierSearch` | the search of one tier, probe by probe | state machine |
| `MCTierSearch` | a curve of eight voltages, four searches, five blacklists | instance |
| `ProbeLedger` | what marker and blacklist promise together: one point on trial, dead trials condemned | abstract specification |
| `AutoUvScan` | the scan of all tiers with its files, one step per write, killed and restarted at any step | state machine, implements `ProbeLedger` |
| `MCAutoUvScan` | a curve of two voltages, two tiers | instance |
| `ProbeWorkload` | one stability probe: the benchmark, the CUDA program, the monitor's passes, the verdict, the confirmation of a hang | state machine |
| `GameWrapping` | a game's launch command under the managers, its user and its launcher: wrap, unwrap, type, scan, fail, restart | state machine |
| `MCGameWrapping` | one game of each launcher, and a user whose edits the record can tell | instance |
| `*_proofs` | the theorems of a module and the lemmas they need; those on the Supervisor and on launch commands also of the restricted clients and users of `MCSupervisor` and `MCGameWrapping` | proofs |

### How state and actions correspond to the code

**BootRuntimeSet.** `file` is `boot-runtime.json`; a request first loads under the
lock and commits later, so that two requests interleave between the two. A write goes
to a temporary file that is renamed; `PersistFails` and `Crash` stop it at any point.
Documents are abstracted to the sets of specs they hold; white space in uuids and the
text of JSON are not modelled.

`PciHints` is `persisted_pci_bus_id_hints`: the GPU of the active-runtime file first, stock or
not ("The current session keeps precedence", supervisor.rs 824), then the boot set; `Watched` is
what the watcher takes from it (watch.rs 93). `HintsFindWork` asks for every session's GPU
(`session`) and every set of GPUs in the machine (`present`). A GPU stands for its PCI address,
so no two share one; a spec whose address is blank, or which sysfs cannot name, is that of a GPU
outside `Addressed`. The hint of the running engine, which `runtime_pci_bus_id_hints` puts before
all of these (supervisor.rs 871), is left out.

**Supervisor.** The mutex is not a variable: `op` is the continuation of the handler
that holds it, `Idle` when nobody does. A handler that makes several engine calls is
one action per call, so that engine threads, processes and crashes interleave with
its steps, and requests do not. Work done after the mutex is released is counted:
`clearing` holds the stops that have yet to delete the active runtime, `resuming` the
autostarts that have yet to take the mutex. `hw` says at which profile each GPU is
left, `Dirty` after a failed apply. A start succeeds, fails (and cleans up) or leaves
a wedged engine; a stop ends the engine or gives up on it; an engine that was given
up on ends later, or exits by itself. Simplifications: files under `/run` are written
without failure (the code only logs one); the active runtime and the history are
written in one step; scans and verifications are one kind; pids are not reused (see
Sessions for that); a child whose process was spawned but cannot be shared is not
modelled; in `stop_runtime_profile` the boot intent is consumed with the mutex and not
just before it; the deep-sleep watcher's countdown is not modelled, it parks and
starts whenever the supervisor lets it.

**Sessions.** A pid names one process after another (`runs`), a pidfd is a pid with the
number of the process it was opened for. The exit thread of a registration waits,
copies the session if it is still its own, scans `/proc`, registers successors and
removes the session; every entry of a scan takes three steps (open the pidfd, read the
environment, poll the pidfd and insert), so that processes come, go and change their
pid's meaning in between. `recover` runs once before the daemon serves and again when
a client reconciles. Simplifications: starting and running are one phase, since only
"failed" decides anything; profile, sequence numbers, ended sessions and subscribers
are left out (no step depends on them); `observe` is one step and its comparison of
command lines a guard; one reconciliation at a time; wrappers older than session
identities are left out; the listing of `/proc` is taken at once; launches have
distinct games. A wrapper waits for the reply to its registration, so it is alive then.

**ChildStream.** A stop holds the supervisor's lock over check, marker and SIGINT
(`stop`); a streaming thread writes its abort marker without the lock. The scan, from
its Python sources, clears the marker as it starts, polls it while it probes and while
it waits for the user's choice, and is interrupted by SIGINT at any time. `slot` is
the child slot alone; the engines around it are in `Supervisor`.

**AutoUvRules.** The blacklist's entries with their clock band (`unsafe_voltage_blacklist*.py`),
the margin over the edge that freezes reveal (`edge_margin.py`), the descent's strides, the
climb's ladder with Python's rounding, and the point from which an interrupted tier resumes.
Voltages are millivolts and clocks MHz of the stock curve, a constant. Arithmetic on whole
curves is left out: a candidate is its point of voltage and clock.

**TierSearch.** `pc` is what the search is doing: `descend`, `climb` and its `rung`, `retry`,
`backoff`, `settle`, then `choose`, the user's `dialog`, the `soak`. One probe is one step,
with any verdict of `evaluate_stable_run`; what a probe measures (better, no worse, bound by
power) is chosen freely. `file` is the blacklist on disk and `mem` the list in memory, which
the code asks at different places and which learn different things. `log` is history.

**AutoUvScan.** The same scan seen from its files: a probe is six steps (mark, run, judge and
record, unmark, save, note), a start two (record the marker, remove it), the end of a tier
three (profile, checkpoint, completion), and the process may die between any two. A descent
takes the next lower voltage and a climb the next higher clock; the rest of the search is in
`TierSearch`. `replaying` is the checkpoint's replay, `pending` the events it holds back.
`harm` is history. Simplifications: writes of the checkpoint succeed; comparison runs and the
edge margin are in `TierSearch` only; discovery is folded into the baseline and the
confirmation of a hang into the verdict; single-preset scans, custom targets and the
dialogs about an earlier crash are left out.

**ProbeWorkload.** The benchmark writes events to a pipe, may freeze, print, crash and exit;
the monitor drains the pipe and judges (`drain`, `judge`) in the order of
`_run_benchmark_process`, then rests, reaps or runs the CUDA companion and gives its verdict.
A heartbeat shows a new frame's index (`frame`) or the last one's again (`pulse`). The watchdog
counts every other index since the last boundary, and the first one after it whatever it is
(`Base`, `FramesRead`, `StaleRead`). `Marked` says whether the probe's phase writes a crash
marker, without which nothing is recorded (voltage_probe.py 201); `suppress_unsafe_recording`,
which no caller sets, is left out.
One pass is one poll interval and every pass samples the GPU, so the limits of time are
numbers of passes. `truth` is history: what really happened, which the monitor only infers.
Telemetry is one reading per sample (`busy`, `low` or `idle`); temperatures, clocks and the
performance a passing run reports are left out, and so are the quick and custom workloads
that share the monitor. Combining the two workloads is off in production
(`auto_uv/main_loop.py` 191) but is modelled, as `mode = "together"`.

**GameWrapping.** `own` is the command at the game's own level and `upper` what it inherits
(Lutris' runner and system, Heroic's global rows); a command is its words, one value, and the
wrapper in it. `file` is PenguinBurner's record on disk, `row` the one in memory, `seen` what
the last scan parsed and later changes still use (Faugus's document, Heroic's defaults, Steam's
options). A change writes the launcher's file (`Sync`, `SetGameCommand`) and then its record
(`Save`), and fails or dies in between. `Setting` reads the disk for Steam and the row for the
others. `owed` is history: what the user last made of the game's own level. One module serves
both managers; where they differ the condition names Steam. Simplifications: the three levels
of Lutris are two, Faugus's games stay in its file, modes, GPUs and targets are not kept, a
change that is refused is not a step, and Steam is running and answers.

## 3. Runs

All passing runs finish within the stated numbers of distinct states.

| run | question | bounds and why they are enough | states |
|---|---|---|---|
| `boot_set` | does the file always load, do hints find work, are requests atomic? | 3 GPUs, so that removing the active one leaves a choice; 2 profiles, stock and not; 2 clients; one GPU without a PCI address, every session and every set of present GPUs | 111,725 |
| `intent` | does the user's profile survive failing applies, games and crashes? | 2 GPUs, so that a failed apply to one puts it back before the other is restored; a standing profile with a fan curve on one, without on the other, a game that asks for its profile or stock, 1 child, 1 stop, a boot set | 2,592,611 |
| `calm` | desktop: is a GPU left at a game's profile? does the session's profile return after a game and after a child? is a running child ever forgotten? does each present GPU get its saved profile, once? | 2 GPUs, games on the second and children, not both at once, and no other request while a game runs (see below); or, without clients, every boot set of 3 GPUs with stock or not and every main GPU, one GPU absent, restarts at every step and a child | 11,862 |
| `sleep` | a machine that sleeps, with engines that wedge and exit: one writer through parks, wakes, children and games; does a standing profile come back after each? | 1 GPU, 1 child, 1 game, 1 stop, a boot set of its profile or stock; a wedged or exited engine at every step. One writer across GPUs is in the proof | 125,968 |
| `launch` | refinement: a handle closes if and only if the launch has ended; every session is watched | 3 processes, so that a handoff hands off; reconciliations until the third starts; 1 restart | 340,158 |
| `pid_reuse` | is a session ever about another process? | 2 pids of 2 processes each, 2 launches, room for 1 session | 1,036,041 |
| `scan` | do stops reach the scan they are for, and only it? does the kill ladder work, and does the slot outlive the process? | 2 scans, so that one follows another; any number of stops, clients leave, scans hang | 25,582 |
| `tier_search` | does a climb cross the edge twice or end on a point that was never tried? do the soak's fallbacks retreat, and is the pass at the floor left alone? | 8 voltages in two strides and 5 clocks, so that ladders have rungs in between and retries have bins to go; all tiers; 5 blacklists; every verdict at every probe | 1,514,546 |
| `auto_scan` | is a point that killed the machine ever probed again, or forgotten? do checkpoint, report and profiles agree? does the scan end? | 2 voltages and 2 clocks, the least on which all four phases probe; 2 tiers, so that one learns from the other; 2 starts, so that one resumes from whatever the other left | 504,461 |
| `probe` | does a pass mean that everything ran and nothing failed? is a voltage condemned only for a reason, and for every crash? does a probe leave anything running, and does it end? | the three ways to combine the workloads; limits of one to three passes, with a measurement of two, so that each may be met or missed (with one, a benchmark that froze would have measured enough); two attempts; two unread events, so that a drain may meet a boundary, a repeated index and a frame in any order, and one beside CUDA; a phase that writes a marker; the events and stalls that lead to different verdicts (`fatal`, `short`, `mark` and `junk`, low load and the other stalls were checked for safety in larger instances) | 1,390,146 |
| `game_wrapping` | does a disable give back what the user last wrote, or inheritance? does an enable keep the words the game launches with? | one game of each launcher; 2 texts, so that an edit changes something; every order of changes, edits, scans, failed saves, lost records and restarts but those of section 3's list | 41,577 |

`MaxChildren`, `MaxClears`, `MaxRuns`, `MaxCrashes` and `MaxSessions` (the code's
`MAX_SESSIONS`, 128, made small), `MaxStarts` and `Attempts` (a baseline's probes, 10 in
the code) are the bounds on counters. Deadlock is checked wherever the system cannot stop.
In the runs of Sessions, ChildStream and the scans, processes, scans and starts are used up,
after which nothing may happen, so they do not check it.

Every property has a mutant: a definition changed the way a plausible bug would change
the code, under which the run fails. The `Bug...` operators stand next to what they
change.

### Disagreements between the code and what it says of itself

One is a run that is expected to fail, with the quoted line in `PROJECT.json`.

| run | what happens |
|---|---|
| `find_wedge` | an engine that outlives its stop makes the monitor forget the standing profile |

Other limits were met the same way, and the bounds and exceptions of the passing runs
stand for them. TLC shows each when the bound is lifted:

- `calm` has no request during a game: a standing apply on another GPU forgets the game's
  GPU, which keeps the game's profile (supervisor.rs 1488; `GamesLeaveNothing`).
- `calm` has no stop: after one, a scan's autostart finds no active runtime and replays the
  boot set a second time (supervisor.rs 2310); so does a wake that the deep-sleep watcher
  has decided on when a stop comes first (`BootAppliesOnce`).
- In `calm` games and children do not overlap: a game launched between the exit of a child
  and the autostart (`finish_child`, supervisor.rs 1725) has nothing to restore, so the
  session's profile stays away after it (`IntentRuns`).
- `PersistedIntent` speaks of two different profiles: a stop releases the mutex before
  it deletes the active runtime (supervisor.rs 1665), so a profile applied in between
  runs without a record.
- `intent` has no wedges or exits: after one, a failed apply during a game rolls back to
  the game's profile and persists it (supervisor.rs 1602; `Faults = {"fail", "exit"}`,
  `GamesStayTemporary`).
- No property is about changing a running game after a stop: the empty slot is taken
  for another GPU and the change is refused (supervisor.rs 1262).
- `launch` has no fork while the launch is looked for, room for every session and one
  process per pid: a successor that forks and exits while `/proc` is read (sessions.rs 556;
  `ForksDuringScan = TRUE`), a handoff when the registry is full (sessions.rs 573;
  `MaxSessions = 1`), or a successor on the very pid that has exited, which the handoff
  passes over (sessions.rs 556; `MaxRuns = 2`), ends a launch that lives on
  (`ImplementsLifetime`).
- `NoStray` excepts the marker of a client that left: written without the lock
  (scan.rs 282), it can abort the scan after the one it was for.
- `CompletedTierRests` and `ReportedAsSaved` say nothing of the checkpoint of a scan that
  has ended. When the process dies between a tier's record and its completion event, the
  tier is reused without the event (main_loop.py 1101), and the checkpoint of the completed
  scan is never discarded, as docs/features/auto-uv-recovery.md:119 says it is.
- A tier that was interrupted resumes below the point that the crash marker named, but only
  in the start that consumed the marker (crash_recovery.py 44): a second interruption before
  the first new pass loses it. The point stays on the blacklist.
- `NoSecondDeath` is about points that killed the machine. One that only failed its probe in
  the climb or the soak of a tier is condemned on disk, but a later tier's descent asks the
  list in memory, which never learnt of it, and probes the point again (main_loop.py 1048).
- The frame watchdog counts the first heartbeat after a boundary as an advance, and as progress,
  even when its index is that of the last frame before it (runtime.py 385, 390). So a boundary, a
  heartbeat with the old index, one new frame and a pause trip it, and when the confirming run
  does the same the voltage is condemned. Its docstring asks for two "distinct frame advances"
  and says that "a single warm-up frame followed by a one-off compile/scene pause cannot
  arm-then-trip it" (runtime.py 348); test_q2rtx_stability.py:976 tests that before any boundary
  only. Whether the benchmark ever repeats an index is not known from this repository. The
  model does what the code does: `truth.hung` counts the old frame as one of the two, so
  `HealthyIsKept` and `HangIsConfirmed` hold and promise no more than two different indices
  since the boundary.
- `CrashIsRecorded` excepts a second run that is refused: a `StabilityTestError` (a missing
  program or renderer) is raised again unrecorded, and the marker is cleared on the way out, so
  what the first run showed is lost (voltage_probe.py 277). It also asks for a phase that writes
  a crash marker; no other records anything.
- `CrashIsRecorded` excepts combined workloads: a benchmark that crashes has its companion
  killed, and the signal that ended the companion becomes the reason, which is one of those
  never recorded (runtime.py 1022, unsafe_voltage_cache.py 42).
- `ProbeEnds` excepts a GPU that stops answering while CUDA sets up or cleans up: the
  watchdog thread (cuda_bruteforce.py 14) guards neither, and a companion after the benchmark
  is waited for without a limit of time, so that only the user ends it.
- `game_wrapping` has a user who scans after a change in the launcher and makes no edit that
  the record cannot tell (`CarefulSpec`). Whichever of its conditions is dropped, TLC breaks
  `HandsBack`, which is what docs/features/game-library.md:25 promises, "disabling it restores
  the original launch command":
  - a game is off, its record keeps the restored command, and the user clears the command in
    the launcher: the next change of that game, or disabling all games, writes the old command
    back, since an empty command equals the empty `injected_command` (wrapper_command.py 50);
    wrapper_manager.py:393 says "Never discard an externally edited command";
  - a game is off and its record keeps a command, and the user writes another with the wrapper
    by hand: enabling keeps the recorded one as the original (wrapper_manager.py 371) and
    disabling restores it;
  - a Steam command that is edited or retyped while it is wrapped is not told from the one
    that was written, and the older original comes back (manager.py 608);
  - a wrapped command that was inherited, edited and edited back is taken for inherited again;
  - an edit in the launcher without a scan is overwritten where the scan is cached: Faugus's
    document, Heroic's defaults, Steam's options;
  - a record that was not saved, or lost, after an inherited command was wrapped, or that had
    an older original, leaves that original or a wrong source behind.
- A replay answers a probe with its saved failure as well as with its saved passes
  (scan_checkpoint.py 434), so a transient failure is not tried again by resuming.

## 4. Fairness

- `Supervisor!LiveSpec`: the handler that holds the mutex goes on (weak fairness), for
  every engine call in it has a timeout. Threads that wait for the mutex get it again
  and again between requests (strong fairness for the game monitor, the autostart, the
  watcher's start and `finish_child`). Children end, since a monitor kills the ones
  whose client has left and the others are the user's to stop; wedged driver calls
  return in the end. Nothing is asked of games, clients or crashes, and crashes are left
  out: a daemon that keeps crashing promises nothing. `CalmSpec`, which has crashes, says
  instead that they end.
- `Sessions!Scheduled`: exit threads and recovery run on. Processes owe nothing.
- `ChildStream!Fairness`: threads run on, a waiting `finish_child` gets the lock, and
  the kernel ends a process that was sent SIGKILL. A scan may hang at any time; one that
  does not gets past its start and notices SIGINT.
- `AutoUvScan!LiveSpec`: the scan goes on by itself (`Work`); probes have timeouts and the
  dialogs are taken to be answered. Nobody has to start one, to stop it or to kill it.
- `ProbeWorkload!Spec`: the monitor's passes go on, a CUDA program whose GPU answers gets
  on, and so does its watchdog thread, which does not ask the GPU. The benchmark owes
  nothing, and a GPU that stopped answering need not answer again.

## 5. Proofs

| theorem | says, for all values of the constants |
|---|---|
| `BootRuntimeSet_proofs!BootFileLoads` | `[]FileLoads` |
| `BootRuntimeSet_proofs!HintsComeFirst` | `[]HintsFindWork` |
| `BootRuntimeSet_proofs!BootRefinesIntent` | the requests implement `BootIntent` |
| `Supervisor_proofs!SupervisorSafe`, `ChildrenAreKept` | `[](TypeOK /\ OneWriter /\ ChildKept)` |
| `Supervisor_proofs!GamesAreTemporary` | `[]GamesStayTemporary`, if `NoLateEngines` and `TameBoots` |
| `Supervisor_proofs!WhatRunsIsPersisted` | `[]PersistedIntent`, if `NoLateEngines` |
| `Supervisor_proofs!StandingIsPersisted` | `[]StandingSurvives`, if `NoLateEngines` |
| `Supervisor_proofs!GamesKeepTheFan` | `[]FanKept`, if `NoLateEngines` |
| `Supervisor_proofs!BootSetsApplyOnce` | `BootAppliesOnce`, under `CalmSpec` |
| `Supervisor_proofs!GamesArePutBack` | `[]GamesLeaveNothing`, under `CalmSpec`, if `NoFaults` and `TameBoots` |
| `Supervisor_proofs!BootSetsTakeEffect` | `[]BootSetApplied`, under `CalmSpec`, if `NoFaults` |
| `Sessions_proofs!SessionsSafe`, `SessionsAreWatched` | `[](TypeOK /\ RecordsAreWatched /\ SessionIsItsProcess)` |
| `Sessions_proofs!HandlesFollowLaunches` | the registry implements `LaunchLifetime` but for fairness, if `Undisturbed` |
| `ChildStream_proofs!OneChildAlways` | `[](TypeOK /\ OneChild)` |
| `ChildStream_proofs!NoStrayAlways` | `[]NoStray` |
| `AutoUvScan_proofs!ScanTypes` | `[]TypeOK`, on which the next three rest |
| `AutoUvScan_proofs!NothingIsForgotten` | `[]NothingForgotten` |
| `AutoUvScan_proofs!NobodyDiesTwice` | `[]NoSecondDeath` |
| `AutoUvScan_proofs!MarkerKeepsLedger` | marker and blacklist implement `ProbeLedger` |
| `AutoUvScan_proofs!CompletedTiersRest` | `[]CompletedTierRests` |
| `AutoUvScan_proofs!ReportsAreSaved` | `[]ReportedAsSaved` |
| `TierSearch_proofs!SearchTypes` | `[]TypeOK`, on which the next four rest |
| `TierSearch_proofs!EdgeIsCrossedOnce` | `[]OneUnsafePerClimb` |
| `TierSearch_proofs!OnlyProvenIsSoaked` | `[]TestedBeforeSoak` |
| `TierSearch_proofs!FallbacksRetreat` | `[]SoaksRetreat` |
| `TierSearch_proofs!FloorIsLeftAlone` | `[]FloorNotSoaked` |
| `ProbeWorkload_proofs!WorkloadTypes` | `[]TypeOK`, on which the next five rest |
| `ProbeWorkload_proofs!NothingIsLeftBehind` | `[]NothingOutlives` |
| `ProbeWorkload_proofs!HangsAreConfirmed` | `[]HangIsConfirmed` |
| `ProbeWorkload_proofs!VoltageIsBlamedForCause` | `[]HealthyIsKept` |
| `ProbeWorkload_proofs!PassesAreSound` | `[]PassIsSound` |
| `ProbeWorkload_proofs!CrashesAreRecorded` | `[]CrashIsRecorded` |
| `GameWrapping_proofs!WrappingTypes` | `[]TypeOK` |
| `GameWrapping_proofs!WrappingKeepsWords` | `WrappingKeeps`, under `Spec`: whatever the user, the launcher and failures do |
| `GameWrapping_proofs!UnwrappingGivesBack` | `HandsBack`, under `CarefulSpec` |

The assumptions are the named ones of the modules (`BootSetAssumption`,
`SupervisorAssumption`, `IdleAssumption`, `NobodyAssumption`, `BoundsAssumption`, `NullsAssumption`,
`ChildStreamAssumption`, `CurveAssumption`, `ScanAssumption`, `SearchAssumption`,
`WorkloadAssumption`, `WrappingAssumption`, `RecordAssumption`): bounds are naturals, null values are not
values, the set of pids is finite. The others are hypotheses of the theorems they are named
with, since the code does not guarantee them and the property fails without them, as TLC
shows (section 3, the list of limits):

- `NoLateEngines`: starts may fail, but an engine that is told to stop does, and none gives
  up by itself (`Faults \subseteq {"fail"}`). Everything else is arbitrary, deep sleep
  included.
- `NoFaults`: no engine call fails (`Faults = {}`). A restore forgets the game and what to
  restore before it begins (supervisor.rs 630), so that one that fails is not tried again and
  leaves the game's profile on its GPU; a boot spec that fails is replayed as Stock (2221).
- `CalmSpec`: with a boot set nothing is asked of the daemon but children that interrupt a
  session, while it may be killed at any step; without one it is not killed, and its clients
  neither apply nor scan while a game is watched, and start no game beside a child.
- `TameBoots`: the boot sets that a run starts from hold profiles a user may choose for the
  session, which is what the requests that write them take.
- `Undisturbed`: one process per pid, no fork while `/proc` is read for the forking
  process's launch, room for every session.

*One writer.* `OneWriter` is not inductive. `IInv` adds that a live engine is the one in
the slot (so that the next handler finds it and stops it or refuses), that a live child
is the one in its slot, that engines are off while a child lives, and that a handler
between two engine calls has neither beside it and has what it is about to apply.
The lemmas on boot sets say what their operators preserve, in particular that
what a replay takes from the set are specs of its GPUs.

*The session beside a game.* Four values must agree on what the session wants: what runs,
what a rollback in progress would go back to, what the game hides (`standing`) and what is
on disk. `IntentInv` says that no two of them are two different profiles (`Fits`; nothing and
Stock fit everything), unless a game overrides what runs. It gives both `PersistedIntent` and
`StandingSurvives`; a failed apply makes it interesting, since the rollback is several engine
calls long and each may fail again. `TameInv`
follows a game's profile in the same way: while a game overrides, it may run and be what a
failed apply goes back to, and nothing else ever holds it. `FanInv` adds to the
intent what a rollback to a preset brings back on the fan. All three rest on `SteadyInv`:
where engines stop when told, the slot holds a running engine or nothing.

*After a game.* That a game's profile is gone from every GPU once nobody watches needs to
know where it can be. `OwedInv` names that GPU, the one that is owed its own profile (`Owed`):
the game's, while it is applied, watched or put back, and then none. What is put back must be
for the same GPU: for the standing spec by the handler's comparison, and for a spec of the
caches because each is filed under its own GPU (`FiledInv`), through crashes and reloads.

*The replay.* `BootSetApplied` says that a GPU of the boot set is not forgotten, wherever the
daemon is killed. `ReplayInv` carries it: a GPU that is not at its saved profile is one that
the replay has yet to come to, and while the active file says that there is a session, all
are, since the replay turns to the active spec last (`BootOrderSaved`) and the file is written
after that. `BootAppliesOnce` needs no such history, but that nothing wakes the daemon into a
second replay: a child or an autostart that is waited for has an active file to come back to
(`Unasked`), whatever fails meanwhile.

*The boot set.* The file and every set in a client's hands are valid; each commit maps
to one step of `BootIntent`, everything else to a stutter. The hints are the session's GPU and
four filters of the set; each filter is given by the order of the places it keeps
(`NewestFirst`), not by recursion, so that what comes first can be proved. In each, the first
GPU that is in the machine is the newest such (`WatchedIsNewest`), and a list without one leaves
the choice to the next (`WatchedInRow`); every place with work and an address is in the first
two filters, unless it is the session's.

*Sessions.* A registration reads its process before it takes the lock, so the invariant
follows an entry through its scan: a pidfd with an environment read through a pid that
has not been reused since is of that launch, and one that may have been is dropped by
the poll that follows. `RecordsAreWatched` needs that the thread of a session is only
lost with it, which is where replaced sessions and repeated registrations come in.

*Handles.* `LaunchLifetime` counts a launch as living while any process of it lives, which
the registry cannot see. `LifeInv` relates them: a thread that reads `/proc` for a launch has
yet to list, is looking at, or has tracked every living process of it (`FoundInv`), so that
when it removes its session another session of the launch is there, or nobody lives. For that
a tracked process keeps its thread (`Threads`), the wrapper is alone until it becomes the game
(`Lone`) and a session marked failed is of a wrapper that is about to exit (`FailedInv`): a
failed launch hands nothing off, and has nobody to hand to.

*Scans.* `OneChild` needs that a thread reaches `finish_child` only when its child is
gone; `NoStray` that a marker written under the lock is for the child in the slot, and
that a thread marks only once its client has left.

*Auto-UV.* No point that killed the machine runs again, and the search asks two different
lists. `NoSecondDeath` is therefore proved from `HarmInv`: while a scan is past its start,
everything that ever killed the machine is closed on the disk's list and in memory.
`MarkerInv` says that the marker stands for the probe in progress and for nothing else, or
waits for the next start; a death turns the point on trial into that marker, and `Consume`
closes it before `Unlink` forgets it. That entries only ever close more (bands are kept, a
replaced entry closes what the one it replaces did) are lemmas about `AutoUvRules`.
The refinement maps each write to its step of the ledger and everything else to a stutter.
`CompletedTierRests` and `ReportedAsSaved` come from `DoneInv`: the checkpoint's record of
finished tiers agrees with the saved profiles and the report with that record, in every
interval between the three writes, and the tier that is searched is not on the record.

*The search of a tier.* `SearchTypes` is the base: whatever the search turns to is a bin of
the table, and no list is taken from when it is empty. `TestedBeforeSoak` then follows from
`ProvenInv`: every list the search keeps for later holds only points with a pass in the
history. `EdgeInv` says that a climb that may still go up met nothing unsafe; `RetreatInv`
that the fallbacks still to come ask for no more than the last soak and repeat none; `FloorInv`
that a descent that passed down to the floor has the floor nowhere among what can be chosen.

*A probe.* `HealthyIsKept` and `HangIsConfirmed` compare what the monitor infers with `truth`.
The monitor's counts never run ahead of the truth (`HangInv`, `ClockInv`), whatever part of the
benchmark's events still waits in the pipe, and are forgotten between two attempts. For the
watchdog this is `Counted`: what it has counted and what it will find in the pipe make the number
of different frames reported since the last boundary, so each event is a case of what it adds
to the lines (`AppendToLines`), an old index after a boundary among them. A fault
shows somewhere for as long as the run lasts, and what shows one is true (`FaultInv`). The
benchmark's words come in order (`OrderInv`), so that a summary means a measurement.

*Launch commands.* `WrappingKeeps` needs no care of the user, only a scan since the last
change in the launcher: then the command that a change starts from is the game's (`Current`),
and injection keeps its words through each launcher's way to keep a command. The
type invariant carries what that rests on: only a launcher with inheritance has a level that
says nothing, and Steam's manager never asks for one.

`HandsBack` asks more, and a record can be wrong in two ways: it is older than the command,
after a failed save or an edit, or gone. The invariant is that it still fits the command
(`Fits`): a command that the record knows as lent into a level that said nothing owes that
inheritance, and any other owes the words around its wrapper, which are then also the recorded
original (`Sound`). The conditions of the careful user are what the proof needs and no more:
they were weakened until it did, and TLC shows that none can be dropped.

Only model-checked: the fairness part of `ImplementsLifetime`, and everything else that holds
under fairness (liveness and `ENABLED` are beyond the prover). Every invariant and every action
property that a run checks is proved.

## 6. Not modelled

The components marked `not_modelled` in `PROJECT.json`, with the reason for each. In
short: driver calls, the daemon's I/O, conversions between curve formats, windows and
packaging have no state of the kind modelled here; the rest is in the plan.

## 7. Plan

In order of what a mistake would cost:

1. `BootSet`, `BootIntent`, `BootRuntimeSet` and proofs - done
2. `Supervisor` and proofs - done
3. `Sessions`, `LaunchLifetime` and proofs - done
4. `ChildStream` and proofs - done
5. `TierSearch`, `AutoUvScan`, `ProbeLedger` and proofs - done
   `ProbeWorkload`, the external load of a probe, its watchdogs and its verdict - done
6. `GameWrapping` and proofs - done; the wrapper itself at run time and `hot_reapply`,
   composed with the sessions, are left
7. `SessionStream`: subscribers, coalesced wakeups, the client's epoch and sequence;
   every client that stays connected ends with the last snapshot
8. `Engine`: start, stop flag, timeouts and late writes of an engine thread, shown to
   implement the engine outcomes that `Supervisor` assumes
9. `DeepSleep`: samples, client latch and countdown, composed with parks and wakes
10. `ApplyTransaction`: the verified curve write and what a failure leaves
11. `GpuRpc`, profile deletion and the profile store: ownership across processes and
    no dangling selection
12. `Adaptive`, guards and the fan controller over sampled readings; the queues of the
    overlay's native layer
13. Sessions composed with the supervisor's game watches

Proofs to add: those of the components to come.
