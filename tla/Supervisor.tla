----------------------------- MODULE Supervisor -----------------------------
(***************************************************************************)
(* The single-owner GPU state machine of burnerd/src/supervisor.rs.        *)
(*                                                                         *)
(* One mutex guards the profile slot, the child slot, the game watches and *)
(* the applied-spec cache.  A handler that talks to the GPU keeps the      *)
(* mutex across several engine starts and stops; op is the continuation of *)
(* the handler that holds it, so that engine threads, processes and a      *)
(* daemon crash interleave with its steps.  What the code does after it    *)
(* has released the mutex is counted in clearing and resuming.             *)
(***************************************************************************)
EXTENDS BootSet, FiniteSets

CONSTANTS
    Engines,       \* names for engine threads
    Pids,          \* processes a game watch can be on
    None,          \* an absent spec, job or slot
    Idle,          \* nobody holds the mutex
    Dirty,         \* V/F state left by an apply that failed or by a child
    StandingSpecs, \* specs the UI and CLI apply
    GameSpecs,     \* specs the launch wrappers apply
    BootChoices,   \* boot sets the daemon may find
    Present,       \* GPUs that resolve_gpu_index finds
    DeepSleep,     \* rtd3::protects_deep_sleep; eager autostart otherwise
    Faults,        \* which of "fail", "wedge" and "exit" engines may do
    MaxChildren,   \* bound on scans and verifications per daemon life
    MaxClears      \* bound on stop requests past the mutex at once

ASSUME SupervisorAssumption ==
    /\ StandingSpecs \subseteq RuntimeSpec
    /\ GameSpecs \subseteq RuntimeSpec
    /\ \A set \in BootChoices : set \in BootSets /\ Validate(set)
    /\ Present \subseteq Gpus
    /\ DeepSleep \in BOOLEAN
    /\ Faults \subseteq {"fail", "wedge", "exit"}
    /\ MaxChildren \in Nat
    /\ MaxClears \in Nat
    /\ Engines # {}
    /\ None \notin RuntimeSpec \cup [id : Engines, spec : RuntimeSpec]
    /\ Dirty \notin Profiles

VARIABLES
    thread,       \* engine threads: "off", "running" or "wedged"
    slot,         \* Supervisor.profile: the engine handle and its spec
    hw,           \* per GPU: the profile its V/F, clocks and power are at
    child,        \* Supervisor.child: a generation, 0 when empty
    generation,   \* child_generation
    alive,        \* generations whose process runs
    unfinished,   \* generations whose monitor has yet to call finish_child
    watches,      \* game_runtime.watches
    standing,     \* game_runtime.standing_spec
    restore,      \* game_runtime.restore_spec
    override,     \* game_runtime.override_active
    games,        \* launcher and game processes that run
    lastApplied,  \* last_applied_specs
    bootConsumed, \* BOOT_RUNTIME_CONSUMED
    activeFile,   \* active-runtime.json
    historyFile,  \* applied-runtime-history.json
    bootSet,      \* boot-runtime.json, as loaded
    op,           \* the handler holding the mutex, or Idle
    clearing,     \* stop requests between the mutex and clear_active_runtime
    resuming      \* autostart attempts not yet at the mutex

engineVars  == <<thread, slot, hw>>
childVars   == <<child, generation, alive, unfinished>>
gameVars    == <<watches, standing, restore, override>>
diskVars    == <<activeFile, historyFile>>
pendingVars == <<clearing, resuming>>
vars == <<engineVars, childVars, gameVars, games, lastApplied, bootConsumed,
          diskVars, bootSet, op, pendingVars>>

MaybeSpec == RuntimeSpec \cup {None}

StockFallback(spec) == [spec EXCEPT !.profile = Stock, !.fan = FALSE]

IsStock(spec) == spec.profile = Stock

\* Continuations: what is left to do, and what the handler decided before.
Rollback == [pc : {"start", "target", "previous", "stock"}, spec : RuntimeSpec,
             previous : MaybeSpec, target : MaybeSpec]
ApplyOps == [kind : {"apply"}, rb : Rollback]
GameDecisions == [kind : {"decide"}, spec : RuntimeSpec, pid : Pids]
GameOps == [kind : {"game"}, rb : Rollback, pid : Pids, first : BOOLEAN,
            standing : MaybeSpec, restore : MaybeSpec]
RestoreOps == [kind : {"restore"}, pc : {"target", "standing"},
               target : MaybeSpec, standing : MaybeSpec,
               then : {Idle} \cup GameDecisions]
RecoverOps == [kind : {"recover"}, pc : {"apply", "stock"}, spec : RuntimeSpec]
BootOps == [kind : {"boot"}, pc : {"apply", "stock"}, todo : Seq(RuntimeSpec) \ {<<>>}]

\* rtd3::watch::startup: Desktop mode autostarts before the socket is bound, so
\* that no request precedes it; a machine that may sleep leaves it to the watcher.
Starting == IF DeepSleep THEN Idle ELSE [kind |-> "startup"]

Ops == {Idle, Starting} \cup ApplyOps \cup GameDecisions \cup GameOps
              \cup RestoreOps \cup RecoverOps \cup BootOps

\* Nobody at the mutex is told from whoever is at it.
ASSUME IdleAssumption ==
    Idle \notin ApplyOps \cup GameDecisions \cup GameOps \cup RestoreOps \cup RecoverOps
                   \cup BootOps

TypeOK ==
    /\ thread \in [Engines -> {"off", "running", "wedged"}]
    /\ slot \in [id : Engines, spec : RuntimeSpec] \cup {None}
    /\ hw \in [Gpus -> Profiles \cup {Dirty}]
    /\ generation \in 0..MaxChildren
    /\ child \in 0..generation
    /\ alive \subseteq 1..generation
    /\ unfinished \subseteq 1..generation
    /\ watches \subseteq Pids
    /\ games \subseteq Pids
    /\ standing \in MaybeSpec
    /\ restore \in MaybeSpec
    /\ override \in BOOLEAN
    /\ lastApplied \in [Gpus -> MaybeSpec]
    /\ bootConsumed \in BOOLEAN
    /\ activeFile \in MaybeSpec
    /\ historyFile \in [Gpus -> MaybeSpec]
    /\ bootSet \in BootSets
    /\ op \in Ops
    /\ clearing \in 0..MaxClears
    /\ resuming \in 0..MaxChildren + 1

NothingApplied == [g \in Gpus |-> None]

Init ==
    /\ thread = [i \in Engines |-> "off"]
    /\ slot = None
    /\ hw = [g \in Gpus |-> Stock]
    /\ child = 0 /\ generation = 0 /\ alive = {} /\ unfinished = {}
    /\ watches = {} /\ standing = None /\ restore = None /\ override = FALSE
    /\ games = {}
    /\ lastApplied = NothingApplied
    /\ bootConsumed = FALSE
    /\ activeFile = None /\ historyFile = NothingApplied
    /\ bootSet \in BootChoices
    /\ op = Starting
    /\ clearing = 0
    /\ resuming = 0

-----------------------------------------------------------------------------
(***************************************************************************)
(* Engines: the outcomes of profile::start and EngineHandle::stop.         *)
(***************************************************************************)
SlotSpec == IF slot = None THEN None ELSE slot.spec

SlotGpu == IF slot = None THEN NoGpu ELSE slot.spec.gpu

EngineRuns == slot # None /\ thread[slot.id] # "off"

FreeEngine == CHOOSE i \in Engines : thread[i] = "off"

ChildRuns == child \in alive

\* The initial apply reached the GPU and the engine reported ready.
StartOk(spec) ==
    /\ thread' = [thread EXCEPT ![FreeEngine] = "running"]
    /\ slot' = [id |-> FreeEngine, spec |-> spec]
    /\ hw' = [hw EXCEPT ![spec.gpu] = spec.profile]

\* The initial apply failed, before or amid its writes; the thread is gone.
StartFails(spec) ==
    /\ "fail" \in Faults
    /\ UNCHANGED <<thread, slot>>
    /\ hw' \in {hw, [hw EXCEPT ![spec.gpu] = Dirty]}

\* The initial apply hangs and outlives its stop: the handle is retained.
StartWedges(spec) ==
    /\ "wedge" \in Faults
    /\ thread' = [thread EXCEPT ![FreeEngine] = "wedged"]
    /\ slot' = [id |-> FreeEngine, spec |-> spec]
    /\ hw' = [hw EXCEPT ![spec.gpu] = Dirty]

\* Started and stopped again: V/F, memory and power stay as applied.
ApplyAndStop(spec) ==
    /\ hw' = [hw EXCEPT ![spec.gpu] = spec.profile]
    /\ UNCHANGED <<thread, slot>>

\* Started, but the stop timed out: the handle is retained.
ApplyAndStick(spec) ==
    /\ "wedge" \in Faults
    /\ thread' = [thread EXCEPT ![FreeEngine] = "wedged"]
    /\ slot' = [id |-> FreeEngine, spec |-> spec]
    /\ hw' = [hw EXCEPT ![spec.gpu] = spec.profile]

\* Mutant: the slot is freed although the engine has not stopped.
BugStopForgetsEngine ==
    /\ slot' = None
    /\ UNCHANGED <<thread, hw>>

\* stop_engine_for_child succeeds: stopped now, or already dead.
StopEngine ==
    /\ slot # None => thread[slot.id] # "wedged"
    /\ thread' = IF slot = None THEN thread ELSE [thread EXCEPT ![slot.id] = "off"]
    /\ slot' = None
    /\ UNCHANGED hw

\* stop_engine_for_child is refused: the job stays in the slot.
StopTimesOut ==
    /\ EngineRuns
    /\ "wedge" \in Faults
    /\ thread' = [thread EXCEPT ![slot.id] = "wedged"]
    /\ UNCHANGED <<slot, hw>>

\* A wedged thread returns, or a running one gives up after repeated errors.
EngineExits(i) ==
    /\ \/ thread[i] = "wedged"
       \/ thread[i] = "running" /\ "exit" \in Faults
    /\ thread' = [thread EXCEPT ![i] = "off"]
    /\ UNCHANGED <<slot, hw, childVars, gameVars, games, lastApplied,
                   bootConsumed, diskVars, bootSet, op, pendingVars>>

-----------------------------------------------------------------------------
(***************************************************************************)
(* apply_runtime_spec and the rollback it shares with                      *)
(* start_game_runtime_profile.                                             *)
(***************************************************************************)
\* A failed apply to another GPU than the current one first puts the failed
\* GPU back to what it last had, then restarts the current one.
RollbackTarget(spec, known) ==
    IF SlotGpu \in {NoGpu, spec.gpu} THEN None
    ELSE IF known # None THEN known ELSE StockFallback(spec)

NewRollback(spec, known) ==
    [pc |-> "start", spec |-> spec, previous |-> SlotSpec,
     target |-> RollbackTarget(spec, known)]

BeginApply(spec) ==
    /\ op = Idle
    /\ ~ChildRuns
    /\ \/ /\ StopEngine
          /\ op' = [kind |-> "apply", rb |-> NewRollback(spec, lastApplied[spec.gpu])]
       \/ StopTimesOut /\ op' = Idle
    /\ UNCHANGED <<childVars, gameVars, games, lastApplied, bootConsumed,
                   diskVars, bootSet, pendingVars>>

\* Mutant: the override ends, but the game's exit would bring the old spec back.
BugBecomesStanding(spec) ==
    /\ override' = IF watches = {} THEN override ELSE FALSE
    /\ UNCHANGED <<watches, standing, restore>>

\* An apply while a game is watched becomes the new standing action.
BecomesStanding(spec) ==
    /\ standing' = IF watches = {} THEN standing ELSE spec
    /\ override' = IF watches = {} THEN override ELSE FALSE
    /\ UNCHANGED <<watches, restore>>

\* Mutant: only the history is written, not the session's spec.
BugApplyStarts ==
    /\ op # Idle /\ op.kind = "apply" /\ op.rb.pc = "start"
    /\ StartOk(op.rb.spec)
    /\ BecomesStanding(op.rb.spec)
    /\ lastApplied' = [lastApplied EXCEPT ![op.rb.spec.gpu] = op.rb.spec]
    /\ historyFile' = lastApplied'
    /\ op' = Idle
    /\ UNCHANGED <<childVars, games, bootConsumed, activeFile, bootSet, pendingVars>>

ApplyStarts ==
    /\ op # Idle /\ op.kind = "apply" /\ op.rb.pc = "start"
    /\ StartOk(op.rb.spec)
    /\ BecomesStanding(op.rb.spec)
    /\ lastApplied' = [lastApplied EXCEPT ![op.rb.spec.gpu] = op.rb.spec]
    /\ activeFile' = op.rb.spec
    /\ historyFile' = lastApplied'
    /\ op' = Idle
    /\ UNCHANGED <<childVars, games, bootConsumed, bootSet, pendingVars>>

InRollback(pc) == op # Idle /\ op.kind \in {"apply", "game"} /\ op.rb.pc = pc

RollbackTo(pc) == op' = [op EXCEPT !.rb.pc = pc]

AfterTarget == IF op.rb.previous = None THEN "stock" ELSE "previous"

RequestedFails ==
    /\ InRollback("start")
    /\ \/ /\ StartFails(op.rb.spec)
          /\ RollbackTo(IF op.rb.target # None THEN "target" ELSE AfterTarget)
       \/ StartWedges(op.rb.spec) /\ op' = Idle
    /\ UNCHANGED <<childVars, gameVars, games, lastApplied, bootConsumed,
                   diskVars, bootSet, pendingVars>>

RestoreFailedTarget ==
    /\ InRollback("target")
    /\ \/ /\ ApplyAndStop(op.rb.target)
          /\ lastApplied' = [lastApplied EXCEPT ![op.rb.target.gpu] = op.rb.target]
          /\ RollbackTo(AfterTarget)
       \/ /\ StartFails(op.rb.target)
          /\ RollbackTo(AfterTarget)
          /\ UNCHANGED lastApplied
       \/ /\ ApplyAndStick(op.rb.target) \/ StartWedges(op.rb.target)
          /\ op' = Idle
          /\ UNCHANGED lastApplied
    /\ UNCHANGED <<childVars, gameVars, games, bootConsumed, diskVars, bootSet,
                   pendingVars>>

\* Mutant: the game override is not looked at.
BugRollbackEnds(recovered, wedged) ==
    /\ op' = Idle
    /\ IF op.kind = "game" THEN UNCHANGED diskVars
       ELSE /\ historyFile' = lastApplied
            /\ activeFile' = IF recovered # None THEN recovered
                             ELSE IF wedged THEN activeFile ELSE None

\* The end of a rollback.  apply_runtime_spec makes what it recovered the
\* session's intent, unless a game override hides the persisted one.
RollbackEnds(recovered, wedged) ==
    /\ op' = Idle
    /\ IF op.kind = "game" THEN UNCHANGED diskVars
       ELSE /\ historyFile' = lastApplied
            /\ activeFile' = IF override /\ watches # {} THEN activeFile
                             ELSE IF recovered # None THEN recovered
                             ELSE IF wedged THEN activeFile ELSE None

RestorePrevious ==
    /\ InRollback("previous")
    /\ \/ StartOk(op.rb.previous) /\ RollbackEnds(op.rb.previous, FALSE)
       \/ StartWedges(op.rb.previous) /\ RollbackEnds(op.rb.previous, TRUE)
       \/ /\ StartFails(op.rb.previous)
          /\ IF op.kind = "apply" THEN RollbackTo("stock") /\ UNCHANGED diskVars
             ELSE RollbackEnds(None, FALSE)
    /\ UNCHANGED <<childVars, gameVars, games, lastApplied, bootConsumed,
                   bootSet, pendingVars>>

FallBackToStock ==
    /\ InRollback("stock")
    /\ LET fallback == StockFallback(op.rb.spec)
       IN  \/ StartOk(fallback) /\ RollbackEnds(fallback, FALSE)
           \/ StartWedges(fallback) /\ RollbackEnds(None, TRUE)
           \/ StartFails(fallback) /\ RollbackEnds(None, FALSE)
    /\ UNCHANGED <<childVars, gameVars, games, lastApplied, bootConsumed,
                   bootSet, pendingVars>>

-----------------------------------------------------------------------------
(***************************************************************************)
(* Per-game runtimes: restore_finished_game, start_game_runtime_profile.   *)
(***************************************************************************)
GameLaunches(p) ==
    /\ op = Idle
    /\ p \notin games \cup watches
    /\ games' = games \cup {p}
    /\ UNCHANGED <<engineVars, childVars, gameVars, lastApplied, bootConsumed,
                   diskVars, bootSet, op, pendingVars>>

GameExits(p) ==
    /\ p \in games
    /\ games' = games \ {p}
    /\ UNCHANGED <<engineVars, childVars, gameVars, lastApplied, bootConsumed,
                   diskVars, bootSet, op, pendingVars>>

\* Mutant: a GPU without a known spec is left as the game had it.
BugGameRestoreTarget ==
    IF restore # None /\ standing # None /\ restore.gpu = standing.gpu
    THEN None ELSE restore

\* What the game's own GPU goes back to when that is not the standing GPU.
GameRestoreTarget ==
    LET saved == IF restore # None THEN restore
                 ELSE IF slot # None THEN StockFallback(slot.spec) ELSE None
    IN  IF saved # None /\ standing # None /\ saved.gpu = standing.gpu
        THEN None ELSE saved

RestorePlan(then) ==
    IF GameRestoreTarget = None /\ standing = None THEN then
    ELSE [kind |-> "restore",
          pc |-> IF GameRestoreTarget # None THEN "target" ELSE "standing",
          target |-> GameRestoreTarget, standing |-> standing, then |-> then]

\* Takes the mutex, drops the watches of exited processes and, after the last
\* one, begins to put the standing runtime back; then is what follows.
RestoreFinishedGame(then) ==
    /\ op = Idle
    /\ watches' = watches \cap games
    /\ IF watches = {} \/ watches' # {}
       THEN /\ op' = then
            /\ UNCHANGED <<standing, restore, override, engineVars>>
       ELSE /\ override' = FALSE
            /\ standing' = None
            /\ restore' = None
            /\ \/ /\ ~override \/ ChildRuns
                  /\ op' = then
                  /\ UNCHANGED engineVars
               \/ /\ override /\ ~ChildRuns
                  /\ \/ StopEngine /\ op' = RestorePlan(then)
                     \/ StopTimesOut /\ op' = Idle
    /\ UNCHANGED <<childVars, games, lastApplied, bootConsumed, diskVars,
                   bootSet, pendingVars>>

\* Mutant: the monitor drops the watch of a game that ended, and no more.
BugReapGameWatches ==
    /\ watches \ games # {}
    /\ watches' = watches \cap games
    /\ UNCHANGED <<engineVars, childVars, standing, restore, override, games, lastApplied,
                   bootConsumed, diskVars, bootSet, op, pendingVars>>

ReapGameWatches ==
    /\ watches \ games # {}
    /\ RestoreFinishedGame(Idle)

RestoreGameTarget ==
    /\ op # Idle /\ op.kind = "restore" /\ op.pc = "target"
    /\ \/ /\ ApplyAndStop(op.target)
          /\ lastApplied' = [lastApplied EXCEPT ![op.target.gpu] = op.target]
          /\ op' = IF op.standing = None THEN op.then ELSE [op EXCEPT !.pc = "standing"]
       \/ /\ StartFails(op.target) \/ StartWedges(op.target) \/ ApplyAndStick(op.target)
          /\ op' = Idle
          /\ UNCHANGED lastApplied
    /\ UNCHANGED <<childVars, gameVars, games, bootConsumed, diskVars, bootSet,
                   pendingVars>>

RestoreStanding ==
    /\ op # Idle /\ op.kind = "restore" /\ op.pc = "standing"
    /\ \/ StartOk(op.standing) /\ op' = op.then
       \/ (StartFails(op.standing) \/ StartWedges(op.standing)) /\ op' = Idle
    /\ UNCHANGED <<childVars, gameVars, games, lastApplied, bootConsumed,
                   diskVars, bootSet, pendingVars>>

\* start_game_runtime_profile, up to the reconciliation with earlier exits.
RequestGame(spec, p) ==
    /\ p \in games
    /\ RestoreFinishedGame([kind |-> "decide", spec |-> spec, pid |-> p])

\* What a failed or finished game puts its GPU back to.
KnownSpec(spec) ==
    IF EngineRuns /\ slot.spec.gpu = spec.gpu THEN slot.spec
    ELSE lastApplied[spec.gpu]

\* Mutant: the fan policy comes from the profile the engine runs now.
BugGameFan(spec, known) ==
    LET current == IF SlotGpu = spec.gpu THEN SlotSpec ELSE None
    IN  IF ~IsStock(spec) /\ ~spec.fan /\ current # None
        THEN [spec EXCEPT !.fan = current.fan] ELSE spec

\* A non-stock game profile without a fan policy inherits the one of its GPU,
\* looking past a Stock override to what was standing before the game.
GameFan(spec, known) ==
    LET current == IF SlotGpu = spec.gpu THEN SlotSpec ELSE None
        underGame == IF standing # None /\ standing.gpu = spec.gpu THEN standing
                     ELSE restore
        source == IF override /\ current # None /\ IsStock(current) THEN underGame
                  ELSE IF current # None THEN current ELSE known
    IN  IF ~IsStock(spec) /\ ~spec.fan /\ source # None
        THEN [spec EXCEPT !.fan = source.fan] ELSE spec

GameRefused(spec, p) ==
    \/ ChildRuns
    \/ watches # {} /\ p \notin watches
    \/ watches # {} /\ SlotGpu # spec.gpu

RefuseGame ==
    /\ op # Idle /\ op.kind = "decide"
    /\ GameRefused(op.spec, op.pid)
    /\ op' = Idle
    /\ UNCHANGED <<engineVars, childVars, gameVars, games, lastApplied,
                   bootConsumed, diskVars, bootSet, pendingVars>>

BeginGame ==
    /\ op # Idle /\ op.kind = "decide"
    /\ ~GameRefused(op.spec, op.pid)
    /\ LET first == watches = {}
           known == IF first THEN KnownSpec(op.spec) ELSE None
           rb == NewRollback(GameFan(op.spec, known), known)
       IN  \/ /\ StopEngine
              /\ op' = [kind |-> "game", rb |-> rb, pid |-> op.pid, first |-> first,
                        standing |-> IF first /\ EngineRuns THEN slot.spec ELSE None,
                        restore |-> known]
           \/ StopTimesOut /\ op' = Idle
    /\ UNCHANGED <<childVars, gameVars, games, lastApplied, bootConsumed,
                   diskVars, bootSet, pendingVars>>

GameStarts ==
    /\ op # Idle /\ op.kind = "game" /\ op.rb.pc = "start"
    /\ StartOk(op.rb.spec)
    /\ standing' = IF op.first THEN op.standing ELSE standing
    /\ restore' = IF op.first THEN op.restore ELSE restore
    /\ watches' = watches \cup {op.pid}
    /\ override' = TRUE
    /\ op' = Idle
    /\ UNCHANGED <<childVars, games, lastApplied, bootConsumed, diskVars,
                   bootSet, pendingVars>>

-----------------------------------------------------------------------------
(***************************************************************************)
(* Streaming children: begin_child, finish_child and the child itself.     *)
(***************************************************************************)
BeginChild ==
    /\ op = Idle
    /\ ~ChildRuns
    /\ generation < MaxChildren
    /\ \/ /\ StopEngine
          /\ generation' = generation + 1
          /\ child' = generation'
          /\ alive' = alive \cup {generation'}
          /\ unfinished' = unfinished \cup {generation'}
          /\ UNCHANGED resuming
       \/ /\ StopEngine      \* SpawnFailed; counted so that it is bounded too
          /\ "fail" \in Faults
          /\ generation' = generation + 1
          /\ resuming' = IF DeepSleep THEN resuming ELSE resuming + 1
          /\ UNCHANGED <<child, alive, unfinished>>
       \/ StopTimesOut /\ UNCHANGED <<childVars, resuming>>
    /\ UNCHANGED <<gameVars, games, lastApplied, bootConsumed, diskVars,
                   bootSet, op, clearing>>

\* The process ends, by itself or killed, with some GPU where its search was.
ChildExits(n) ==
    /\ n \in alive
    /\ alive' = alive \ {n}
    /\ \E g \in Gpus : hw' \in {hw, [hw EXCEPT ![g] = Dirty]}
    /\ UNCHANGED <<thread, slot, child, generation, unfinished, gameVars, games,
                   lastApplied, bootConsumed, diskVars, bootSet, op, pendingVars>>

\* Mutant: the monitor of an earlier child clears the slot of a later one.
BugFinishChild(n) ==
    /\ op = Idle
    /\ n \in unfinished \ alive
    /\ unfinished' = unfinished \ {n}
    /\ child' = 0
    /\ resuming' = IF DeepSleep THEN resuming ELSE resuming + 1
    /\ UNCHANGED <<engineVars, generation, alive, gameVars, games, lastApplied,
                   bootConsumed, diskVars, bootSet, op, clearing>>

\* Mutant: a child that was stopped or failed is not followed by an autostart.
BugFinishChildQuietly(n) ==
    /\ op = Idle
    /\ n \in unfinished \ alive
    /\ unfinished' = unfinished \ {n}
    /\ child' = IF child = n THEN 0 ELSE child
    /\ UNCHANGED <<engineVars, generation, alive, gameVars, games, lastApplied,
                   bootConsumed, diskVars, bootSet, op, pendingVars>>

FinishChild(n) ==
    /\ op = Idle
    /\ n \in unfinished \ alive
    /\ unfinished' = unfinished \ {n}
    /\ child' = IF child = n THEN 0 ELSE child
    /\ resuming' = IF child = n /\ ~DeepSleep THEN resuming + 1 ELSE resuming
    /\ UNCHANGED <<engineVars, generation, alive, gameVars, games, lastApplied,
                   bootConsumed, diskVars, bootSet, op, clearing>>

-----------------------------------------------------------------------------
(***************************************************************************)
(* stop_runtime_profile, in two steps: the file goes after the mutex.      *)
(***************************************************************************)
StopRuntimeProfile ==
    /\ op = Idle
    /\ clearing < MaxClears
    /\ bootConsumed' = TRUE
    /\ \/ /\ \/ EngineRuns /\ StopEngine
             \/ ~EngineRuns /\ UNCHANGED engineVars
          /\ standing' = IF watches = {} THEN standing ELSE None
          /\ override' = IF watches = {} THEN override ELSE FALSE
          /\ clearing' = clearing + 1
       \/ StopTimesOut /\ UNCHANGED <<standing, override, clearing>>
    /\ UNCHANGED <<childVars, watches, restore, games, lastApplied, diskVars,
                   bootSet, op, resuming>>

ClearActiveRuntime ==
    /\ clearing > 0
    /\ clearing' = clearing - 1
    /\ activeFile' = None
    /\ UNCHANGED <<engineVars, childVars, gameVars, games, lastApplied,
                   bootConsumed, historyFile, bootSet, op, resuming>>

\* park_runtime_for_deep_sleep keeps the persisted intent.
ParkRuntime ==
    /\ DeepSleep
    /\ op = Idle
    /\ watches = {}
    /\ EngineRuns
    /\ StopEngine \/ StopTimesOut
    /\ UNCHANGED <<childVars, gameVars, games, lastApplied, bootConsumed,
                   diskVars, bootSet, op, pendingVars>>

-----------------------------------------------------------------------------
(***************************************************************************)
(* start_autostart_if_configured.                                          *)
(***************************************************************************)
\* entry(uuid).or_insert(spec), for the specs whose GPU resolves.
OrInsert(cache, specOf) ==
    [g \in Gpus |-> IF cache[g] # None \/ g \notin Present THEN cache[g] ELSE specOf[g]]

BootSpecs == [g \in Gpus |-> IF g \in SavedGpus(bootSet.specs) THEN SpecOf(bootSet, g)
                             ELSE None]

Newest(gpus) ==
    CHOOSE g \in gpus : \A h \in gpus :
        Position(bootSet.specs, h) <= Position(bootSet.specs, g)

SelectedOrNewest(gpus) == IF bootSet.active \in gpus THEN bootSet.active ELSE Newest(gpus)

\* The GPU that gets the engine; on a machine that may sleep it is one with
\* something to apply, which is also the one the watcher looks at.
BootActive ==
    LET available == SavedGpus(bootSet.specs) \cap Present
        tunable == {g \in available : ~IsStock(SpecOf(bootSet, g))}
    IN  IF available = {} THEN bootSet.active
        ELSE SelectedOrNewest(IF DeepSleep /\ tunable # {} THEN tunable ELSE available)

\* The saved specs with the active one last.
BootOrder == Append(Without(bootSet.specs, BootActive), SpecOf(bootSet, BootActive))

RecoversSession == activeFile # None /\ activeFile.gpu \in Present

\* Mutant: the boot set, where there is one, goes before the session.
BugAutostartPlan ==
    IF bootSet.specs # <<>> THEN [kind |-> "boot", pc |-> "apply", todo |-> BootOrder]
    ELSE IF RecoversSession THEN [kind |-> "recover", pc |-> "apply", spec |-> activeFile]
    ELSE Idle

AutostartPlan ==
    IF RecoversSession THEN [kind |-> "recover", pc |-> "apply", spec |-> activeFile]
    ELSE IF bootSet.specs = <<>> THEN Idle
    ELSE [kind |-> "boot", pc |-> "apply", todo |-> BootOrder]

StartAutostart ==
    /\ IF slot # None \/ ChildRuns
       THEN /\ op' = Idle
            /\ UNCHANGED <<lastApplied, bootConsumed>>
       ELSE /\ lastApplied' = OrInsert(lastApplied, historyFile)
            /\ bootConsumed' = (bootConsumed \/ activeFile # None \/ bootSet.specs # <<>>)
            /\ op' = AutostartPlan
    /\ UNCHANGED <<engineVars, childVars, gameVars, games, diskVars, bootSet, clearing>>

StartupAutostart ==
    /\ op # Idle /\ op.kind = "startup"
    /\ StartAutostart
    /\ UNCHANGED resuming

\* The attempt after a child, and the watcher's.
ResumeAutostart ==
    /\ op = Idle
    /\ resuming > 0
    /\ resuming' = resuming - 1
    /\ StartAutostart

BootHasWork == \E g \in SavedGpus(bootSet.specs) \cap Present : ~IsStock(SpecOf(bootSet, g))

\* Mutant: only a boot set that has not been replayed is worth a wake.
BugWakeable == ~bootConsumed /\ BootHasWork

\* deferred_runtime_wakeable: the spec persisted for the GPU that the watcher
\* looks at, the session's if it is there, has something to replay.
Wakeable ==
    IF RecoversSession THEN ~IsStock(activeFile) ELSE ~bootConsumed /\ BootHasWork

\* The deep-sleep watcher finds the GPU in use and its runtime deferred; what
\* it read may have changed when it gets the mutex.
WatcherDecidesStart ==
    /\ DeepSleep
    /\ ~ChildRuns /\ slot = None
    /\ Wakeable
    /\ resuming = 0
    /\ resuming' = 1
    /\ UNCHANGED <<engineVars, childVars, gameVars, games, lastApplied,
                   bootConsumed, diskVars, bootSet, op, clearing>>

Recovering(pc) == op # Idle /\ op.kind = "recover" /\ op.pc = pc

RecoverEnds ==
    /\ op' = Idle
    /\ UNCHANGED <<childVars, games, bootConsumed, historyFile, bootSet, pendingVars>>

\* An engine that autostart leaves running is the session's intent from then on.
Recovered(spec) ==
    /\ StartOk(spec)
    /\ BecomesStanding(spec)
    /\ activeFile' = spec

RecoverActiveSession ==
    /\ Recovering("apply")
    /\ \/ /\ Recovered(op.spec)
          /\ lastApplied' = OrInsert([lastApplied EXCEPT ![op.spec.gpu] = op.spec], BootSpecs)
       \/ /\ StartWedges(op.spec) \/ (StartFails(op.spec) /\ IsStock(op.spec))
          /\ lastApplied' = OrInsert(lastApplied, BootSpecs)
          /\ UNCHANGED <<gameVars, activeFile>>
    /\ RecoverEnds

RecoverFails ==
    /\ Recovering("apply")
    /\ ~IsStock(op.spec)
    /\ StartFails(op.spec)
    /\ op' = [op EXCEPT !.pc = "stock"]
    /\ UNCHANGED <<childVars, gameVars, games, lastApplied, bootConsumed,
                   diskVars, bootSet, pendingVars>>

RecoverWithStock ==
    /\ Recovering("stock")
    /\ LET fallback == StockFallback(op.spec)
       IN  \/ /\ Recovered(fallback)
              /\ lastApplied' = OrInsert([lastApplied EXCEPT ![fallback.gpu] = fallback], BootSpecs)
           \/ /\ StartWedges(fallback) \/ StartFails(fallback)
              /\ lastApplied' = OrInsert(lastApplied, BootSpecs)
              /\ UNCHANGED <<gameVars, activeFile>>
    /\ RecoverEnds

Replaying(gpus) == op # Idle /\ op.kind = "boot" /\ Head(op.todo).gpu \in gpus

\* The spec at hand: the saved one, or the stock fallback after it failed.
ReplaySpec == IF op.pc = "stock" THEN StockFallback(Head(op.todo)) ELSE Head(op.todo)

ReplayNext ==
    op' = IF Len(op.todo) = 1 THEN Idle
          ELSE [op EXCEPT !.pc = "apply", !.todo = Tail(@)]

\* A saved GPU that is not detected.
ReplaySkipsAbsent ==
    /\ Replaying(Gpus \ Present)
    /\ ReplayNext
    /\ UNCHANGED <<engineVars, childVars, gameVars, games, lastApplied, bootConsumed,
                   diskVars, bootSet, pendingVars>>

\* A stock entry is recorded without opening a GPU that may sleep.
SkipsStock == DeepSleep /\ op.pc = "apply" /\ IsStock(Head(op.todo))

ReplaySkipsStock ==
    /\ Replaying(Present)
    /\ SkipsStock
    /\ lastApplied' = [lastApplied EXCEPT ![Head(op.todo).gpu] = Head(op.todo)]
    /\ ReplayNext
    /\ UNCHANGED <<engineVars, childVars, gameVars, games, bootConsumed,
                   diskVars, bootSet, pendingVars>>

\* Mutant: each spec is recorded as the session's as it is replayed.
BugReplayPersists ==
    /\ Replaying(Present)
    /\ ~SkipsStock
    /\ Len(op.todo) > 1
    /\ ApplyAndStop(ReplaySpec)
    /\ lastApplied' = [lastApplied EXCEPT ![ReplaySpec.gpu] = ReplaySpec]
    /\ activeFile' = ReplaySpec
    /\ ReplayNext
    /\ UNCHANGED <<childVars, gameVars, games, bootConsumed, historyFile, bootSet,
                   pendingVars>>

ReplayInactive ==
    /\ Replaying(Present)
    /\ ~SkipsStock
    /\ Len(op.todo) > 1
    /\ \/ /\ ApplyAndStop(ReplaySpec)
          /\ lastApplied' = [lastApplied EXCEPT ![ReplaySpec.gpu] = ReplaySpec]
          /\ ReplayNext
       \/ /\ ApplyAndStick(ReplaySpec) \/ StartWedges(ReplaySpec)
          /\ op' = Idle
          /\ UNCHANGED lastApplied
    /\ UNCHANGED <<childVars, gameVars, games, bootConsumed, diskVars, bootSet,
                   pendingVars>>

ReplayActive ==
    /\ Replaying(Present)
    /\ ~SkipsStock
    /\ Len(op.todo) = 1
    /\ \/ /\ Recovered(ReplaySpec)
          /\ lastApplied' = [lastApplied EXCEPT ![ReplaySpec.gpu] = ReplaySpec]
       \/ /\ StartWedges(ReplaySpec)
          /\ UNCHANGED <<gameVars, activeFile, lastApplied>>
    /\ RecoverEnds

ReplayFails ==
    /\ Replaying(Present)
    /\ ~SkipsStock
    /\ StartFails(ReplaySpec)
    /\ IF IsStock(ReplaySpec) THEN ReplayNext ELSE op' = [op EXCEPT !.pc = "stock"]
    /\ UNCHANGED <<childVars, gameVars, games, lastApplied, bootConsumed,
                   diskVars, bootSet, pendingVars>>

-----------------------------------------------------------------------------
(***************************************************************************)
(* The daemon dies at any step and systemd starts it again; a reboot also  *)
(* empties /run and resets the GPUs.  Dying amid an apply is StartFails,   *)
(* which may leave the GPU Dirty, followed by DaemonRestarts.              *)
(***************************************************************************)
ForgetsMemory ==
    /\ thread' = [i \in Engines |-> "off"]
    /\ slot' = None
    /\ child' = 0 /\ generation' = 0 /\ alive' = {} /\ unfinished' = {}
    /\ watches' = {} /\ standing' = None /\ restore' = None /\ override' = FALSE
    /\ lastApplied' = NothingApplied
    /\ bootConsumed' = FALSE
    /\ op' = Starting
    /\ clearing' = 0
    /\ resuming' = 0
    /\ UNCHANGED bootSet

DaemonRestarts == ForgetsMemory /\ UNCHANGED <<hw, games, diskVars>>

MachineReboots ==
    /\ ForgetsMemory
    /\ hw' = [g \in Gpus |-> Stock]
    /\ games' = {}
    /\ activeFile' = None
    /\ historyFile' = NothingApplied

-----------------------------------------------------------------------------
\* The rest of the handler that holds the mutex.
HolderStep ==
    \/ StartupAutostart
    \/ ApplyStarts \/ RequestedFails \/ RestoreFailedTarget
    \/ RestorePrevious \/ FallBackToStock
    \/ RefuseGame \/ BeginGame \/ GameStarts
    \/ RestoreGameTarget \/ RestoreStanding
    \/ RecoverActiveSession \/ RecoverFails \/ RecoverWithStock
    \/ ReplaySkipsAbsent \/ ReplaySkipsStock \/ ReplayInactive \/ ReplayActive \/ ReplayFails

\* Requests of clients and launch wrappers, and processes coming and going.
Request ==
    \/ \E spec \in StandingSpecs : BeginApply(spec)
    \/ \E p \in Pids : GameLaunches(p) \/ GameExits(p)
    \/ \E spec \in GameSpecs, p \in Pids : RequestGame(spec, p)
    \/ BeginChild
    \/ StopRuntimeProfile

\* Threads of the daemon and its engines.
Background ==
    \/ \E i \in Engines : EngineExits(i)
    \/ ReapGameWatches
    \/ \E n \in 1..MaxChildren : ChildExits(n) \/ FinishChild(n)
    \/ ClearActiveRuntime
    \/ ResumeAutostart \/ WatcherDecidesStart \/ ParkRuntime

Crash == DaemonRestarts \/ MachineReboots

Next == HolderStep \/ Request \/ Background \/ Crash

Spec == Init /\ [][Next]_vars

(***************************************************************************)
(* Progress.  The mutex holder always goes on: every engine call it makes  *)
(* is bounded by a timeout.  A thread that waits for the mutex gets it     *)
(* again and again between requests, hence strong fairness; children are   *)
(* killed by their monitor in the end, and wedged calls return.  Nothing   *)
(* is promised about games exiting, requests or crashes, and a daemon that *)
(* keeps crashing promises nothing: LiveSpec leaves crashes out.           *)
(***************************************************************************)
Scheduled ==
    /\ WF_vars(HolderStep)
    /\ SF_vars(ReapGameWatches)
    /\ SF_vars(ResumeAutostart)
    /\ SF_vars(WatcherDecidesStart)
    /\ WF_vars(ClearActiveRuntime)
    /\ \A n \in 1..MaxChildren : WF_vars(ChildExits(n)) /\ SF_vars(FinishChild(n))
    /\ \A i \in Engines : WF_vars(thread[i] = "wedged" /\ EngineExits(i))

LiveSpec == Init /\ [][HolderStep \/ Request \/ Background]_vars /\ Scheduled

-----------------------------------------------------------------------------
LiveEngines == {i \in Engines : thread[i] # "off"}

\* Two writers on one GPU are the worst this daemon can do: whatever handlers,
\* timeouts, late exits and crashes do, at most one engine thread or child
\* process is alive, wedged ones included.
OneWriter == Cardinality(LiveEngines) + Cardinality(alive) <= 1

\* A running scan or verification is never dropped from the child slot, not
\* even by the late finish_child of an earlier one: from then on stop requests
\* would miss it and a second child could start.
ChildKept == alive \subseteq {child}

\* A profile that runs while no game overrides it is the one that is recovered
\* after a child or a crash.  (Either may be Stock instead: what a failed apply
\* fell back to is not always what runs, and not always what is persisted.)
PersistedIntent ==
    op = Idle /\ ~override /\ EngineRuns /\ thread[slot.id] = "running"
      /\ activeFile # None /\ ~IsStock(slot.spec) /\ ~IsStock(activeFile)
        => activeFile = slot.spec

\* Under a game override the standing profile in memory and the one on disk
\* never are two different profiles, whichever of them a session goes on with,
\* on the game's exit or after a crash.  (Either may be Stock, as above.)
StandingSurvives ==
    override /\ standing # None /\ activeFile # None
      /\ ~IsStock(standing) /\ ~IsStock(activeFile) => standing = activeFile

\* start_game_runtime_profile: a game preset must not drop the fan curve of the
\* session's profile on its GPU, not even by way of a Stock override in between.
FanKept ==
    override /\ standing # None /\ standing.fan /\ standing = activeFile
      /\ EngineRuns /\ thread[slot.id] = "running" /\ slot.spec.gpu = standing.gpu
      /\ ~IsStock(slot.spec) => slot.spec.fan

OnlyGamesUse(profile) ==
    /\ profile # Stock
    /\ \E spec \in GameSpecs : spec.profile = profile
    /\ \A spec \in StandingSpecs : spec.profile # profile

\* start_game_runtime_profile: a per-game profile is applied "without replacing
\* the persisted standing action".  Neither it nor a failed apply that rolls
\* back to it while the game runs makes it what a crash, a child or a later
\* rollback brings back.
GamesStayTemporary ==
    /\ activeFile # None => ~OnlyGamesUse(activeFile.profile)
    /\ \A cache \in {lastApplied, historyFile}, g \in Gpus :
           cache[g] # None => ~OnlyGamesUse(cache[g].profile)

\* steam.md: when the wrapped session ends, the standing profile is restored;
\* on another GPU than the standing one, that GPU's saved state or stock.
GamesLeaveNothing ==
    op = Idle /\ watches = {} /\ child = 0 /\ resuming = 0
        => \A g \in Gpus : ~OnlyGamesUse(hw[g])

\* The monitor restores the standing spec of a game that ended, unless the
\* user changes the session's intent, or a child or another game gets the GPU.
GameEndsRestores ==
    \A s \in StandingSpecs :
        override /\ standing = s /\ activeFile = s /\ watches \cap games = {}
          ~> \/ EngineRuns /\ slot.spec = s
             \/ activeFile # s \/ ChildRuns \/ games # {}

\* finish_child: the session's intent is taken up again after a child, after a
\* park too, unless it changes or another child gets the GPU.
IntentRuns ==
    \A s \in StandingSpecs :
        activeFile = s /\ ~IsStock(s) /\ slot = None
          ~> slot # None \/ activeFile # s \/ ChildRuns

\* Wherever the daemon is killed during the replay of the boot set, each GPU is
\* at its saved profile once a session has begun, or where a killed child left
\* it: the active spec, whose record stops a later replay, comes last.
BootSetApplied ==
    op = Idle /\ bootConsumed =>
        \A g \in SavedGpus(bootSet.specs) \cap Present :
            hw[g] \in {SpecOf(bootSet, g).profile, Dirty}

\* BOOT_RUNTIME_CONSUMED: the boot set applies at most once per daemon life.
BootAppliesOnce ==
    [][op = Idle /\ op' # Idle /\ op'.kind = "boot" => ~bootConsumed]_vars
=============================================================================
