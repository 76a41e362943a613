------------------------- MODULE Supervisor_proofs -------------------------
(***************************************************************************)
(* For any GPUs, specs, boot sets, processes and number of children: the   *)
(* state of the daemon is well formed, and one engine or one child at most *)
(* can write to a GPU, whatever wedges, fails or crashes.  Where engines   *)
(* stop when told: a game's profile stays temporary, what runs and what it *)
(* hides are what is persisted, and it keeps the session's fan curve.      *)
(* With clients that leave the daemon alone: a boot set takes effect, once *)
(* and whole, and games leave nothing of theirs behind.                    *)
(***************************************************************************)
EXTENDS MCSupervisor, FiniteSetTheorems, SequenceTheorems, WellFoundedInduction, TLAPS

USE BootSetAssumption, SupervisorAssumption

(***************************************************************************)
(* The inductive invariant, part by part.  That there is one writer is not *)
(* inductive: a live engine must also be the one in the slot, where the    *)
(* next handler finds and stops it, a live child the one in its slot, and  *)
(* a handler between two engine calls must have neither beside it.         *)
(***************************************************************************)
EnginesInv ==
    /\ thread \in [Engines -> {"off", "running", "wedged"}]
    /\ slot \in [id : Engines, spec : RuntimeSpec] \cup {None}
    /\ hw \in [Gpus -> Profiles \cup {Dirty}]
    /\ \A i \in Engines : thread[i] # "off" => slot # None /\ slot.id = i

ChildrenInv ==
    /\ generation \in 0..MaxChildren
    /\ child \in 0..generation
    /\ alive \subseteq 1..generation
    /\ unfinished \subseteq 1..generation
    /\ ChildKept

GamesInv ==
    /\ watches \subseteq Pids
    /\ games \subseteq Pids
    /\ standing \in MaybeSpec
    /\ restore \in MaybeSpec
    /\ override \in BOOLEAN

RecordsInv ==
    /\ lastApplied \in [Gpus -> MaybeSpec]
    /\ bootConsumed \in BOOLEAN
    /\ activeFile \in MaybeSpec
    /\ historyFile \in [Gpus -> MaybeSpec]
    /\ bootSet \in BootSets
    /\ Validate(bootSet)

PendingInv ==
    /\ clearing \in 0..MaxClears
    /\ resuming \in Nat
    /\ IF DeepSleep THEN resuming <= 1
       ELSE resuming + (IF child = 0 THEN 0 ELSE 1) <= generation

AllOff == \A i \in Engines : thread[i] = "off"

Exclusive == alive # {} => AllOff

\* What a continuation is about to apply is there.
Prepared ==
    /\ InRollback("target") => op.rb.target # None
    /\ InRollback("previous") => op.rb.previous # None
    /\ op # Idle /\ op.kind = "restore" => /\ op.pc = "target" => op.target # None
                                           /\ op.pc = "standing" => op.standing # None

HolderInv ==
    /\ op \in Ops
    /\ Prepared
    /\ op # Idle /\ op.kind # "decide" => slot = None /\ alive = {}

IInv ==
    /\ EnginesInv
    /\ ChildrenInv
    /\ GamesInv
    /\ RecordsInv
    /\ PendingInv
    /\ Exclusive
    /\ HolderInv

-----------------------------------------------------------------------------
(***************************************************************************)
(* Specs.                                                                  *)
(***************************************************************************)
LEMMA StockFallbackType ==
    ASSUME NEW spec \in RuntimeSpec
    PROVE  StockFallback(spec) \in RuntimeSpec
BY DEF StockFallback, RuntimeSpec

LEMMA SpecGpu ==
    ASSUME NEW spec \in RuntimeSpec
    PROVE  spec.gpu \in Gpus /\ spec.profile \in Profiles /\ spec # None
BY DEF RuntimeSpec

\* Position finds the spec of a saved GPU.
LEMMA PositionFinds ==
    ASSUME NEW specs \in Seq(RuntimeSpec), NEW g \in SavedGpus(specs)
    PROVE  /\ Position(specs, g) \in 1..Len(specs)
           /\ specs[Position(specs, g)].gpu = g
<1>1. \E i \in 1..Len(specs) : specs[i].gpu = g
  BY DEF SavedGpus
<1> QED BY <1>1 DEF Position

\* Without its GPU's spec a list of specs is what it was, one place on from there.
LEMMA WithoutIs ==
    ASSUME NEW specs \in Seq(RuntimeSpec), NEW g \in SavedGpus(specs)
    PROVE  /\ Without(specs, g) \in Seq(RuntimeSpec)
           /\ Len(Without(specs, g)) = Len(specs) - 1
           /\ \A i \in 1..(Len(specs) - 1) :
                 Without(specs, g)[i] = specs[IF i < Position(specs, g) THEN i ELSE i + 1]
<1> DEFINE n == Len(specs)
           k == Position(specs, g)
           low == SubSeq(specs, 1, k - 1)
           high == SubSeq(specs, k + 1, n)
<1>1. k \in 1..n /\ n \in Nat /\ \A i \in 1..n : specs[i] \in RuntimeSpec
  BY PositionFinds
<1>2. Without(specs, g) = low \o high
  BY DEF Without, RemoveAt
<1>3. /\ low \in Seq(RuntimeSpec) /\ Len(low) = k - 1
      /\ \A i \in 1..(k - 1) : low[i] = specs[i]
  <2>1. \A i \in 1..(k - 1) : specs[i] \in RuntimeSpec
    BY <1>1
  <2> HIDE DEF k
  <2> QED BY <1>1, <2>1, SubSeqProperties
<1>4. /\ high \in Seq(RuntimeSpec) /\ Len(high) = n - k
      /\ \A i \in 1..(n - k) : high[i] = specs[k + i]
  <2>1. \A i \in (k + 1)..n : specs[i] \in RuntimeSpec
    BY <1>1
  <2> HIDE DEF k
  <2> QED BY <1>1, <2>1, SubSeqProperties
<1> HIDE DEF k, low, high
<1>5. /\ low \o high \in Seq(RuntimeSpec) /\ Len(low \o high) = n - 1
      /\ \A i \in 1..(n - 1) : (low \o high)[i] = IF i < k THEN low[i] ELSE high[i - (k - 1)]
  BY <1>1, <1>3, <1>4, ConcatProperties
<1>6. ASSUME NEW i \in 1..(n - 1)
      PROVE  (low \o high)[i] = specs[IF i < k THEN i ELSE i + 1]
  <2>1. CASE i < k
    BY <1>1, <1>3, <1>5, <2>1
  <2>2. CASE ~(i < k)
    <3>1. i - (k - 1) \in 1..(n - k) /\ k + (i - (k - 1)) = i + 1
      BY <1>1, <2>2
    <3> QED BY <1>4, <1>5, <2>2, <3>1
  <2> QED BY <2>1, <2>2
<1> QED BY <1>2, <1>5, <1>6 DEF k

\* It holds nothing new, and still all the others.
LEMMA WithoutAddsNone ==
    ASSUME NEW specs \in Seq(RuntimeSpec), NEW g
    PROVE  /\ Without(specs, g) \in Seq(RuntimeSpec)
           /\ \A i \in 1..Len(Without(specs, g)) :
                 \E j \in 1..Len(specs) : Without(specs, g)[i] = specs[j]
<1>1. CASE g \notin SavedGpus(specs)
  BY <1>1 DEF Without
<1>2. CASE g \in SavedGpus(specs)
  BY <1>2, WithoutIs
<1> QED BY <1>1, <1>2

LEMMA WithoutKeepsOthers ==
    ASSUME NEW specs \in Seq(RuntimeSpec), NEW g \in SavedGpus(specs),
           NEW j \in 1..Len(specs), specs[j].gpu # g
    PROVE  \E i \in 1..Len(Without(specs, g)) : Without(specs, g)[i] = specs[j]
<1> DEFINE k == Position(specs, g)
           i == IF j < k THEN j ELSE j - 1
<1>1. k \in 1..Len(specs) /\ specs[k].gpu = g /\ Len(specs) \in Nat
  BY PositionFinds
<1> HIDE DEF k
<1>2. i \in 1..(Len(specs) - 1) /\ (IF i < k THEN i ELSE i + 1) = j
  BY <1>1
<1> QED BY <1>2, WithoutIs DEF k

LEMMA OrInsertType ==
    ASSUME NEW cache \in [Gpus -> MaybeSpec], NEW specOf \in [Gpus -> MaybeSpec]
    PROVE  OrInsert(cache, specOf) \in [Gpus -> MaybeSpec]
BY DEF OrInsert

\* The saved spec of a GPU is one.
LEMMA SpecOfType ==
    ASSUME NEW set \in BootSets, NEW g \in SavedGpus(set.specs)
    PROVE  SpecOf(set, g) \in RuntimeSpec /\ SpecOf(set, g).gpu = g
<1>1. set.specs \in Seq(RuntimeSpec)
  BY DEF BootSets
<1> QED BY <1>1, PositionFinds DEF SpecOf

LEMMA BootSpecsType ==
    ASSUME bootSet \in BootSets
    PROVE  BootSpecs \in [Gpus -> MaybeSpec]
BY SpecOfType DEF BootSpecs, MaybeSpec

\* Among saved GPUs there is a newest.
LEMMA NewestSaved ==
    ASSUME bootSet \in BootSets,
           NEW gpus \in SUBSET SavedGpus(bootSet.specs), gpus # {}
    PROVE  Newest(gpus) \in gpus
<1> DEFINE n == Len(bootSet.specs)
           age(g) == n - Position(bootSet.specs, g)
           ages == {age(g) : g \in gpus}
<1>1. bootSet.specs \in Seq(RuntimeSpec) /\ n \in Nat
  BY DEF BootSets
<1>2. \A g \in gpus : Position(bootSet.specs, g) \in 1..n /\ age(g) \in Nat
  BY <1>1, PositionFinds
<1>3. ages \subseteq Nat /\ ages # {}
  BY <1>2
<1>4. PICK a \in ages : \A b \in ages : ~ (<<b, a>> \in OpToRel(<, Nat))
  BY <1>3, NatLessThanWellFounded, WFMin
<1>5. \A b \in ages : a <= b
  <2> HIDE DEF ages
  <2>1. \A b \in ages : b < a => <<b, a>> \in OpToRel(<, Nat)
    BY <1>3 DEF OpToRel
  <2>2. \A b \in ages : ~ (b < a)
    BY <1>4, <2>1
  <2> QED
    BY <1>3, <2>2
<1>6. PICK g \in gpus : a = age(g)
  OBVIOUS
<1>7. \A h \in gpus : Position(bootSet.specs, h) <= Position(bootSet.specs, g)
  <2> SUFFICES ASSUME NEW h \in gpus
               PROVE  Position(bootSet.specs, h) <= Position(bootSet.specs, g)
    OBVIOUS
  <2>1. age(g) <= age(h)
    BY <1>5, <1>6
  <2> QED
    BY <1>1, <1>2, <2>1
<1> QED
  BY <1>6, <1>7 DEF Newest

LEMMA BootActiveSaved ==
    ASSUME bootSet \in BootSets, Validate(bootSet), bootSet.specs # <<>>
    PROVE  BootActive \in SavedGpus(bootSet.specs)
<1> DEFINE available == SavedGpus(bootSet.specs) \cap Present
           tunable == {g \in available : ~IsStock(SpecOf(bootSet, g))}
           candidates == IF DeepSleep /\ tunable # {} THEN tunable ELSE available
<1>1. CASE available = {}
  BY <1>1 DEF BootActive, Validate
<1>2. CASE available # {}
  <2>1. candidates \in SUBSET SavedGpus(bootSet.specs) /\ candidates # {}
    BY <1>2
  <2>2. Newest(candidates) \in candidates
    BY <2>1, NewestSaved
  <2>3. BootActive = SelectedOrNewest(candidates)
    BY <1>2 DEF BootActive
  <2> HIDE DEF candidates
  <2> QED
    BY <2>1, <2>2, <2>3 DEF SelectedOrNewest
<1> QED
  BY <1>1, <1>2

LEMMA BootOrderType ==
    ASSUME bootSet \in BootSets, Validate(bootSet), bootSet.specs # <<>>
    PROVE  BootOrder \in Seq(RuntimeSpec) \ {<<>>}
<1>1. bootSet.specs \in Seq(RuntimeSpec)
  BY DEF BootSets
<1>2. Without(bootSet.specs, BootActive) \in Seq(RuntimeSpec)
  BY <1>1, WithoutAddsNone
<1>3. SpecOf(bootSet, BootActive) \in RuntimeSpec
  BY BootActiveSaved, SpecOfType
<1> QED
  BY <1>2, <1>3, AppendProperties DEF BootOrder

-----------------------------------------------------------------------------
(***************************************************************************)
(* Engine calls, made with nothing in the slot.                            *)
(***************************************************************************)
LEMMA SlotEmptyAllOff ==
    ASSUME EnginesInv, slot = None
    PROVE  AllOff
BY DEF EnginesInv, AllOff

LEMMA FreeEngineExists ==
    ASSUME EnginesInv, slot = None
    PROVE  FreeEngine \in Engines /\ thread[FreeEngine] = "off"
BY SlotEmptyAllOff DEF AllOff, FreeEngine

\* A start leaves an engine alive only in the slot.
LEMMA EngineCalls ==
    ASSUME EnginesInv, slot = None, NEW spec \in RuntimeSpec,
           \/ StartOk(spec) \/ StartFails(spec) \/ StartWedges(spec)
           \/ ApplyAndStop(spec) \/ ApplyAndStick(spec)
    PROVE  EnginesInv'
<1>1. FreeEngine \in Engines /\ AllOff
  BY FreeEngineExists, SlotEmptyAllOff
<1>2. spec.gpu \in Gpus /\ spec.profile \in Profiles
  BY SpecGpu
<1>3. CASE StartOk(spec)
  BY <1>1, <1>2, <1>3 DEF StartOk, EnginesInv, AllOff
<1>4. CASE StartFails(spec)
  BY <1>2, <1>4 DEF StartFails, EnginesInv
<1>5. CASE StartWedges(spec)
  BY <1>1, <1>2, <1>5 DEF StartWedges, EnginesInv, AllOff
<1>6. CASE ApplyAndStop(spec)
  BY <1>2, <1>6 DEF ApplyAndStop, EnginesInv
<1>7. CASE ApplyAndStick(spec)
  BY <1>1, <1>2, <1>7 DEF ApplyAndStick, EnginesInv, AllOff
<1> QED
  BY <1>3, <1>4, <1>5, <1>6, <1>7

LEMMA EmptiesSlot ==
    ASSUME slot = None, NEW spec, StartFails(spec) \/ ApplyAndStop(spec)
    PROVE  slot' = None
BY DEF StartFails, ApplyAndStop

\* A stop that succeeds frees the GPUs; one that does not keeps the engine in
\* the slot.
LEMMA StopCalls ==
    ASSUME EnginesInv
    PROVE  /\ StopEngine => EnginesInv' /\ slot' = None
           /\ StopTimesOut => EnginesInv' /\ slot' = slot /\ ~AllOff
<1>1. StopEngine => EnginesInv' /\ slot' = None
  BY DEF EnginesInv, StopEngine
<1>2. StopTimesOut => EnginesInv' /\ slot' = slot
  BY DEF EnginesInv, StopTimesOut, EngineRuns
<1>3. StopTimesOut => ~AllOff
  BY DEF EnginesInv, StopTimesOut, EngineRuns, AllOff
<1> QED
  BY <1>1, <1>2, <1>3

LEMMA SlotSpecType ==
    ASSUME EnginesInv
    PROVE  /\ SlotSpec \in MaybeSpec
           /\ slot # None => slot.spec \in RuntimeSpec /\ SlotSpec # None
BY DEF EnginesInv, SlotSpec, MaybeSpec

\* With no child in its slot running, none runs.
LEMMA NoChild ==
    ASSUME ChildrenInv, ~ChildRuns
    PROVE  alive = {}
BY DEF ChildrenInv, ChildKept, ChildRuns

-----------------------------------------------------------------------------
(***************************************************************************)
(* Continuations.                                                          *)
(***************************************************************************)
LEMMA OpKinds ==
    ASSUME op \in Ops, op # Idle
    PROVE  /\ op.kind = "apply" => op \in ApplyOps
           /\ op.kind = "game" => op \in GameOps
           /\ op.kind = "decide" => op \in GameDecisions
           /\ op.kind = "restore" => op \in RestoreOps
           /\ op.kind = "recover" => op \in RecoverOps
           /\ op.kind = "boot" => op \in BootOps
BY DEF Ops, Starting, ApplyOps, GameOps, GameDecisions, RestoreOps, RecoverOps, BootOps

LEMMA RollbackType ==
    ASSUME op \in Ops, op # Idle, op.kind \in {"apply", "game"}
    PROVE  /\ op.rb \in Rollback
           /\ op.rb.spec \in RuntimeSpec
           /\ op.rb.previous \in MaybeSpec /\ op.rb.target \in MaybeSpec
BY OpKinds DEF ApplyOps, GameOps, Rollback

LEMMA RollbackToType ==
    ASSUME op \in Ops, op # Idle, op.kind \in {"apply", "game"},
           NEW pc \in {"start", "target", "previous", "stock"}, RollbackTo(pc)
    PROVE  op' \in Ops
<1>1. CASE op.kind = "apply"
  <2>1. op \in ApplyOps /\ op.rb \in Rollback
    BY <1>1, OpKinds, RollbackType
  <2>2. [op.rb EXCEPT !.pc = pc] \in Rollback
    BY <2>1 DEF Rollback
  <2>3. op' = [op EXCEPT !.rb = [op.rb EXCEPT !.pc = pc]]
    BY DEF RollbackTo
  <2> QED
    BY <2>1, <2>2, <2>3 DEF ApplyOps, Ops
<1>2. CASE op.kind = "game"
  <2>1. op \in GameOps /\ op.rb \in Rollback
    BY <1>2, OpKinds, RollbackType
  <2>2. [op.rb EXCEPT !.pc = pc] \in Rollback
    BY <2>1 DEF Rollback
  <2>3. op' = [op EXCEPT !.rb = [op.rb EXCEPT !.pc = pc]]
    BY DEF RollbackTo
  <2> QED
    BY <2>1, <2>2, <2>3 DEF GameOps, Ops
<1> QED
  BY <1>1, <1>2

LEMMA NewRollbackType ==
    ASSUME EnginesInv, NEW spec \in RuntimeSpec, NEW known \in MaybeSpec
    PROVE  NewRollback(spec, known) \in Rollback
BY SlotSpecType, StockFallbackType DEF NewRollback, Rollback, RollbackTarget, MaybeSpec

-----------------------------------------------------------------------------
(***************************************************************************)
(* What a step leaves alone stays as it was.                               *)
(***************************************************************************)
LEMMA EnginesFrame == EnginesInv /\ UNCHANGED engineVars => EnginesInv'
BY DEF EnginesInv, engineVars

LEMMA ChildrenFrame == ChildrenInv /\ UNCHANGED childVars => ChildrenInv'
BY DEF ChildrenInv, ChildKept, childVars

LEMMA GamesFrame == GamesInv /\ UNCHANGED <<gameVars, games>> => GamesInv'
BY DEF GamesInv, gameVars

LEMMA RecordsFrame ==
    RecordsInv /\ UNCHANGED <<lastApplied, bootConsumed, diskVars, bootSet>> => RecordsInv'
BY DEF RecordsInv, diskVars

LEMMA PendingFrame ==
    PendingInv /\ UNCHANGED <<child, generation, pendingVars>> => PendingInv'
BY DEF PendingInv, pendingVars

\* The handler that holds the mutex and has stopped what ran: its step has
\* only its engine call, its records and its continuation to answer for.
LEMMA HolderFrame ==
    ASSUME IInv, op # Idle, op.kind # "decide", UNCHANGED <<childVars, pendingVars>>,
           EnginesInv', GamesInv', RecordsInv', op' \in Ops,
           Prepared', op' = Idle \/ op'.kind = "decide" \/ slot' = None
    PROVE  IInv'
<1>1. alive' = {}
  BY DEF IInv, HolderInv, childVars
<1>2. ChildrenInv' /\ PendingInv'
  BY ChildrenFrame, PendingFrame DEF IInv, childVars
<1> QED
  BY <1>1, <1>2 DEF IInv, Exclusive, HolderInv

-----------------------------------------------------------------------------
(***************************************************************************)
(* Steps of the handler that holds the mutex.                              *)
(***************************************************************************)
LEMMA BecomesStandingType ==
    ASSUME GamesInv, NEW spec \in RuntimeSpec, BecomesStanding(spec), games' = games
    PROVE  GamesInv'
BY DEF GamesInv, BecomesStanding, MaybeSpec

\* Holding the mutex after the stop.
LEMMA HolderIsFree ==
    ASSUME IInv, op # Idle, op.kind # "decide"
    PROVE  EnginesInv /\ slot = None /\ alive = {} /\ op \in Ops
           /\ GamesInv /\ RecordsInv
BY DEF IInv, HolderInv

LEMMA IdlePrepared ==
    ASSUME op' = Idle \/ op'.kind \notin {"apply", "game", "restore"}
    PROVE  Prepared'
BY DEF Prepared, InRollback

LEMMA RollbackPrepared ==
    ASSUME op \in Ops, op # Idle, op.kind \in {"apply", "game"},
           NEW pc \in {"start", "target", "previous", "stock"}, RollbackTo(pc),
           pc = "target" => op.rb.target # None,
           pc = "previous" => op.rb.previous # None
    PROVE  Prepared'
<1>1. op \in ApplyOps \cup GameOps /\ op.rb \in Rollback
  BY OpKinds, RollbackType
<1>2. /\ op'.kind = op.kind
      /\ op'.rb.pc = pc
      /\ op'.rb.target = op.rb.target
      /\ op'.rb.previous = op.rb.previous
  BY <1>1 DEF RollbackTo, ApplyOps, GameOps, Rollback
<1> QED
  BY <1>2 DEF Prepared, InRollback

LEMMA ApplyStartsKeeps == ASSUME IInv, ApplyStarts PROVE IInv'
<1>1. op # Idle /\ op.kind = "apply" /\ op.rb.spec \in RuntimeSpec
  BY RollbackType, HolderIsFree DEF ApplyStarts
<1>2. EnginesInv'
  BY <1>1, HolderIsFree, EngineCalls DEF ApplyStarts
<1>3. GamesInv'
  BY <1>1, HolderIsFree, BecomesStandingType DEF ApplyStarts
<1>4. RecordsInv'
  BY <1>1, HolderIsFree DEF ApplyStarts, RecordsInv, MaybeSpec, RuntimeSpec
<1> QED
  BY <1>1, <1>2, <1>3, <1>4, IdlePrepared, HolderFrame DEF ApplyStarts, Ops

LEMMA RequestedFailsKeeps == ASSUME IInv, RequestedFails PROVE IInv'
<1>1. op # Idle /\ op.kind \in {"apply", "game"}
  BY DEF RequestedFails, InRollback
<1>2. op.rb.spec \in RuntimeSpec
  BY <1>1, RollbackType, HolderIsFree
<1>3. EnginesInv'
  BY <1>1, <1>2, HolderIsFree, EngineCalls DEF RequestedFails
<1>4. GamesInv' /\ RecordsInv'
  BY <1>1, HolderIsFree, GamesFrame, RecordsFrame DEF RequestedFails
<1>5. op' \in Ops /\ (op' = Idle \/ slot' = None)
  BY <1>1, <1>2, HolderIsFree, RollbackToType, EmptiesSlot
     DEF RequestedFails, AfterTarget, Ops
<1>6. Prepared'
  BY <1>1, HolderIsFree, RollbackPrepared, IdlePrepared DEF RequestedFails, AfterTarget
<1> QED
  BY <1>1, <1>3, <1>4, <1>5, <1>6, HolderFrame DEF RequestedFails

LEMMA RestoreFailedTargetKeeps == ASSUME IInv, RestoreFailedTarget PROVE IInv'
<1>1. op # Idle /\ op.kind \in {"apply", "game"}
  BY DEF RestoreFailedTarget, InRollback
<1>2. op.rb.target \in RuntimeSpec
  BY <1>1, RollbackType, HolderIsFree
     DEF IInv, HolderInv, Prepared, RestoreFailedTarget, MaybeSpec
<1>3. EnginesInv'
  BY <1>1, <1>2, HolderIsFree, EngineCalls DEF RestoreFailedTarget
<1>4. GamesInv'
  BY <1>1, HolderIsFree, GamesFrame DEF RestoreFailedTarget
<1>5. RecordsInv'
  BY <1>1, <1>2, HolderIsFree DEF RestoreFailedTarget, RecordsInv, MaybeSpec, diskVars
<1>6. op' \in Ops /\ (op' = Idle \/ slot' = None)
  BY <1>1, <1>2, HolderIsFree, RollbackToType, EmptiesSlot
     DEF RestoreFailedTarget, AfterTarget, Ops
<1>7. Prepared'
  BY <1>1, HolderIsFree, RollbackPrepared, IdlePrepared
     DEF RestoreFailedTarget, AfterTarget
<1> QED
  BY <1>1, <1>3, <1>4, <1>5, <1>6, <1>7, HolderFrame DEF RestoreFailedTarget

\* The end of a rollback records nothing but specs.
LEMMA RollbackEndsType ==
    ASSUME RecordsInv, NEW recovered \in MaybeSpec, NEW wedged,
           RollbackEnds(recovered, wedged),
           UNCHANGED <<lastApplied, bootConsumed, bootSet>>
    PROVE  RecordsInv' /\ op' = Idle
BY DEF RollbackEnds, RecordsInv, diskVars

LEMMA RestorePreviousKeeps == ASSUME IInv, RestorePrevious PROVE IInv'
<1>1. op # Idle /\ op.kind \in {"apply", "game"}
  BY DEF RestorePrevious, InRollback
<1>2. op.rb.previous \in RuntimeSpec
  BY <1>1, RollbackType, HolderIsFree
     DEF IInv, HolderInv, Prepared, RestorePrevious, MaybeSpec
<1>3. EnginesInv'
  BY <1>1, <1>2, HolderIsFree, EngineCalls DEF RestorePrevious
<1>4. GamesInv'
  BY <1>1, HolderIsFree, GamesFrame DEF RestorePrevious
<1>5. \/ /\ RecordsInv' /\ op' = Idle
      \/ /\ RollbackTo("stock") /\ StartFails(op.rb.previous) /\ UNCHANGED diskVars
  BY <1>1, <1>2, HolderIsFree, RollbackEndsType DEF RestorePrevious, MaybeSpec
<1>6. RecordsInv'
  BY <1>1, <1>5, HolderIsFree, RecordsFrame DEF RestorePrevious
<1>7. op' \in Ops /\ (op' = Idle \/ slot' = None) /\ Prepared'
  BY <1>1, <1>5, HolderIsFree, RollbackToType, RollbackPrepared, IdlePrepared, EmptiesSlot
     DEF Ops
<1> QED
  BY <1>1, <1>3, <1>4, <1>6, <1>7, HolderFrame DEF RestorePrevious

LEMMA FallBackToStockKeeps == ASSUME IInv, FallBackToStock PROVE IInv'
<1> DEFINE fallback == StockFallback(op.rb.spec)
<1>1. op # Idle /\ op.kind \in {"apply", "game"}
  BY DEF FallBackToStock, InRollback
<1>2. fallback \in RuntimeSpec
  BY <1>1, RollbackType, HolderIsFree, StockFallbackType
<1> HIDE DEF fallback
<1>3. EnginesInv'
  BY <1>1, <1>2, HolderIsFree, EngineCalls DEF FallBackToStock, fallback
<1>4. GamesInv'
  BY <1>1, HolderIsFree, GamesFrame DEF FallBackToStock
<1>5. RecordsInv' /\ op' = Idle
  BY <1>1, <1>2, HolderIsFree, RollbackEndsType DEF FallBackToStock, MaybeSpec, fallback
<1> QED
  BY <1>1, <1>3, <1>4, <1>5, IdlePrepared, HolderFrame DEF FallBackToStock, Ops

\* A stop, successful or not, never leaves an engine beside a child.
LEMMA StopKeepsExclusive ==
    ASSUME EnginesInv, Exclusive, alive' = alive, StopEngine \/ StopTimesOut
    PROVE  EnginesInv' /\ Exclusive'
<1>1. CASE StopEngine
  BY <1>1, StopCalls DEF EnginesInv, Exclusive, AllOff
<1>2. CASE StopTimesOut
  BY <1>2, StopCalls DEF Exclusive
<1> QED
  BY <1>1, <1>2

LEMMA ExclusiveFrame == Exclusive /\ UNCHANGED <<engineVars, alive>> => Exclusive'
BY DEF Exclusive, AllOff, engineVars

LEMMA GameRestoreTargetType ==
    ASSUME EnginesInv, GamesInv
    PROVE  GameRestoreTarget \in MaybeSpec
BY SlotSpecType, StockFallbackType DEF GameRestoreTarget, GamesInv, MaybeSpec

LEMMA RestorePlanType ==
    ASSUME EnginesInv, GamesInv, NEW then \in {Idle} \cup GameDecisions,
           op' = RestorePlan(then)
    PROVE  op' \in Ops /\ Prepared'
<1>1. GameRestoreTarget \in MaybeSpec /\ standing \in MaybeSpec
  BY GameRestoreTargetType DEF GamesInv
<1>2. CASE GameRestoreTarget = None /\ standing = None
  <2>1. op' = Idle \/ op'.kind = "decide"
    BY <1>2 DEF RestorePlan, GameDecisions
  <2> QED
    BY <1>2, <2>1, IdlePrepared DEF RestorePlan, Ops
<1>3. CASE ~(GameRestoreTarget = None /\ standing = None)
  <2>1. op' = [kind |-> "restore",
               pc |-> IF GameRestoreTarget # None THEN "target" ELSE "standing",
               target |-> GameRestoreTarget, standing |-> standing, then |-> then]
    BY <1>3 DEF RestorePlan
  <2>2. op' \in RestoreOps
    BY <1>1, <2>1 DEF RestoreOps
  <2>3. Prepared'
    BY <1>3, <2>1 DEF Prepared, InRollback
  <2> QED
    BY <2>2, <2>3 DEF Ops
<1> QED
  BY <1>2, <1>3

\* Reconciling exited games keeps the invariant, whatever follows.
LEMMA RestoreFinishedKeeps ==
    ASSUME IInv, NEW then \in {Idle} \cup GameDecisions, RestoreFinishedGame(then)
    PROVE  IInv'
<1>1. EnginesInv /\ ChildrenInv /\ GamesInv /\ RecordsInv /\ PendingInv /\ Exclusive
  BY DEF IInv
<1>2. /\ UNCHANGED <<childVars, games, lastApplied, bootConsumed, diskVars, bootSet,
                     pendingVars>>
      /\ UNCHANGED <<alive, child, generation>>
  BY DEF RestoreFinishedGame, childVars
<1>3. ChildrenInv' /\ RecordsInv' /\ PendingInv'
  BY <1>1, <1>2, ChildrenFrame, RecordsFrame, PendingFrame
<1>4. GamesInv'
  BY <1>1, <1>2 DEF RestoreFinishedGame, GamesInv, MaybeSpec
<1>5. \/ UNCHANGED engineVars /\ op' = then
      \/ StopEngine /\ op' = RestorePlan(then) /\ ~ChildRuns
      \/ StopTimesOut /\ op' = Idle
  BY DEF RestoreFinishedGame
<1>6. EnginesInv' /\ Exclusive'
  BY <1>1, <1>2, <1>5, EnginesFrame, ExclusiveFrame, StopKeepsExclusive
<1>7. op' \in Ops /\ Prepared'
  <2>1. CASE op' = then
    BY <2>1, IdlePrepared DEF Ops, GameDecisions
  <2>2. CASE op' = RestorePlan(then)
    BY <1>1, <2>2, RestorePlanType
  <2>3. CASE op' = Idle
    BY <2>3, IdlePrepared DEF Ops
  <2> QED
    BY <1>5, <2>1, <2>2, <2>3
<1>8. op' # Idle /\ op'.kind # "decide" => slot' = None /\ alive' = {}
  <2>1. CASE op' \in {Idle, then}
    BY <2>1 DEF GameDecisions
  <2>2. CASE StopEngine /\ ~ChildRuns
    BY <1>1, <1>2, <2>2, StopCalls, NoChild
  <2> QED
    BY <1>5, <2>1, <2>2
<1> QED
  BY <1>3, <1>4, <1>6, <1>7, <1>8 DEF IInv, HolderInv

LEMMA RestoreOpType ==
    ASSUME IInv, op # Idle, op.kind = "restore"
    PROVE  /\ op \in RestoreOps
           /\ op.then \in {Idle} \cup GameDecisions
           /\ op.pc = "target" => op.target \in RuntimeSpec
           /\ op.pc = "standing" => op.standing \in RuntimeSpec
BY OpKinds DEF IInv, HolderInv, Prepared, RestoreOps, MaybeSpec

\* Going on with what follows a restore.
LEMMA ThenType ==
    ASSUME IInv, op # Idle, op.kind = "restore", op' = op.then
    PROVE  op' \in Ops /\ Prepared' /\ (op' = Idle \/ op'.kind = "decide")
<1>1. op' = Idle \/ (op' \in GameDecisions /\ op'.kind = "decide")
  BY RestoreOpType DEF GameDecisions
<1> QED
  BY <1>1, IdlePrepared DEF Ops

LEMMA RestoreGameTargetKeeps == ASSUME IInv, RestoreGameTarget PROVE IInv'
<1>1. op # Idle /\ op.kind = "restore" /\ op.target \in RuntimeSpec
  BY RestoreOpType DEF RestoreGameTarget
<1>2. EnginesInv'
  BY <1>1, HolderIsFree, EngineCalls DEF RestoreGameTarget
<1>3. GamesInv'
  BY <1>1, HolderIsFree, GamesFrame DEF RestoreGameTarget
<1>4. RecordsInv'
  BY <1>1, HolderIsFree DEF RestoreGameTarget, RecordsInv, MaybeSpec, diskVars
<1>5. \/ op' = Idle
      \/ op' = op.then
      \/ /\ op.standing # None /\ op' = [op EXCEPT !.pc = "standing"]
         /\ ApplyAndStop(op.target)
  BY DEF RestoreGameTarget
<1>6. op' \in Ops /\ Prepared' /\ (op' = Idle \/ op'.kind = "decide" \/ slot' = None)
  <2>1. CASE op' = Idle
    BY <2>1, IdlePrepared DEF Ops
  <2>2. CASE op' = op.then
    BY <1>1, <2>2, ThenType
  <2>3. CASE /\ op.standing # None /\ op' = [op EXCEPT !.pc = "standing"]
             /\ ApplyAndStop(op.target)
    <3>1. op \in RestoreOps
      BY <1>1, RestoreOpType
    <3>2. op' \in RestoreOps /\ op'.kind = "restore" /\ op'.pc = "standing"
            /\ op'.standing # None
      BY <2>3, <3>1 DEF RestoreOps
    <3>3. slot' = None
      BY <1>1, <2>3, HolderIsFree, EmptiesSlot
    <3> QED
      BY <3>2, <3>3 DEF Ops, Prepared, InRollback
  <2> QED
    BY <1>5, <2>1, <2>2, <2>3
<1> QED
  BY <1>1, <1>2, <1>3, <1>4, <1>6, HolderFrame DEF RestoreGameTarget

LEMMA RestoreStandingKeeps == ASSUME IInv, RestoreStanding PROVE IInv'
<1>1. op # Idle /\ op.kind = "restore" /\ op.standing \in RuntimeSpec
  BY RestoreOpType DEF RestoreStanding
<1>2. EnginesInv'
  BY <1>1, HolderIsFree, EngineCalls DEF RestoreStanding
<1>3. GamesInv' /\ RecordsInv'
  BY <1>1, HolderIsFree, GamesFrame, RecordsFrame DEF RestoreStanding
<1>4. op' \in Ops /\ Prepared' /\ (op' = Idle \/ op'.kind = "decide")
  BY <1>1, ThenType, IdlePrepared DEF RestoreStanding, Ops
<1> QED
  BY <1>1, <1>2, <1>3, <1>4, HolderFrame DEF RestoreStanding

-----------------------------------------------------------------------------
(***************************************************************************)
(* Starting a game's profile.                                              *)
(***************************************************************************)
LEMMA GameFanType ==
    ASSUME EnginesInv, GamesInv, NEW spec \in RuntimeSpec, NEW known \in MaybeSpec
    PROVE  GameFan(spec, known) \in RuntimeSpec
<1> DEFINE current == IF SlotGpu = spec.gpu THEN SlotSpec ELSE None
           underGame == IF standing # None /\ standing.gpu = spec.gpu THEN standing
                        ELSE restore
           source == IF override /\ current # None /\ IsStock(current) THEN underGame
                     ELSE IF current # None THEN current ELSE known
<1>1. source \in MaybeSpec
  BY SlotSpecType DEF GamesInv, MaybeSpec
<1>2. GameFan(spec, known) = IF ~IsStock(spec) /\ ~spec.fan /\ source # None
                             THEN [spec EXCEPT !.fan = source.fan] ELSE spec
  BY DEF GameFan
<1> HIDE DEF source
<1>3. source # None => source \in RuntimeSpec /\ source.fan \in BOOLEAN
  BY <1>1 DEF MaybeSpec, RuntimeSpec
<1> QED
  BY <1>2, <1>3 DEF RuntimeSpec

LEMMA KnownSpecType ==
    ASSUME EnginesInv, RecordsInv, NEW spec \in RuntimeSpec
    PROVE  KnownSpec(spec) \in MaybeSpec
BY SpecGpu, SlotSpecType DEF KnownSpec, EngineRuns, RecordsInv, MaybeSpec

LEMMA RefuseGameKeeps == ASSUME IInv, RefuseGame PROVE IInv'
<1>1. /\ UNCHANGED <<engineVars, childVars, gameVars, games, lastApplied, bootConsumed,
                     diskVars, bootSet, pendingVars>>
      /\ UNCHANGED <<alive, child, generation>>
      /\ op' = Idle
  BY DEF RefuseGame, childVars
<1> QED
  BY <1>1, EnginesFrame, ChildrenFrame, GamesFrame, RecordsFrame, PendingFrame,
     ExclusiveFrame, IdlePrepared DEF IInv, HolderInv, Ops

LEMMA BeginGameKeeps == ASSUME IInv, BeginGame PROVE IInv'
<1>1. EnginesInv /\ ChildrenInv /\ GamesInv /\ RecordsInv /\ PendingInv /\ Exclusive
  BY DEF IInv
<1>2. op \in GameDecisions /\ op.spec \in RuntimeSpec /\ op.pid \in Pids
  BY OpKinds DEF IInv, HolderInv, BeginGame, GameDecisions
<1>3. /\ UNCHANGED <<childVars, gameVars, games, lastApplied, bootConsumed, diskVars,
                     bootSet, pendingVars>>
      /\ UNCHANGED <<alive, child, generation>>
  BY DEF BeginGame, childVars
<1>4. ChildrenInv' /\ GamesInv' /\ RecordsInv' /\ PendingInv'
  BY <1>1, <1>3, ChildrenFrame, GamesFrame, RecordsFrame, PendingFrame
<1>5. EnginesInv' /\ Exclusive'
  BY <1>1, <1>3, StopKeepsExclusive DEF BeginGame
<1>6. CASE StopTimesOut /\ op' = Idle
  BY <1>4, <1>5, <1>6, IdlePrepared DEF IInv, HolderInv, Ops
<1>7. CASE ~(StopTimesOut /\ op' = Idle)
  <2> DEFINE known == IF watches = {} THEN KnownSpec(op.spec) ELSE None
             fanned == GameFan(op.spec, known)
             rb == NewRollback(fanned, known)
             saved == IF watches = {} /\ EngineRuns THEN slot.spec ELSE None
  <2>1. known \in MaybeSpec
    BY <1>1, <1>2, KnownSpecType DEF MaybeSpec
  <2>2. fanned \in RuntimeSpec
    BY <1>1, <1>2, <2>1, GameFanType
  <2>3. rb \in Rollback /\ rb.pc = "start"
    BY <1>1, <2>1, <2>2, NewRollbackType DEF NewRollback
  <2>4. saved \in MaybeSpec
    BY <1>1, SlotSpecType DEF EngineRuns, MaybeSpec
  <2>5. /\ StopEngine
        /\ op' = [kind |-> "game", rb |-> rb, pid |-> op.pid, first |-> watches = {},
                  standing |-> saved, restore |-> known]
        /\ ~ChildRuns
    BY <1>7 DEF BeginGame, GameRefused
  <2> HIDE DEF known, fanned, rb, saved
  <2>6. op' \in GameOps
    BY <1>2, <2>1, <2>3, <2>4, <2>5 DEF GameOps
  <2>7. Prepared'
    BY <2>3, <2>5 DEF Prepared, InRollback
  <2>8. slot' = None /\ alive' = {}
    BY <1>1, <1>3, <2>5, StopCalls, NoChild
  <2> QED
    BY <1>4, <1>5, <2>6, <2>7, <2>8 DEF IInv, HolderInv, Ops
<1> QED
  BY <1>6, <1>7

LEMMA GameStartsKeeps == ASSUME IInv, GameStarts PROVE IInv'
<1>1. op # Idle /\ op.kind = "game" /\ op \in GameOps /\ op.rb.spec \in RuntimeSpec
  BY RollbackType, OpKinds, HolderIsFree DEF GameStarts
<1>2. EnginesInv'
  BY <1>1, HolderIsFree, EngineCalls DEF GameStarts
<1>3. GamesInv'
  BY <1>1, HolderIsFree DEF GameStarts, GamesInv, GameOps
<1>4. RecordsInv'
  BY <1>1, HolderIsFree, RecordsFrame DEF GameStarts
<1> QED
  BY <1>1, <1>2, <1>3, <1>4, IdlePrepared, HolderFrame DEF GameStarts, Ops

-----------------------------------------------------------------------------
(***************************************************************************)
(* Requests and background steps that leave the mutex free.                *)
(***************************************************************************)
LEMMA BeginApplyKeeps ==
    ASSUME IInv, NEW spec \in StandingSpecs, BeginApply(spec)
    PROVE  IInv'
<1>1. EnginesInv /\ ChildrenInv /\ GamesInv /\ RecordsInv /\ PendingInv /\ Exclusive
  BY DEF IInv
<1>2. /\ UNCHANGED <<childVars, gameVars, games, lastApplied, bootConsumed, diskVars,
                     bootSet, pendingVars>>
      /\ UNCHANGED <<alive, child, generation>>
  BY DEF BeginApply, childVars
<1>3. ChildrenInv' /\ GamesInv' /\ RecordsInv' /\ PendingInv'
  BY <1>1, <1>2, ChildrenFrame, GamesFrame, RecordsFrame, PendingFrame
<1>4. EnginesInv' /\ Exclusive'
  BY <1>1, <1>2, StopKeepsExclusive DEF BeginApply
<1>5. CASE StopTimesOut /\ op' = Idle
  BY <1>3, <1>4, <1>5, IdlePrepared DEF IInv, HolderInv, Ops
<1>6. CASE ~(StopTimesOut /\ op' = Idle)
  <2> DEFINE rb == NewRollback(spec, lastApplied[spec.gpu])
  <2>1. StopEngine /\ op' = [kind |-> "apply", rb |-> rb] /\ ~ChildRuns
    BY <1>6 DEF BeginApply
  <2>2. rb \in Rollback /\ rb.pc = "start"
    <3>1. spec \in RuntimeSpec /\ lastApplied[spec.gpu] \in MaybeSpec
      BY <1>1, SpecGpu DEF RecordsInv
    <3> QED
      BY <1>1, <3>1, NewRollbackType DEF NewRollback
  <2> HIDE DEF rb
  <2>3. op' \in ApplyOps /\ Prepared'
    BY <2>1, <2>2 DEF ApplyOps, Prepared, InRollback
  <2>4. slot' = None /\ alive' = {}
    BY <1>1, <1>2, <2>1, StopCalls, NoChild
  <2> QED
    BY <1>3, <1>4, <2>3, <2>4 DEF IInv, HolderInv, Ops
<1> QED
  BY <1>5, <1>6

\* A step that leaves the mutex free, and what it guards well formed.
LEMMA IdleFrame ==
    ASSUME IInv, op = Idle, op' = op, EnginesInv', ChildrenInv', GamesInv', RecordsInv',
           PendingInv', Exclusive'
    PROVE  IInv'
BY IdlePrepared DEF IInv, HolderInv, Ops

\* Scans and verifications.
LEMMA BeginChildKeeps == ASSUME IInv, BeginChild PROVE IInv'
<1>1. EnginesInv /\ ChildrenInv /\ GamesInv /\ RecordsInv /\ PendingInv /\ Exclusive
  BY DEF IInv
<1>2. /\ UNCHANGED <<gameVars, games, lastApplied, bootConsumed, diskVars, bootSet, op,
                     clearing>>
      /\ op = Idle
      /\ alive = {}
  BY <1>1, NoChild DEF BeginChild
<1>3. GamesInv' /\ RecordsInv'
  BY <1>1, <1>2, GamesFrame, RecordsFrame
<1>4. EnginesInv'
  BY <1>1, StopCalls DEF BeginChild
<1>5. ChildrenInv'
  BY <1>1, <1>2 DEF BeginChild, childVars, ChildrenInv, ChildKept
<1>6. PendingInv'
  <2>1. generation \in Nat /\ child \in Nat
    BY <1>1 DEF ChildrenInv
  <2>2. CASE generation' = generation + 1 /\ child' = generation' /\ UNCHANGED resuming
    BY <1>1, <1>2, <2>1, <2>2 DEF PendingInv
  <2>3. CASE /\ generation' = generation + 1 /\ UNCHANGED child
             /\ resuming' = IF DeepSleep THEN resuming ELSE resuming + 1
    BY <1>1, <1>2, <2>1, <2>3 DEF PendingInv
  <2>4. CASE UNCHANGED <<child, generation, resuming>>
    BY <1>1, <1>2, <2>4 DEF PendingInv
  <2>5. UNCHANGED childVars => UNCHANGED <<child, generation>>
    BY DEF childVars
  <2> QED
    BY <2>2, <2>3, <2>4, <2>5 DEF BeginChild
<1>7. Exclusive'
  <2>1. CASE StopEngine
    BY <1>1, <2>1, StopCalls DEF EnginesInv, Exclusive, AllOff
  <2>2. CASE StopTimesOut /\ UNCHANGED <<childVars, resuming>>
    BY <1>2, <2>2 DEF Exclusive, childVars
  <2> QED
    BY <2>1, <2>2 DEF BeginChild
<1> QED
  BY <1>2, <1>3, <1>4, <1>5, <1>6, <1>7, IdleFrame

LEMMA FinishChildKeeps ==
    ASSUME IInv, NEW n \in 1..MaxChildren, FinishChild(n)
    PROVE  IInv'
<1>1. EnginesInv /\ ChildrenInv /\ GamesInv /\ RecordsInv /\ PendingInv /\ Exclusive
  BY DEF IInv
<1>2. /\ UNCHANGED <<engineVars, generation, alive, gameVars, games, lastApplied,
                     bootConsumed, diskVars, bootSet, op, clearing>>
      /\ op = Idle
  BY DEF FinishChild
<1>3. EnginesInv' /\ GamesInv' /\ RecordsInv' /\ Exclusive'
  BY <1>1, <1>2, EnginesFrame, GamesFrame, RecordsFrame, ExclusiveFrame
<1>4. ChildrenInv'
  BY <1>1, <1>2 DEF FinishChild, ChildrenInv, ChildKept
<1>5. PendingInv'
  BY <1>1, <1>2 DEF FinishChild, ChildrenInv, PendingInv
<1> QED
  BY <1>2, <1>3, <1>4, <1>5, IdleFrame

LEMMA StopRuntimeProfileKeeps == ASSUME IInv, StopRuntimeProfile PROVE IInv'
<1>1. EnginesInv /\ ChildrenInv /\ GamesInv /\ RecordsInv /\ PendingInv /\ Exclusive
  BY DEF IInv
<1>2. /\ UNCHANGED <<childVars, watches, restore, games, lastApplied, diskVars, bootSet,
                     op, resuming>>
      /\ UNCHANGED <<alive, child, generation>>
      /\ op = Idle
  BY DEF StopRuntimeProfile, childVars
<1>3. ChildrenInv'
  BY <1>1, <1>2, ChildrenFrame
<1>4. GamesInv'
  BY <1>1, <1>2 DEF StopRuntimeProfile, GamesInv, MaybeSpec
<1>5. RecordsInv'
  BY <1>1, <1>2 DEF StopRuntimeProfile, RecordsInv, diskVars
<1>6. PendingInv'
  <2>1. clearing < MaxClears /\ (clearing' = clearing + 1 \/ clearing' = clearing)
    BY DEF StopRuntimeProfile
  <2>2. clearing' \in 0..MaxClears
    BY <1>1, <2>1 DEF PendingInv
  <2> QED
    BY <1>1, <1>2, <2>2 DEF PendingInv
<1>7. EnginesInv' /\ Exclusive'
  BY <1>1, <1>2, StopKeepsExclusive, EnginesFrame, ExclusiveFrame DEF StopRuntimeProfile
<1> QED
  BY <1>2, <1>3, <1>4, <1>5, <1>6, <1>7, IdleFrame

LEMMA ParkRuntimeKeeps == ASSUME IInv, ParkRuntime PROVE IInv'
<1>1. EnginesInv /\ ChildrenInv /\ GamesInv /\ RecordsInv /\ PendingInv /\ Exclusive
  BY DEF IInv
<1>2. /\ UNCHANGED <<childVars, gameVars, games, lastApplied, bootConsumed, diskVars,
                     bootSet, op, pendingVars>>
      /\ UNCHANGED <<alive, child, generation>>
      /\ op = Idle
  BY DEF ParkRuntime, childVars
<1>3. ChildrenInv' /\ GamesInv' /\ RecordsInv' /\ PendingInv'
  BY <1>1, <1>2, ChildrenFrame, GamesFrame, RecordsFrame, PendingFrame
<1>4. EnginesInv' /\ Exclusive'
  BY <1>1, <1>2, StopKeepsExclusive DEF ParkRuntime
<1> QED
  BY <1>2, <1>3, <1>4, IdleFrame

-----------------------------------------------------------------------------
(***************************************************************************)
(* Steps that do not need the mutex: op stays what it is.                  *)
(***************************************************************************)
\* Such a step may only stop engines and end children.
LEMMA AnyTimeFrame ==
    ASSUME IInv, UNCHANGED <<op, slot>>, alive' \subseteq alive,
           EnginesInv', ChildrenInv', GamesInv', RecordsInv', PendingInv', Exclusive'
    PROVE  IInv'
BY DEF IInv, HolderInv, Prepared, InRollback

LEMMA EngineExitsKeeps ==
    ASSUME IInv, NEW i \in Engines, EngineExits(i)
    PROVE  IInv'
<1>1. EnginesInv /\ ChildrenInv /\ GamesInv /\ RecordsInv /\ PendingInv /\ Exclusive
  BY DEF IInv
<1>2. /\ UNCHANGED <<slot, hw, childVars, gameVars, games, lastApplied,
                     bootConsumed, diskVars, bootSet, op, pendingVars>>
      /\ UNCHANGED <<alive, child, generation>>
  BY DEF EngineExits, childVars
<1>3. ChildrenInv' /\ GamesInv' /\ RecordsInv' /\ PendingInv'
  BY <1>1, <1>2, ChildrenFrame, GamesFrame, RecordsFrame, PendingFrame
<1>4. EnginesInv' /\ Exclusive'
  BY <1>1, <1>2 DEF EngineExits, EnginesInv, Exclusive, AllOff
<1> QED
  BY <1>2, <1>3, <1>4, AnyTimeFrame

LEMMA ChildExitsKeeps ==
    ASSUME IInv, NEW n \in 1..MaxChildren, ChildExits(n)
    PROVE  IInv'
<1>1. EnginesInv /\ ChildrenInv /\ GamesInv /\ RecordsInv /\ PendingInv /\ Exclusive
  BY DEF IInv
<1>2. /\ UNCHANGED <<thread, slot, child, generation, unfinished, gameVars, games,
                     lastApplied, bootConsumed, diskVars, bootSet, op, pendingVars>>
      /\ alive' \subseteq alive
  BY DEF ChildExits
<1>3. GamesInv' /\ RecordsInv' /\ PendingInv'
  BY <1>1, <1>2, GamesFrame, RecordsFrame, PendingFrame
<1>4. ChildrenInv'
  BY <1>1, <1>2 DEF ChildrenInv, ChildKept
<1>5. EnginesInv' /\ Exclusive'
  BY <1>1, <1>2 DEF ChildExits, EnginesInv, Exclusive, AllOff
<1> QED
  BY <1>2, <1>3, <1>4, <1>5, AnyTimeFrame

LEMMA GameProcessKeeps ==
    ASSUME IInv, NEW p \in Pids, GameLaunches(p) \/ GameExits(p)
    PROVE  IInv'
<1>1. EnginesInv /\ ChildrenInv /\ GamesInv /\ RecordsInv /\ PendingInv /\ Exclusive
  BY DEF IInv
<1>2. /\ UNCHANGED <<engineVars, childVars, gameVars, lastApplied, bootConsumed,
                     diskVars, bootSet, op, pendingVars>>
      /\ UNCHANGED <<slot, alive, child, generation>>
  BY DEF GameLaunches, GameExits, childVars, engineVars
<1>3. EnginesInv' /\ ChildrenInv' /\ RecordsInv' /\ PendingInv' /\ Exclusive'
  BY <1>1, <1>2, EnginesFrame, ChildrenFrame, RecordsFrame, PendingFrame, ExclusiveFrame
<1>4. GamesInv'
  BY <1>1 DEF GameLaunches, GameExits, GamesInv, gameVars
<1> QED
  BY <1>2, <1>3, <1>4, AnyTimeFrame

LEMMA ClearActiveRuntimeKeeps == ASSUME IInv, ClearActiveRuntime PROVE IInv'
<1>1. EnginesInv /\ ChildrenInv /\ GamesInv /\ RecordsInv /\ PendingInv /\ Exclusive
  BY DEF IInv
<1>2. /\ UNCHANGED <<engineVars, childVars, gameVars, games, lastApplied,
                     bootConsumed, historyFile, bootSet, op, resuming>>
      /\ UNCHANGED <<slot, alive, child, generation>>
  BY DEF ClearActiveRuntime, childVars, engineVars
<1>3. EnginesInv' /\ ChildrenInv' /\ GamesInv' /\ Exclusive'
  BY <1>1, <1>2, EnginesFrame, ChildrenFrame, GamesFrame, ExclusiveFrame
<1>4. RecordsInv'
  BY <1>1, <1>2 DEF ClearActiveRuntime, RecordsInv, MaybeSpec
<1>5. PendingInv'
  BY <1>1, <1>2 DEF ClearActiveRuntime, PendingInv
<1> QED
  BY <1>2, <1>3, <1>4, <1>5, AnyTimeFrame

LEMMA WatcherDecidesStartKeeps == ASSUME IInv, WatcherDecidesStart PROVE IInv'
<1>1. EnginesInv /\ ChildrenInv /\ GamesInv /\ RecordsInv /\ PendingInv /\ Exclusive
  BY DEF IInv
<1>2. /\ UNCHANGED <<engineVars, childVars, gameVars, games, lastApplied,
                     bootConsumed, diskVars, bootSet, op, clearing>>
      /\ UNCHANGED <<slot, alive, child, generation>>
  BY DEF WatcherDecidesStart, childVars, engineVars
<1>3. EnginesInv' /\ ChildrenInv' /\ GamesInv' /\ RecordsInv' /\ Exclusive'
  BY <1>1, <1>2, EnginesFrame, ChildrenFrame, GamesFrame, RecordsFrame, ExclusiveFrame
<1>4. PendingInv'
  BY <1>1, <1>2 DEF WatcherDecidesStart, PendingInv
<1> QED
  BY <1>2, <1>3, <1>4, AnyTimeFrame

-----------------------------------------------------------------------------
(***************************************************************************)
(* Autostart, recovery and the replay of the boot set.                     *)
(***************************************************************************)
LEMMA BootOpType ==
    ASSUME IInv, op # Idle, op.kind = "boot"
    PROVE  /\ op \in BootOps
           /\ op.todo \in Seq(RuntimeSpec) /\ op.todo # <<>>
           /\ Head(op.todo) \in RuntimeSpec
           /\ Head(op.todo).gpu \in Gpus
           /\ ReplaySpec \in RuntimeSpec
<1>1. op \in BootOps
  BY OpKinds DEF IInv, HolderInv
<1>2. op.todo \in Seq(RuntimeSpec) /\ op.todo # <<>>
  BY <1>1 DEF BootOps
<1>3. Head(op.todo) \in RuntimeSpec
  BY <1>2
<1> QED
  BY <1>1, <1>2, <1>3, SpecGpu, StockFallbackType DEF ReplaySpec

LEMMA AutostartPlanType ==
    ASSUME RecordsInv, op' = AutostartPlan
    PROVE  op' \in Ops /\ Prepared'
<1>1. CASE RecoversSession
  <2>1. op' = [kind |-> "recover", pc |-> "apply", spec |-> activeFile]
    BY <1>1 DEF AutostartPlan
  <2>2. activeFile \in RuntimeSpec
    BY <1>1 DEF RecoversSession, RecordsInv, MaybeSpec
  <2>3. op' \in RecoverOps
    BY <2>1, <2>2 DEF RecoverOps
  <2> QED
    BY <2>1, <2>3, IdlePrepared DEF Ops
<1>2. CASE ~RecoversSession /\ bootSet.specs = <<>>
  BY <1>2, IdlePrepared DEF AutostartPlan, Ops
<1>3. CASE ~RecoversSession /\ bootSet.specs # <<>>
  <2>1. op' = [kind |-> "boot", pc |-> "apply", todo |-> BootOrder]
    BY <1>3 DEF AutostartPlan
  <2>2. BootOrder \in Seq(RuntimeSpec) \ {<<>>}
    BY <1>3, BootOrderType DEF RecordsInv
  <2>3. op' \in BootOps
    BY <2>1, <2>2 DEF BootOps
  <2> QED
    BY <2>1, <2>3, IdlePrepared DEF Ops
<1> QED
  BY <1>1, <1>2, <1>3

LEMMA StartAutostartKeeps ==
    ASSUME IInv, StartAutostart, PendingInv',
           op = Idle \/ op.kind \notin {"decide"}
    PROVE  IInv'
<1>1. EnginesInv /\ ChildrenInv /\ GamesInv /\ RecordsInv /\ Exclusive
  BY DEF IInv
<1>2. /\ UNCHANGED <<engineVars, childVars, gameVars, games, diskVars, bootSet, clearing>>
      /\ UNCHANGED <<slot, alive>>
  BY DEF StartAutostart, childVars, engineVars
<1>3. EnginesInv' /\ ChildrenInv' /\ GamesInv' /\ Exclusive'
  BY <1>1, <1>2, EnginesFrame, ChildrenFrame, GamesFrame, ExclusiveFrame
<1>4. RecordsInv'
  <2>1. lastApplied' \in [Gpus -> MaybeSpec]
    BY <1>1, OrInsertType DEF StartAutostart, RecordsInv
  <2>2. bootConsumed' \in BOOLEAN
    BY <1>1 DEF StartAutostart, RecordsInv
  <2> QED
    BY <1>1, <1>2, <2>1, <2>2 DEF RecordsInv, diskVars
<1>5. \/ op' = Idle
      \/ op' = AutostartPlan /\ slot = None /\ ~ChildRuns
  BY DEF StartAutostart
<1>6. op' \in Ops /\ Prepared'
  BY <1>1, <1>5, AutostartPlanType, IdlePrepared DEF Ops
<1>7. op' # Idle => slot' = None /\ alive' = {}
  BY <1>1, <1>2, <1>5, NoChild
<1> QED
  BY <1>3, <1>4, <1>6, <1>7 DEF IInv, HolderInv

LEMMA StartupAutostartKeeps == ASSUME IInv, StartupAutostart PROVE IInv'
<1>1. UNCHANGED <<child, generation, pendingVars>>
  BY DEF StartupAutostart, StartAutostart, childVars, pendingVars
<1>2. PendingInv'
  BY <1>1, PendingFrame DEF IInv
<1> QED
  BY <1>2, StartAutostartKeeps DEF StartupAutostart

LEMMA ResumeAutostartKeeps == ASSUME IInv, ResumeAutostart PROVE IInv'
<1>1. PendingInv /\ ChildrenInv /\ op = Idle /\ resuming > 0 /\ resuming' = resuming - 1
  BY DEF IInv, ResumeAutostart
<1>2. UNCHANGED <<child, generation, clearing>>
  BY DEF ResumeAutostart, StartAutostart, childVars
<1>3. PendingInv'
  BY <1>1, <1>2 DEF PendingInv, ChildrenInv
<1> QED
  BY <1>1, <1>3, StartAutostartKeeps DEF ResumeAutostart

LEMMA RecoveredType ==
    ASSUME EnginesInv, slot = None, GamesInv, NEW spec \in RuntimeSpec, Recovered(spec),
           games' = games
    PROVE  EnginesInv' /\ GamesInv' /\ activeFile' = spec
BY EngineCalls, BecomesStandingType DEF Recovered

\* What recovery records.
LEMMA RecoverRecords ==
    ASSUME RecordsInv, NEW spec \in RuntimeSpec, RecoverEnds,
           \/ /\ activeFile' = spec
              /\ lastApplied' = OrInsert([lastApplied EXCEPT ![spec.gpu] = spec], BootSpecs)
           \/ /\ activeFile' = activeFile
              /\ lastApplied' = OrInsert(lastApplied, BootSpecs)
    PROVE  RecordsInv'
<1>1. BootSpecs \in [Gpus -> MaybeSpec]
  BY BootSpecsType DEF RecordsInv
<1>2. [lastApplied EXCEPT ![spec.gpu] = spec] \in [Gpus -> MaybeSpec]
  BY DEF RecordsInv, MaybeSpec
<1>3. /\ OrInsert([lastApplied EXCEPT ![spec.gpu] = spec], BootSpecs) \in [Gpus -> MaybeSpec]
      /\ OrInsert(lastApplied, BootSpecs) \in [Gpus -> MaybeSpec]
  BY <1>1, <1>2, OrInsertType DEF RecordsInv
<1> QED
  BY <1>3 DEF RecordsInv, RecoverEnds, MaybeSpec

LEMMA RecoverOpType ==
    ASSUME IInv, NEW pc, Recovering(pc)
    PROVE  op # Idle /\ op.kind = "recover" /\ op \in RecoverOps /\ op.spec \in RuntimeSpec
BY OpKinds DEF IInv, HolderInv, Recovering, RecoverOps

LEMMA RecoverActiveSessionKeeps == ASSUME IInv, RecoverActiveSession PROVE IInv'
<1>1. op # Idle /\ op.kind = "recover" /\ op.spec \in RuntimeSpec
  BY RecoverOpType DEF RecoverActiveSession
<1>2. EnginesInv' /\ GamesInv'
  BY <1>1, HolderIsFree, RecoveredType, EngineCalls, GamesFrame
     DEF RecoverActiveSession, RecoverEnds
<1>3. RecordsInv'
  BY <1>1, HolderIsFree, RecoverRecords DEF RecoverActiveSession, Recovered
<1> QED
  BY <1>1, <1>2, <1>3, IdlePrepared, HolderFrame DEF RecoverActiveSession, RecoverEnds, Ops

LEMMA RecoverFailsKeeps == ASSUME IInv, RecoverFails PROVE IInv'
<1>1. op # Idle /\ op.kind = "recover" /\ op \in RecoverOps /\ op.spec \in RuntimeSpec
  BY RecoverOpType DEF RecoverFails
<1>2. EnginesInv' /\ slot' = None
  BY <1>1, HolderIsFree, EngineCalls, EmptiesSlot DEF RecoverFails
<1>3. GamesInv' /\ RecordsInv'
  BY <1>1, HolderIsFree, GamesFrame, RecordsFrame DEF RecoverFails
<1>4. op' \in RecoverOps /\ op'.kind = "recover"
  BY <1>1 DEF RecoverFails, RecoverOps
<1> QED
  BY <1>1, <1>2, <1>3, <1>4, IdlePrepared, HolderFrame DEF RecoverFails, Ops

LEMMA RecoverWithStockKeeps == ASSUME IInv, RecoverWithStock PROVE IInv'
<1> DEFINE fallback == StockFallback(op.spec)
<1>1. op # Idle /\ op.kind = "recover" /\ fallback \in RuntimeSpec
  BY RecoverOpType, StockFallbackType DEF RecoverWithStock
<1> HIDE DEF fallback
<1>2. EnginesInv' /\ GamesInv'
  BY <1>1, HolderIsFree, RecoveredType, EngineCalls, GamesFrame
     DEF RecoverWithStock, RecoverEnds, fallback
<1>3. RecordsInv'
  BY <1>1, HolderIsFree, RecoverRecords DEF RecoverWithStock, Recovered, fallback
<1> QED
  BY <1>1, <1>2, <1>3, IdlePrepared, HolderFrame DEF RecoverWithStock, RecoverEnds, Ops

\* The rest of a replay.
LEMMA ReplayNextType ==
    ASSUME IInv, op # Idle, op.kind = "boot", ReplayNext
    PROVE  op' \in Ops /\ Prepared'
<1>1. CASE Len(op.todo) = 1
  BY <1>1, IdlePrepared DEF ReplayNext, Ops
<1>2. CASE Len(op.todo) # 1
  <2>1. op \in BootOps /\ op.todo \in Seq(RuntimeSpec) /\ op.todo # <<>>
    BY BootOpType
  <2>2. Tail(op.todo) \in Seq(RuntimeSpec) \ {<<>>}
    <3>1. Tail(op.todo) \in Seq(RuntimeSpec) /\ Len(Tail(op.todo)) = Len(op.todo) - 1
      BY <2>1
    <3>2. Len(op.todo) \in Nat /\ Len(op.todo) # 0
      BY <2>1, EmptySeq
    <3>3. Len(Tail(op.todo)) # 0
      BY <1>2, <3>1, <3>2
    <3>4. Tail(op.todo) # <<>>
      BY <3>3, EmptySeq
    <3> QED
      BY <3>1, <3>4
  <2>3. op' = [op EXCEPT !.pc = "apply", !.todo = Tail(op.todo)]
    BY <1>2 DEF ReplayNext
  <2>4. op' \in BootOps /\ op'.kind = "boot"
    BY <2>1, <2>2, <2>3 DEF BootOps
  <2> QED
    BY <2>4, IdlePrepared DEF Ops
<1> QED
  BY <1>1, <1>2

LEMMA ReplaySkipsAbsentKeeps == ASSUME IInv, ReplaySkipsAbsent PROVE IInv'
<1>1. op # Idle /\ op.kind = "boot"
  BY DEF ReplaySkipsAbsent, Replaying
<1>2. EnginesInv' /\ GamesInv' /\ RecordsInv'
  BY <1>1, HolderIsFree, EnginesFrame, GamesFrame, RecordsFrame DEF ReplaySkipsAbsent
<1>3. slot' = None
  BY <1>1, HolderIsFree DEF ReplaySkipsAbsent, engineVars
<1> QED
  BY <1>1, <1>2, <1>3, ReplayNextType, HolderFrame DEF ReplaySkipsAbsent

LEMMA ReplaySkipsStockKeeps == ASSUME IInv, ReplaySkipsStock PROVE IInv'
<1>1. op # Idle /\ op.kind = "boot" /\ Head(op.todo) \in RuntimeSpec
  BY BootOpType DEF ReplaySkipsStock, Replaying
<1>2. EnginesInv' /\ GamesInv'
  BY <1>1, HolderIsFree, EnginesFrame, GamesFrame DEF ReplaySkipsStock
<1>3. RecordsInv'
  BY <1>1, HolderIsFree DEF ReplaySkipsStock, RecordsInv, MaybeSpec, diskVars
<1>4. slot' = None
  BY <1>1, HolderIsFree DEF ReplaySkipsStock, engineVars
<1> QED
  BY <1>1, <1>2, <1>3, <1>4, ReplayNextType, HolderFrame DEF ReplaySkipsStock

LEMMA ReplayInactiveKeeps == ASSUME IInv, ReplayInactive PROVE IInv'
<1>1. op # Idle /\ op.kind = "boot" /\ ReplaySpec \in RuntimeSpec
  BY BootOpType DEF ReplayInactive, Replaying
<1>2. EnginesInv'
  BY <1>1, HolderIsFree, EngineCalls DEF ReplayInactive
<1>3. GamesInv'
  BY <1>1, HolderIsFree, GamesFrame DEF ReplayInactive
<1>4. RecordsInv'
  BY <1>1, HolderIsFree DEF ReplayInactive, RecordsInv, MaybeSpec, diskVars
<1>5. op' \in Ops /\ Prepared' /\ (op' = Idle \/ slot' = None)
  BY <1>1, HolderIsFree, ReplayNextType, EmptiesSlot, IdlePrepared DEF ReplayInactive, Ops
<1> QED
  BY <1>1, <1>2, <1>3, <1>4, <1>5, HolderFrame DEF ReplayInactive

LEMMA ReplayActiveKeeps == ASSUME IInv, ReplayActive PROVE IInv'
<1>1. op # Idle /\ op.kind = "boot" /\ ReplaySpec \in RuntimeSpec
  BY BootOpType DEF ReplayActive, Replaying
<1>2. EnginesInv' /\ GamesInv'
  BY <1>1, HolderIsFree, RecoveredType, EngineCalls, GamesFrame DEF ReplayActive, RecoverEnds
<1>3. RecordsInv'
  BY <1>1, HolderIsFree DEF ReplayActive, Recovered, RecoverEnds, RecordsInv, MaybeSpec
<1> QED
  BY <1>1, <1>2, <1>3, IdlePrepared, HolderFrame DEF ReplayActive, RecoverEnds, Ops

LEMMA ReplayFailsKeeps == ASSUME IInv, ReplayFails PROVE IInv'
<1>1. op # Idle /\ op.kind = "boot" /\ ReplaySpec \in RuntimeSpec
  BY BootOpType DEF ReplayFails, Replaying
<1>2. EnginesInv' /\ slot' = None
  BY <1>1, HolderIsFree, EngineCalls, EmptiesSlot DEF ReplayFails
<1>3. GamesInv' /\ RecordsInv'
  BY <1>1, HolderIsFree, GamesFrame, RecordsFrame DEF ReplayFails
<1>4. CASE ReplayNext
  BY <1>1, <1>2, <1>3, <1>4, ReplayNextType, HolderFrame DEF ReplayFails
<1>5. CASE op' = [op EXCEPT !.pc = "stock"]
  <2>1. op' \in BootOps /\ op'.kind = "boot"
    BY <1>1, <1>5, BootOpType DEF BootOps
  <2> QED
    BY <1>1, <1>2, <1>3, <2>1, IdlePrepared, HolderFrame DEF ReplayFails, Ops
<1> QED
  BY <1>4, <1>5 DEF ReplayFails

-----------------------------------------------------------------------------
(***************************************************************************)
(* The invariant.                                                          *)
(***************************************************************************)
LEMMA InitInv == Init => IInv
<1> SUFFICES ASSUME Init PROVE IInv
  OBVIOUS
<1>1. EnginesInv /\ AllOff
  BY DEF Init, EnginesInv, AllOff
<1>2. ChildrenInv
  BY DEF Init, ChildrenInv, ChildKept
<1>3. GamesInv
  BY DEF Init, GamesInv, MaybeSpec
<1>4. RecordsInv
  BY DEF Init, RecordsInv, MaybeSpec, NothingApplied
<1>5. PendingInv
  BY DEF Init, PendingInv
<1>6. Exclusive
  BY <1>1 DEF Exclusive
<1>7. HolderInv
  BY DEF Init, HolderInv, Prepared, InRollback, Starting, Ops
<1> QED
  BY <1>1, <1>2, <1>3, <1>4, <1>5, <1>6, <1>7 DEF IInv

\* A crash forgets whatever was about to go wrong.
LEMMA CrashKeeps == ASSUME IInv, Crash PROVE IInv'
<1>1. RecordsInv /\ hw \in [Gpus -> Profiles \cup {Dirty}] /\ games \subseteq Pids
  BY DEF IInv, EnginesInv, GamesInv
<1>2. ForgetsMemory
  BY DEF Crash, DaemonRestarts, MachineReboots
<1>3. hw' \in [Gpus -> Profiles \cup {Dirty}] /\ games' \subseteq Pids
  BY <1>1 DEF Crash, DaemonRestarts, MachineReboots
<1>4. EnginesInv' /\ AllOff'
  BY <1>2, <1>3 DEF ForgetsMemory, EnginesInv, AllOff
<1>5. ChildrenInv'
  BY <1>2 DEF ForgetsMemory, ChildrenInv, ChildKept
<1>6. GamesInv'
  BY <1>2, <1>3 DEF ForgetsMemory, GamesInv, MaybeSpec
<1>7. RecordsInv'
  BY <1>1, <1>2
     DEF Crash, DaemonRestarts, MachineReboots, ForgetsMemory, RecordsInv, MaybeSpec,
         NothingApplied, diskVars
<1>8. PendingInv'
  BY <1>2 DEF ForgetsMemory, PendingInv
<1>9. Exclusive'
  BY <1>4 DEF Exclusive
<1>10. HolderInv'
  BY <1>2 DEF ForgetsMemory, HolderInv, Prepared, InRollback, Starting, Ops
<1> QED
  BY <1>4, <1>5, <1>6, <1>7, <1>8, <1>9, <1>10 DEF IInv

LEMMA StutterKeeps == ASSUME IInv, UNCHANGED vars PROVE IInv'
<1>1. /\ UNCHANGED <<engineVars, childVars, gameVars, games, lastApplied, bootConsumed,
                     diskVars, bootSet, op, pendingVars>>
      /\ UNCHANGED <<slot, alive, child, generation>>
  BY DEF vars, engineVars, childVars
<1> QED
  BY <1>1, EnginesFrame, ChildrenFrame, GamesFrame, RecordsFrame, PendingFrame,
     ExclusiveFrame, AnyTimeFrame DEF IInv

LEMMA HolderStepKeeps == ASSUME IInv, HolderStep PROVE IInv'
BY StartupAutostartKeeps, ApplyStartsKeeps, RequestedFailsKeeps, RestoreFailedTargetKeeps,
   RestorePreviousKeeps, FallBackToStockKeeps, RefuseGameKeeps, BeginGameKeeps,
   GameStartsKeeps, RestoreGameTargetKeeps, RestoreStandingKeeps,
   RecoverActiveSessionKeeps, RecoverFailsKeeps, RecoverWithStockKeeps,
   ReplaySkipsAbsentKeeps, ReplaySkipsStockKeeps, ReplayInactiveKeeps, ReplayActiveKeeps,
   ReplayFailsKeeps DEF HolderStep

LEMMA RequestKeeps == ASSUME IInv, Request PROVE IInv'
<1>1. ASSUME NEW spec \in GameSpecs, NEW p \in Pids, RequestGame(spec, p)
      PROVE  IInv'
  <2> DEFINE then == [kind |-> "decide", spec |-> spec, pid |-> p]
  <2>1. then \in GameDecisions
    BY DEF GameDecisions
  <2> QED
    BY <1>1, <2>1, RestoreFinishedKeeps DEF RequestGame
<1> QED
  BY <1>1, BeginApplyKeeps, GameProcessKeeps, BeginChildKeeps, StopRuntimeProfileKeeps
     DEF Request

LEMMA BackgroundKeeps == ASSUME IInv, Background PROVE IInv'
BY EngineExitsKeeps, RestoreFinishedKeeps, ChildExitsKeeps, FinishChildKeeps,
   ClearActiveRuntimeKeeps, ResumeAutostartKeeps, WatcherDecidesStartKeeps, ParkRuntimeKeeps
   DEF Background, ReapGameWatches

\* What the runs check of the daemon follows from the invariant.
LEMMA InvImpliesOneWriter == IInv => TypeOK /\ OneWriter /\ ChildKept
<1> SUFFICES ASSUME IInv PROVE TypeOK /\ OneWriter /\ ChildKept
  OBVIOUS
<1>1. EnginesInv /\ ChildrenInv /\ GamesInv /\ RecordsInv /\ PendingInv /\ Exclusive
  BY DEF IInv
<1>2. resuming \in 0..MaxChildren + 1
  BY <1>1 DEF PendingInv, ChildrenInv
<1>3. TypeOK
  BY <1>1, <1>2
     DEF TypeOK, IInv, EnginesInv, ChildrenInv, GamesInv, RecordsInv, PendingInv, HolderInv
<1>4. /\ Cardinality({}) = 0
     /\ \A x : Cardinality({x}) = 1
  BY FS_EmptySet, FS_Singleton
<1>5. Cardinality(LiveEngines) \in 0..1 /\ (AllOff => Cardinality(LiveEngines) = 0)
  <2> DEFINE e == slot.id
  <2>1. LiveEngines \subseteq {e}
    BY <1>1 DEF EnginesInv, LiveEngines
  <2> HIDE DEF e
  <2>2. LiveEngines = {} \/ LiveEngines = {e}
    BY <2>1
  <2>3. AllOff => LiveEngines = {}
    BY DEF AllOff, LiveEngines
  <2>4. Cardinality(LiveEngines) = 0 \/ Cardinality(LiveEngines) = 1
    BY <1>4, <2>2, Zenon
  <2>5. Cardinality(LiveEngines) \in 0..1
    BY <2>4
  <2>6. AllOff => Cardinality(LiveEngines) = 0
    BY <1>4, <2>3
  <2> QED
    BY <2>5, <2>6
<1>6. Cardinality(alive) \in 0..1 /\ (alive = {} => Cardinality(alive) = 0)
  <2>1. alive = {} \/ alive = {child}
    BY <1>1 DEF ChildrenInv, ChildKept
  <2> QED
    BY <1>4, <2>1
<1>7. OneWriter
  BY <1>1, <1>5, <1>6 DEF Exclusive, OneWriter
<1> QED
  BY <1>1, <1>3, <1>7 DEF ChildrenInv

\* The invariant holds in every run of the daemon.
LEMMA AlwaysIInv == Spec => []IInv
<1>1. Init => IInv
  BY InitInv
<1>2. IInv /\ [Next]_vars => IInv'
  BY HolderStepKeeps, RequestKeeps, BackgroundKeeps, CrashKeeps, StutterKeeps DEF Next
<1> QED BY <1>1, <1>2, PTL DEF Spec

\* Whatever clients ask for, engines wedge, children do and crashes interrupt:
\* the daemon's state is well formed, at most one engine or child can write to a
\* GPU, and a running child is never dropped from the slot that stops it.
THEOREM SupervisorSafe == Spec => [](TypeOK /\ OneWriter /\ ChildKept)
<1>1. IInv => TypeOK /\ OneWriter /\ ChildKept
  BY InvImpliesOneWriter
<1> QED
  BY <1>1, AlwaysIInv, PTL

\* A running scan or verification stays the child that stop requests act on, through every
\* late finish_child, timeout and crash.
THEOREM ChildrenAreKept == Spec => []ChildKept
BY SupervisorSafe, PTL

-----------------------------------------------------------------------------
(***************************************************************************)
(* What the session keeps beside a game.  From here on an apply may fail,  *)
(* but no engine outlives its stop or gives up while it runs: with those   *)
(* the daemon's records and its engine do part (SupIntent).                *)
(***************************************************************************)
NoLateEngines == Faults \subseteq {"fail"}

SteadyInv ==
    /\ \A i \in Engines : thread[i] # "wedged"
    /\ slot # None => thread[slot.id] = "running"

LEMMA NoLateCalls ==
    ASSUME NoLateEngines
    PROVE  /\ ~StopTimesOut
           /\ \A spec : ~StartWedges(spec) /\ ~ApplyAndStick(spec)
BY DEF NoLateEngines, StopTimesOut, StartWedges, ApplyAndStick

LEMMA SteadySlot ==
    ASSUME IInv, SteadyInv
    PROVE  /\ EngineRuns <=> slot # None
           /\ ChildRuns => slot = None
<1>1. EngineRuns <=> slot # None
  BY DEF SteadyInv, EngineRuns
<1>2. ChildRuns => slot = None
  BY DEF IInv, Exclusive, AllOff, SteadyInv, ChildRuns, EnginesInv
<1> QED BY <1>1, <1>2

\* What becomes of the engine in a step.
EngineSteps ==
    \/ UNCHANGED <<thread, slot>>
    \/ StopEngine
    \/ slot = None /\ \E spec : StartOk(spec)
    \/ ForgetsMemory

LEMMA EngineStepsSteady == ASSUME IInv, SteadyInv, EngineSteps PROVE SteadyInv'
<1>1. CASE UNCHANGED <<thread, slot>>
  BY <1>1 DEF SteadyInv
<1>2. CASE StopEngine
  BY <1>2 DEF StopEngine, SteadyInv, IInv, EnginesInv
<1>3. CASE slot = None /\ \E spec : StartOk(spec)
  <2>1. FreeEngine \in Engines
    BY <1>3, FreeEngineExists DEF IInv
  <2> QED BY <1>3, <2>1 DEF StartOk, SteadyInv, IInv, EnginesInv
<1>4. CASE ForgetsMemory
  BY <1>4 DEF ForgetsMemory, SteadyInv
<1> QED BY <1>1, <1>2, <1>3, <1>4 DEF EngineSteps

LEMMA SteadyKeeps == ASSUME NoLateEngines, IInv, SteadyInv, [Next]_vars PROVE SteadyInv'
<1>1. ASSUME HolderStep PROVE EngineSteps
  <2>1. CASE StartupAutostart \/ RefuseGame \/ ReplaySkipsAbsent \/ ReplaySkipsStock
    BY <2>1 DEF StartupAutostart, StartAutostart, RefuseGame, ReplaySkipsAbsent, ReplaySkipsStock,
       engineVars, EngineSteps
  <2>2. CASE BeginGame
    BY <2>2, NoLateCalls DEF BeginGame, EngineSteps
  <2>3. CASE ApplyStarts \/ RequestedFails \/ RestoreFailedTarget \/ RestorePrevious
             \/ FallBackToStock \/ GameStarts
    <3>1. slot = None
      BY <2>3, HolderIsFree DEF ApplyStarts, RequestedFails, RestoreFailedTarget, RestorePrevious,
         FallBackToStock, GameStarts, InRollback
    <3>2. UNCHANGED <<thread, slot>> \/ \E spec : StartOk(spec)
      BY <2>3, NoLateCalls DEF ApplyStarts, RequestedFails, RestoreFailedTarget, RestorePrevious,
         FallBackToStock, GameStarts, StartFails, ApplyAndStop
    <3> QED BY <3>1, <3>2 DEF EngineSteps
  <2>4. CASE RestoreGameTarget \/ RestoreStanding \/ RecoverActiveSession \/ RecoverFails
             \/ RecoverWithStock \/ ReplayInactive \/ ReplayActive \/ ReplayFails
    <3>1. slot = None
      BY <2>4, HolderIsFree DEF RestoreGameTarget, RestoreStanding, RecoverActiveSession,
         RecoverFails, RecoverWithStock, ReplayInactive, ReplayActive, ReplayFails, Recovering,
         Replaying
    <3>2. UNCHANGED <<thread, slot>> \/ \E spec : StartOk(spec)
      BY <2>4, NoLateCalls DEF RestoreGameTarget, RestoreStanding, RecoverActiveSession,
         RecoverFails, RecoverWithStock, ReplayInactive, ReplayActive, ReplayFails, Recovered,
         StartFails, ApplyAndStop
    <3> QED BY <3>1, <3>2 DEF EngineSteps
  <2> QED BY <1>1, <2>1, <2>2, <2>3, <2>4 DEF HolderStep
<1>2. ASSUME Request PROVE EngineSteps
  BY <1>2, NoLateCalls DEF Request, BeginApply, GameLaunches, GameExits, RequestGame,
     RestoreFinishedGame, BeginChild, StopRuntimeProfile, engineVars, EngineSteps
<1>3. ASSUME Background PROVE EngineSteps
  <2>1. \A i \in Engines : ~EngineExits(i)
    BY DEF NoLateEngines, SteadyInv, EngineExits
  <2> QED BY <1>3, <2>1, NoLateCalls DEF Background, ReapGameWatches, RestoreFinishedGame,
          ChildExits, FinishChild, ClearActiveRuntime, ResumeAutostart, StartAutostart,
          WatcherDecidesStart, ParkRuntime, engineVars, EngineSteps
<1>4. ASSUME Crash PROVE EngineSteps
  BY <1>4 DEF Crash, DaemonRestarts, MachineReboots, EngineSteps
<1>5. ASSUME UNCHANGED vars PROVE EngineSteps
  BY <1>5 DEF vars, engineVars, EngineSteps
<1> QED BY <1>1, <1>2, <1>3, <1>4, <1>5, EngineStepsSteady DEF Next

LEMMA AlwaysSteady == ASSUME NoLateEngines PROVE Spec => []SteadyInv
<1>1. Init => SteadyInv
  BY DEF Init, SteadyInv
<1>2. IInv /\ SteadyInv /\ [Next]_vars => SteadyInv'
  BY SteadyKeeps
<1> QED BY <1>1, <1>2, AlwaysIInv, PTL DEF Spec

-----------------------------------------------------------------------------
(***************************************************************************)
(* What the handlers' steps do, with engines that stop when they are told. *)
(***************************************************************************)
Doing(kinds) == op # Idle /\ op.kind \in kinds
Waiting == op = Idle \/ op.kind = "decide"

\* A continuation that goes on keeps what was decided.
LEMMA RollbackSame ==
    ASSUME op \in Ops, Doing({"apply", "game"}), NEW pc, RollbackTo(pc)
    PROVE  /\ op'.kind = op.kind /\ op'.rb.pc = pc
           /\ op'.rb.spec = op.rb.spec /\ op'.rb.target = op.rb.target
           /\ op'.rb.previous = op.rb.previous
           /\ op.kind = "game" => /\ op'.first = op.first /\ op'.standing = op.standing
                                  /\ op'.restore = op.restore
<1>1. op \in ApplyOps \cup GameOps /\ op.rb \in Rollback
  BY OpKinds, RollbackType DEF Doing
<1> QED BY <1>1 DEF RollbackTo, ApplyOps, GameOps, Rollback

LEMMA StartedSlot ==
    ASSUME IInv, slot = None, NEW spec \in RuntimeSpec, StartOk(spec)
    PROVE  slot' # None /\ SlotSpec' = spec
<1>1. FreeEngine \in Engines
  BY FreeEngineExists DEF IInv
<1> QED BY <1>1 DEF StartOk, SlotSpec

LEMMA EmptySlot ==
    /\ slot' = None => SlotSpec' = None
    /\ slot' = slot => SlotSpec' = SlotSpec
    /\ StopEngine => slot' = None /\ SlotSpec' = None
BY DEF SlotSpec, StopEngine

LEMMA RollbackSteps ==
    ASSUME NoLateEngines, IInv, RequestedFails \/ RestoreFailedTarget
    PROVE  /\ Doing({"apply", "game"}) /\ slot = None /\ slot' = None
           /\ UNCHANGED <<gameVars, diskVars, bootSet>>
           /\ \/ /\ RollbackTo("target") /\ op.rb.target # None
                 /\ UNCHANGED lastApplied
              \/ /\ RollbackTo(AfterTarget)
                 /\ \/ UNCHANGED lastApplied
                    \/ /\ op.rb.target \in RuntimeSpec
                       /\ lastApplied' = [lastApplied EXCEPT ![op.rb.target.gpu] = op.rb.target]
<1>1. Doing({"apply", "game"}) /\ slot = None /\ op \in Ops
  BY HolderIsFree DEF RequestedFails, RestoreFailedTarget, InRollback, Doing
<1>2. slot' = None /\ UNCHANGED <<gameVars, diskVars, bootSet>>
  BY <1>1, NoLateCalls DEF RequestedFails, RestoreFailedTarget, StartFails, ApplyAndStop
<1>3. RestoreFailedTarget => op.rb.target \in RuntimeSpec
  BY <1>1, RollbackType DEF RestoreFailedTarget, Doing, IInv, HolderInv, Prepared, MaybeSpec
<1> QED BY <1>1, <1>2, <1>3, NoLateCalls DEF RequestedFails, RestoreFailedTarget

LEMMA RollbackLasts ==
    ASSUME NoLateEngines, IInv, RestorePrevious \/ FallBackToStock
    PROVE  /\ Doing({"apply", "game"}) /\ slot = None /\ op.rb.spec \in RuntimeSpec
           /\ UNCHANGED <<gameVars, lastApplied, bootSet>>
           /\ \/ /\ op.rb.pc = "previous" /\ op.rb.previous \in RuntimeSpec
                 /\ SlotSpec' = op.rb.previous /\ RollbackEnds(op.rb.previous, FALSE)
              \/ /\ op.rb.pc = "previous" /\ op.kind = "apply" /\ slot' = None
                 /\ RollbackTo("stock") /\ UNCHANGED diskVars
              \/ /\ op.rb.pc = "stock" /\ SlotSpec' = StockFallback(op.rb.spec)
                 /\ RollbackEnds(StockFallback(op.rb.spec), FALSE)
              \/ slot' = None /\ RollbackEnds(None, FALSE)
<1>1. Doing({"apply", "game"}) /\ slot = None /\ op \in Ops
  BY HolderIsFree DEF RestorePrevious, FallBackToStock, InRollback, Doing
<1>2. op.rb.spec \in RuntimeSpec /\ StockFallback(op.rb.spec) \in RuntimeSpec
  BY <1>1, RollbackType, StockFallbackType DEF Doing
<1>3. UNCHANGED <<gameVars, lastApplied, bootSet>>
  BY DEF RestorePrevious, FallBackToStock
<1>4. CASE RestorePrevious
  <2>1. op.rb.previous \in RuntimeSpec /\ op.rb.pc = "previous"
    BY <1>1, <1>4, RollbackType DEF RestorePrevious, Doing, IInv, HolderInv, Prepared, MaybeSpec,
       InRollback
  <2>2. \/ StartOk(op.rb.previous) /\ RollbackEnds(op.rb.previous, FALSE)
        \/ /\ StartFails(op.rb.previous) /\ op.kind = "apply"
           /\ RollbackTo("stock") /\ UNCHANGED diskVars
        \/ StartFails(op.rb.previous) /\ RollbackEnds(None, FALSE)
    BY <1>4, NoLateCalls DEF RestorePrevious
  <2>3. StartFails(op.rb.previous) => slot' = None
    BY <1>1 DEF StartFails
  <2> QED BY <1>1, <1>2, <1>3, <2>1, <2>2, <2>3, StartedSlot
<1>5. CASE FallBackToStock
  <2>1. op.rb.pc = "stock"
    BY <1>5 DEF FallBackToStock, InRollback
  <2>2. \/ StartOk(StockFallback(op.rb.spec)) /\ RollbackEnds(StockFallback(op.rb.spec), FALSE)
        \/ StartFails(StockFallback(op.rb.spec)) /\ RollbackEnds(None, FALSE)
    BY <1>5, NoLateCalls DEF FallBackToStock
  <2>3. StartFails(StockFallback(op.rb.spec)) => slot' = None
    BY <1>1 DEF StartFails
  <2> QED BY <1>1, <1>2, <1>3, <2>1, <2>2, <2>3, StartedSlot
<1> QED BY <1>4, <1>5

\* The autostart's steps: one engine may be left running, as the session's.
LEMMA AutostartSteps ==
    ASSUME NoLateEngines, IInv, RecoverActiveSession \/ RecoverWithStock \/ ReplayActive
    PROVE  /\ op' = Idle /\ slot = None /\ UNCHANGED <<historyFile, bootSet>>
           /\ \/ /\ slot' = None /\ UNCHANGED <<gameVars, activeFile>>
                 /\ lastApplied' = OrInsert(lastApplied, BootSpecs)
              \/ \E spec \in RuntimeSpec :
                    /\ SlotSpec' = spec /\ BecomesStanding(spec) /\ activeFile' = spec
                    /\ \/ /\ Doing({"recover"})
                          /\ spec \in {op.spec, StockFallback(op.spec)} /\ op.spec \in RuntimeSpec
                          /\ lastApplied' = OrInsert([lastApplied EXCEPT ![spec.gpu] = spec], BootSpecs)
                       \/ /\ Doing({"boot"}) /\ Head(op.todo) \in RuntimeSpec
                          /\ spec \in {Head(op.todo), StockFallback(Head(op.todo))}
                          /\ lastApplied' = [lastApplied EXCEPT ![spec.gpu] = spec]
<1>1. op # Idle /\ op.kind \in {"recover", "boot"} /\ slot = None /\ op \in Ops
  BY HolderIsFree DEF RecoverActiveSession, RecoverWithStock, ReplayActive, Recovering, Replaying
<1>2. op' = Idle /\ UNCHANGED <<historyFile, bootSet>>
  BY DEF RecoverActiveSession, RecoverWithStock, ReplayActive, RecoverEnds
<1>3. \A spec : StartFails(spec) => slot' = None
  BY <1>1 DEF StartFails
<1>4. CASE RecoverActiveSession \/ RecoverWithStock
  <2>1. Doing({"recover"}) /\ op.spec \in RuntimeSpec /\ StockFallback(op.spec) \in RuntimeSpec
    BY <1>1, <1>4, OpKinds, StockFallbackType DEF RecoverActiveSession, RecoverWithStock, Recovering,
       Doing, RecoverOps
  <2>2. \/ \E spec \in {op.spec, StockFallback(op.spec)} :
              /\ StartOk(spec) /\ BecomesStanding(spec) /\ activeFile' = spec
              /\ lastApplied' = OrInsert([lastApplied EXCEPT ![spec.gpu] = spec], BootSpecs)
        \/ /\ \E spec : StartFails(spec)
           /\ UNCHANGED <<gameVars, activeFile>>
           /\ lastApplied' = OrInsert(lastApplied, BootSpecs)
    BY <1>4, NoLateCalls DEF RecoverActiveSession, RecoverWithStock, Recovered
  <2> QED BY <1>1, <1>2, <1>3, <2>1, <2>2, StartedSlot
<1>5. CASE ReplayActive
  <2>1. Doing({"boot"}) /\ Head(op.todo) \in RuntimeSpec /\ StockFallback(Head(op.todo)) \in RuntimeSpec
    BY <1>1, <1>5, OpKinds, StockFallbackType DEF ReplayActive, Replaying, Doing, BootOps
  <2>2. ReplaySpec \in {Head(op.todo), StockFallback(Head(op.todo))}
    BY DEF ReplaySpec
  <2>3. /\ StartOk(ReplaySpec) /\ BecomesStanding(ReplaySpec) /\ activeFile' = ReplaySpec
        /\ lastApplied' = [lastApplied EXCEPT ![ReplaySpec.gpu] = ReplaySpec]
    BY <1>5, NoLateCalls DEF ReplayActive, Recovered
  <2> HIDE DEF ReplaySpec
  <2> QED BY <1>1, <1>2, <2>1, <2>2, <2>3, StartedSlot
<1> QED BY <1>4, <1>5

LEMMA ReplaySteps ==
    ASSUME NoLateEngines, IInv,
           RecoverFails \/ ReplaySkipsAbsent \/ ReplaySkipsStock \/ ReplayInactive \/ ReplayFails
    PROVE  /\ Doing({"recover", "boot"}) /\ slot = None /\ slot' = None
           /\ UNCHANGED <<gameVars, diskVars, bootSet>>
           /\ op' = Idle \/ op'.kind \in {"recover", "boot"}
<1>1. /\ Doing({"recover", "boot"}) /\ slot = None /\ op \in Ops
      /\ UNCHANGED <<gameVars, diskVars, bootSet>>
  BY HolderIsFree DEF RecoverFails, ReplaySkipsAbsent, ReplaySkipsStock, ReplayInactive,
     ReplayFails, Recovering, Replaying, Doing
<1>2. slot' = None
  BY <1>1, NoLateCalls DEF RecoverFails, ReplaySkipsAbsent, ReplaySkipsStock, ReplayInactive,
     ReplayFails, StartFails, ApplyAndStop, engineVars
<1>3. op' = Idle \/ op' = [op EXCEPT !.pc = "stock"] \/ ReplayNext
  BY NoLateCalls DEF RecoverFails, ReplaySkipsAbsent, ReplaySkipsStock, ReplayInactive,
     ReplayFails
<1>4. op' = Idle \/ op'.kind \in {"recover", "boot"}
  BY <1>1, <1>3, OpKinds DEF ReplayNext, Doing, RecoverOps, BootOps
<1> QED BY <1>1, <1>2, <1>4

-----------------------------------------------------------------------------
(***************************************************************************)
(* No file, cache or decision ever holds a profile that only games use:    *)
(* only the engine may be at one, while its game overrides the session.    *)
(***************************************************************************)
Tame(spec) == spec = None \/ ~OnlyGamesUse(spec.profile)

\* A boot set is saved from specs that the user may choose for the session.
TameBoots == \A set \in BootChoices : \A i \in 1..Len(set.specs) : Tame(set.specs[i])

Overridden == override /\ watches # {}

TameRecords ==
    /\ Tame(activeFile) /\ Tame(standing) /\ Tame(restore)
    /\ \A g \in Gpus : Tame(lastApplied[g]) /\ Tame(historyFile[g])
    /\ \A i \in 1..Len(bootSet.specs) : Tame(bootSet.specs[i])

TameSlot == Tame(SlotSpec) \/ Overridden

TameOp ==
    /\ Doing({"apply"}) => Tame(op.rb.spec)
    /\ Doing({"apply", "game"}) => Tame(op.rb.target) /\ (Tame(op.rb.previous) \/ Overridden)
    /\ Doing({"game"}) => Tame(op.standing) /\ Tame(op.restore)
    /\ Doing({"restore"}) => Tame(op.target) /\ Tame(op.standing)
    /\ Doing({"recover"}) => Tame(op.spec)
    /\ Doing({"boot"}) => \A i \in 1..Len(op.todo) : Tame(op.todo[i])

TameInv == TameRecords /\ TameSlot /\ TameOp

LEMMA TameSpecs ==
    /\ Tame(None)
    /\ \A spec \in RuntimeSpec : Tame(StockFallback(spec))
    /\ \A spec \in StandingSpecs : Tame(spec)
<1>1. \A spec \in RuntimeSpec : StockFallback(spec).profile = Stock
  BY DEF StockFallback, RuntimeSpec
<1> QED BY <1>1 DEF Tame, OnlyGamesUse

LEMMA IdleTame == ASSUME op' = Idle \/ op'.kind \in {"decide", "startup"} PROVE TameOp'
BY DEF TameOp, Doing

\* A cache that is filled up with tame specs stays tame.
LEMMA InsertTame ==
    ASSUME NEW cache, NEW specOf, \A g \in Gpus : Tame(cache[g]) /\ Tame(specOf[g])
    PROVE  \A g \in Gpus : Tame(OrInsert(cache, specOf)[g])
BY DEF OrInsert

LEMMA ExceptTame ==
    ASSUME NEW cache \in [Gpus -> MaybeSpec], NEW spec \in RuntimeSpec, Tame(spec),
           \A g \in Gpus : Tame(cache[g])
    PROVE  /\ [cache EXCEPT ![spec.gpu] = spec] \in [Gpus -> MaybeSpec]
           /\ \A g \in Gpus : Tame([cache EXCEPT ![spec.gpu] = spec][g])
BY SpecGpu DEF MaybeSpec

LEMMA BootSpecsTame ==
    ASSUME IInv, TameRecords
    PROVE  \A g \in Gpus : Tame(BootSpecs[g])
<1>1. \A g \in SavedGpus(bootSet.specs) : Tame(SpecOf(bootSet, g))
  <2>1. bootSet.specs \in Seq(RuntimeSpec)
    BY DEF IInv, RecordsInv, BootSets
  <2> QED BY <2>1, PositionFinds DEF SpecOf, TameRecords
<1> QED BY <1>1, TameSpecs DEF BootSpecs

LEMMA BootOrderTame ==
    ASSUME IInv, TameRecords, bootSet.specs # <<>>
    PROVE  \A i \in 1..Len(BootOrder) : Tame(BootOrder[i])
<1> DEFINE others == Without(bootSet.specs, BootActive)
           last == SpecOf(bootSet, BootActive)
<1>1. bootSet.specs \in Seq(RuntimeSpec) /\ bootSet \in BootSets
  BY DEF IInv, RecordsInv, BootSets
<1>2. /\ others \in Seq(RuntimeSpec)
      /\ \A i \in 1..Len(others) : \E j \in 1..Len(bootSet.specs) : others[i] = bootSet.specs[j]
  BY <1>1, WithoutAddsNone
<1>3. \A i \in 1..Len(others) : Tame(others[i])
  BY <1>2 DEF TameRecords
<1>4. BootActive \in SavedGpus(bootSet.specs)
  BY <1>1, BootActiveSaved DEF IInv, RecordsInv
<1>5. last \in RuntimeSpec /\ Tame(last)
  BY <1>1, <1>4, SpecOfType, PositionFinds DEF SpecOf, TameRecords
<1>6. BootOrder = Append(others, last)
  BY DEF BootOrder
<1> HIDE DEF others, last
<1>7. Len(BootOrder) = Len(others) + 1 /\ BootOrder[Len(others) + 1] = last
      /\ \A i \in 1..Len(others) : BootOrder[i] = others[i]
  BY <1>2, <1>5, <1>6
<1> QED BY <1>2, <1>3, <1>5, <1>7

\* The apply and its rollback.
LEMMA ApplyTame ==
    ASSUME NoLateEngines, IInv, SteadyInv, TameInv,
           ApplyStarts \/ RequestedFails \/ RestoreFailedTarget \/ RestorePrevious \/ FallBackToStock
    PROVE  TameInv'
<1>1. op \in Ops /\ lastApplied \in [Gpus -> MaybeSpec] /\ Doing({"apply", "game"})
  BY DEF IInv, HolderInv, RecordsInv, ApplyStarts, RequestedFails, RestoreFailedTarget,
     RestorePrevious, FallBackToStock, InRollback, Doing
<1>2. op.rb.spec \in RuntimeSpec
  BY <1>1, RollbackType DEF Doing
<1>3. CASE ApplyStarts
  <2>1. /\ Doing({"apply"}) /\ slot = None /\ op' = Idle
        /\ StartOk(op.rb.spec) /\ BecomesStanding(op.rb.spec)
        /\ lastApplied' = [lastApplied EXCEPT ![op.rb.spec.gpu] = op.rb.spec]
        /\ activeFile' = op.rb.spec /\ historyFile' = lastApplied' /\ bootSet' = bootSet
    BY <1>3, HolderIsFree DEF ApplyStarts, Doing
  <2>2. Tame(op.rb.spec) /\ TameRecords
    BY <2>1 DEF TameInv, TameOp
  <2>3. SlotSpec' = op.rb.spec
    BY <1>2, <2>1, StartedSlot
  <2>4. \A g \in Gpus : Tame(lastApplied'[g])
    BY <1>1, <1>2, <2>1, <2>2, ExceptTame DEF TameRecords
  <2>5. TameRecords'
    BY <2>1, <2>2, <2>4 DEF TameRecords, BecomesStanding
  <2> QED BY <2>1, <2>2, <2>3, <2>5, IdleTame DEF TameInv, TameSlot
<1>4. CASE RequestedFails \/ RestoreFailedTarget
  <2>1. /\ slot' = None /\ UNCHANGED <<gameVars, diskVars, bootSet>>
        /\ RollbackTo("target") \/ RollbackTo(AfterTarget)
        /\ \/ UNCHANGED lastApplied
           \/ /\ op.rb.target \in RuntimeSpec
              /\ lastApplied' = [lastApplied EXCEPT ![op.rb.target.gpu] = op.rb.target]
    BY <1>4, RollbackSteps
  <2>2. Tame(op.rb.target)
    BY <1>1 DEF TameInv, TameOp
  <2>3. \A g \in Gpus : Tame(lastApplied'[g])
    BY <1>1, <2>1, <2>2, ExceptTame DEF TameInv, TameRecords
  <2>4. TameRecords'
    BY <2>1, <2>3 DEF TameInv, TameRecords, gameVars, diskVars
  <2>5. TameOp'
    BY <1>1, <2>1, RollbackSame DEF TameInv, TameOp, Doing, Overridden, gameVars
  <2> QED BY <2>1, <2>4, <2>5, EmptySlot, TameSpecs DEF TameInv, TameSlot
<1>5. CASE RestorePrevious \/ FallBackToStock
  <2> DEFINE fallback == StockFallback(op.rb.spec)
  <2>1. /\ UNCHANGED <<gameVars, lastApplied, bootSet>>
        /\ \/ SlotSpec' = op.rb.previous /\ RollbackEnds(op.rb.previous, FALSE)
           \/ slot' = None /\ RollbackTo("stock") /\ UNCHANGED diskVars
           \/ SlotSpec' = fallback /\ RollbackEnds(fallback, FALSE)
           \/ slot' = None /\ RollbackEnds(None, FALSE)
    BY <1>5, RollbackLasts
  <2>2. Tame(fallback)
    BY <1>2, TameSpecs
  <2>3. Tame(op.rb.previous) \/ Overridden
    BY <1>1 DEF TameInv, TameOp
  <2>4. TameSlot'
    BY <2>1, <2>2, <2>3, EmptySlot, TameSpecs DEF TameSlot, Overridden, gameVars
  <2>5. ASSUME NEW spec, RollbackEnds(spec, FALSE), Tame(spec) \/ Overridden
        PROVE  TameRecords' /\ TameOp'
    <3>1. /\ op' = Idle
          /\ \/ UNCHANGED diskVars
             \/ historyFile' = lastApplied /\ (activeFile' \in {activeFile, None} \/ Tame(activeFile'))
      BY <2>5 DEF RollbackEnds, Overridden
    <3>2. TameRecords'
      BY <2>1, <3>1, TameSpecs DEF TameInv, TameRecords, gameVars, diskVars
    <3> QED BY <3>1, <3>2, IdleTame
  <2>6. ASSUME RollbackTo("stock"), UNCHANGED diskVars PROVE TameRecords' /\ TameOp'
    <3>1. TameRecords'
      BY <2>1, <2>6 DEF TameInv, TameRecords, gameVars, diskVars
    <3>2. TameOp'
      BY <1>1, <2>1, <2>6, RollbackSame DEF TameInv, TameOp, Doing, Overridden, gameVars
    <3> QED BY <3>1, <3>2
  <2> HIDE DEF fallback
  <2> QED BY <2>1, <2>2, <2>3, <2>4, <2>5, <2>6, TameSpecs DEF TameInv
<1> QED BY <1>3, <1>4, <1>5

\* A step that only ends something.
LEMMA TameFrame ==
    ASSUME TameInv, UNCHANGED <<gameVars, diskVars, lastApplied, bootSet>>,
           slot' \in {slot, None}, op' \in {op, Idle}
    PROVE  TameInv'
<1>1. TameRecords'
  BY DEF TameInv, TameRecords, gameVars, diskVars
<1>2. TameSlot'
  BY EmptySlot, TameSpecs DEF TameInv, TameSlot, Overridden, gameVars
<1>3. TameOp'
  BY IdleTame DEF TameInv, TameOp, Doing, Overridden, gameVars
<1> QED BY <1>1, <1>2, <1>3 DEF TameInv

\* What an apply or a game decides before it stops the engine.
LEMMA RollbackTargetTame ==
    ASSUME IInv, NEW spec \in RuntimeSpec, NEW known \in MaybeSpec, Tame(known)
    PROVE  Tame(NewRollback(spec, known).target)
BY TameSpecs DEF NewRollback, RollbackTarget

LEMMA BeginApplyTame ==
    ASSUME NoLateEngines, IInv, TameInv, NEW spec \in StandingSpecs, BeginApply(spec)
    PROVE  TameInv'
<1> DEFINE rb == NewRollback(spec, lastApplied[spec.gpu])
<1>1. /\ op' = [kind |-> "apply", rb |-> rb] /\ slot' = None
      /\ UNCHANGED <<gameVars, diskVars, lastApplied, bootSet>>
  BY NoLateCalls, EmptySlot DEF BeginApply
<1>2. spec \in RuntimeSpec /\ lastApplied[spec.gpu] \in MaybeSpec /\ Tame(lastApplied[spec.gpu])
  BY SpecGpu DEF IInv, RecordsInv, TameInv, TameRecords
<1>3. rb.spec = spec /\ rb.previous = SlotSpec /\ Tame(rb.target)
  BY <1>2, RollbackTargetTame DEF NewRollback
<1>4. TameRecords' /\ TameSlot'
  BY <1>1, EmptySlot, TameSpecs DEF TameInv, TameRecords, TameSlot, gameVars, diskVars
<1> HIDE DEF rb
<1>5. op'.kind = "apply" /\ op'.rb = rb
  BY <1>1
<1>6. TameOp'
  BY <1>1, <1>3, <1>5, TameSpecs DEF TameInv, TameOp, TameSlot, Doing, Overridden, gameVars
<1> QED BY <1>4, <1>6 DEF TameInv

LEMMA BeginGameTame == ASSUME NoLateEngines, IInv, SteadyInv, TameInv, BeginGame PROVE TameInv'
<1> DEFINE known == IF watches = {} THEN KnownSpec(op.spec) ELSE None
           under == IF watches = {} /\ EngineRuns THEN slot.spec ELSE None
           rb == NewRollback(GameFan(op.spec, known), known)
<1>1. /\ op' = [kind |-> "game", rb |-> rb, pid |-> op.pid, first |-> (watches = {}),
                standing |-> under, restore |-> known]
      /\ slot' = None /\ UNCHANGED <<gameVars, diskVars, lastApplied, bootSet>>
  BY NoLateCalls, EmptySlot DEF BeginGame
<1>2. op.spec \in RuntimeSpec
  BY OpKinds DEF BeginGame, IInv, HolderInv, GameDecisions
<1>3. watches = {} => Tame(SlotSpec)
  BY DEF TameInv, TameSlot, Overridden
<1>4. EngineRuns => SlotSpec = slot.spec
  BY DEF EngineRuns, SlotSpec
<1>5. known \in MaybeSpec /\ Tame(known)
  BY <1>2, <1>3, <1>4, KnownSpecType, SpecGpu, TameSpecs
     DEF IInv, RecordsInv, KnownSpec, TameInv, TameRecords, MaybeSpec
<1>6. Tame(under)
  BY <1>3, <1>4, TameSpecs
<1>7. rb.previous = SlotSpec
  BY DEF NewRollback
<1>8. Tame(rb.target)
  BY <1>2, <1>5, GameFanType, RollbackTargetTame DEF IInv
<1>9. TameRecords' /\ TameSlot'
  BY <1>1, EmptySlot, TameSpecs DEF TameInv, TameRecords, TameSlot, gameVars, diskVars
<1> HIDE DEF rb, known, under
<1>10. op'.kind = "game" /\ op'.rb = rb /\ op'.standing = under /\ op'.restore = known
  BY <1>1
<1>11. TameOp'
  BY <1>1, <1>5, <1>6, <1>7, <1>8, <1>10 DEF TameInv, TameOp, TameSlot, Doing, Overridden, gameVars
<1> QED BY <1>9, <1>11 DEF TameInv

LEMMA GameStartsTame == ASSUME IInv, TameInv, GameStarts PROVE TameInv'
<1>1. Doing({"game"}) /\ op' = Idle /\ Overridden'
  BY DEF GameStarts, Doing, Overridden
<1>2. Tame(op.standing) /\ Tame(op.restore)
  BY <1>1 DEF TameInv, TameOp
<1>3. TameRecords'
  BY <1>2 DEF GameStarts, TameInv, TameRecords, diskVars
<1> QED BY <1>1, <1>3, IdleTame DEF TameInv, TameSlot

\* The last game of a session has exited.
LEMMA RestoreFinishedTame ==
    ASSUME NoLateEngines, IInv, SteadyInv, TameInv, NEW then \in {Idle} \cup GameDecisions,
           RestoreFinishedGame(then)
    PROVE  TameInv'
<1>1. then = Idle \/ then.kind = "decide"
  BY DEF GameDecisions
<1>2. UNCHANGED <<diskVars, lastApplied, bootSet>>
  BY DEF RestoreFinishedGame
<1>3. CASE watches = {} \/ watches' # {}
  <2>1. op' = then /\ UNCHANGED <<standing, restore, override, slot>>
    BY <1>3 DEF RestoreFinishedGame, engineVars
  <2>2. TameRecords'
    BY <1>2, <2>1 DEF TameInv, TameRecords, diskVars
  <2>3. TameSlot'
    BY <1>3, <2>1, EmptySlot DEF TameInv, TameSlot, Overridden
  <2> QED BY <1>1, <2>1, <2>2, <2>3, IdleTame DEF TameInv
<1>4. CASE ~(watches = {} \/ watches' # {})
  <2>1. /\ standing' = None /\ restore' = None
        /\ \/ op' = then /\ slot' = slot /\ (~override \/ ChildRuns)
           \/ op' = RestorePlan(then) /\ StopEngine
    BY <1>4, NoLateCalls DEF RestoreFinishedGame, engineVars
  <2>2. TameRecords'
    BY <1>2, <2>1, TameSpecs DEF TameInv, TameRecords, diskVars
  <2>3. CASE op' = then /\ slot' = slot /\ (~override \/ ChildRuns)
    <3>1. Tame(SlotSpec)
      BY <2>3, SteadySlot, TameSpecs DEF TameInv, TameSlot, Overridden, SlotSpec
    <3>2. TameSlot'
      BY <2>3, <3>1, EmptySlot DEF TameSlot
    <3> QED BY <1>1, <2>2, <2>3, <3>2, IdleTame DEF TameInv
  <2>4. CASE op' = RestorePlan(then) /\ StopEngine
    <3>1. TameSlot'
      BY <2>4, EmptySlot, TameSpecs DEF TameSlot
    <3>2. Tame(GameRestoreTarget) /\ Tame(standing)
      BY TameSpecs DEF GameRestoreTarget, TameInv, TameRecords, IInv, EnginesInv
    <3>3. \/ op' = then
          \/ op'.kind = "restore" /\ op'.target = GameRestoreTarget /\ op'.standing = standing
      BY <2>4 DEF RestorePlan
    <3>4. TameOp'
      BY <1>1, <3>2, <3>3, IdleTame DEF TameOp, Doing
    <3> QED BY <2>2, <3>1, <3>4 DEF TameInv
  <2> QED BY <2>1, <2>3, <2>4
<1> QED BY <1>3, <1>4

LEMMA RestoreTame ==
    ASSUME NoLateEngines, IInv, TameInv, RestoreGameTarget \/ RestoreStanding
    PROVE  TameInv'
<1>1. /\ Doing({"restore"}) /\ slot = None /\ op \in RestoreOps /\ lastApplied \in [Gpus -> MaybeSpec]
      /\ UNCHANGED <<gameVars, diskVars, bootSet>>
  BY HolderIsFree, RestoreOpType DEF RestoreGameTarget, RestoreStanding, Doing, IInv, RecordsInv
<1>2. Tame(op.target) /\ Tame(op.standing)
  BY <1>1 DEF TameInv, TameOp
<1>3. op.then = Idle \/ op.then.kind = "decide"
  BY <1>1 DEF RestoreOps, GameDecisions
<1>4. CASE RestoreGameTarget
  <2>1. op.target \in RuntimeSpec
    BY <1>4, RestoreOpType DEF RestoreGameTarget
  <2>2. /\ slot' = None
        /\ op' \in {Idle, op.then} \/ op' = [op EXCEPT !.pc = "standing"]
        /\ \/ UNCHANGED lastApplied
           \/ lastApplied' = [lastApplied EXCEPT ![op.target.gpu] = op.target]
    BY <1>1, <1>4, NoLateCalls DEF RestoreGameTarget, ApplyAndStop, StartFails
  <2>3. \A g \in Gpus : Tame(lastApplied'[g])
    BY <1>1, <1>2, <2>1, <2>2, ExceptTame DEF TameInv, TameRecords
  <2>4. TameRecords' /\ TameSlot'
    BY <1>1, <2>2, <2>3, EmptySlot, TameSpecs DEF TameInv, TameRecords, TameSlot, gameVars, diskVars
  <2>5. op' = [op EXCEPT !.pc = "standing"] =>
          op'.kind = "restore" /\ op'.target = op.target /\ op'.standing = op.standing
    BY <1>1 DEF RestoreOps, Doing
  <2>6. TameOp'
    BY <1>2, <1>3, <2>2, <2>5, IdleTame DEF TameOp, Doing
  <2> QED BY <2>4, <2>6 DEF TameInv
<1>5. CASE RestoreStanding
  <2>1. op.standing \in RuntimeSpec
    BY <1>5, RestoreOpType DEF RestoreStanding
  <2>2. /\ op' \in {Idle, op.then} /\ UNCHANGED lastApplied
        /\ StartOk(op.standing) \/ slot' = None
    BY <1>1, <1>5, NoLateCalls DEF RestoreStanding, StartFails
  <2>3. SlotSpec' \in {op.standing, None}
    BY <1>1, <2>1, <2>2, StartedSlot, EmptySlot
  <2>4. TameRecords' /\ TameSlot'
    BY <1>1, <1>2, <2>2, <2>3, TameSpecs DEF TameInv, TameRecords, TameSlot, gameVars, diskVars
  <2> QED BY <1>3, <2>2, <2>4, IdleTame DEF TameInv
<1> QED BY <1>4, <1>5

\* The autostart: its plan, and the replay of the session or the boot set.
LEMMA StartAutostartTame == ASSUME IInv, TameInv, StartAutostart PROVE TameInv'
<1>1. /\ UNCHANGED <<gameVars, diskVars, bootSet, slot>>
      /\ \/ op' = Idle /\ UNCHANGED lastApplied
         \/ op' = AutostartPlan /\ lastApplied' = OrInsert(lastApplied, historyFile)
  BY DEF StartAutostart, engineVars
<1>2. \A g \in Gpus : Tame(lastApplied'[g])
  BY <1>1, InsertTame DEF TameInv, TameRecords
<1>3. TameRecords' /\ TameSlot'
  BY <1>1, <1>2, EmptySlot DEF TameInv, TameRecords, TameSlot, Overridden, gameVars, diskVars
<1>4. \/ op' = Idle
      \/ op'.kind = "recover" /\ op'.spec = activeFile
      \/ op'.kind = "boot" /\ op'.todo = BootOrder /\ bootSet.specs # <<>>
  BY <1>1 DEF AutostartPlan
<1>5. TameOp'
  BY <1>4, IdleTame, BootOrderTame DEF TameInv, TameRecords, TameOp, Doing
<1> QED BY <1>3, <1>5 DEF TameInv

LEMMA AutostartTame ==
    ASSUME NoLateEngines, IInv, TameInv, RecoverActiveSession \/ RecoverWithStock \/ ReplayActive
    PROVE  TameInv'
<1>1. /\ op' = Idle /\ UNCHANGED <<historyFile, bootSet>>
      /\ \/ /\ slot' = None /\ UNCHANGED <<gameVars, activeFile>>
            /\ lastApplied' = OrInsert(lastApplied, BootSpecs)
         \/ \E spec \in RuntimeSpec :
               /\ SlotSpec' = spec /\ BecomesStanding(spec) /\ activeFile' = spec
               /\ \/ /\ Doing({"recover"})
                     /\ spec \in {op.spec, StockFallback(op.spec)} /\ op.spec \in RuntimeSpec
                     /\ lastApplied' = OrInsert([lastApplied EXCEPT ![spec.gpu] = spec], BootSpecs)
                  \/ /\ Doing({"boot"}) /\ Head(op.todo) \in RuntimeSpec
                     /\ spec \in {Head(op.todo), StockFallback(Head(op.todo))}
                     /\ lastApplied' = [lastApplied EXCEPT ![spec.gpu] = spec]
  BY AutostartSteps
<1>2. \A g \in Gpus : Tame(BootSpecs[g])
  BY BootSpecsTame DEF TameInv
<1>3. CASE slot' = None /\ UNCHANGED <<gameVars, activeFile>>
           /\ lastApplied' = OrInsert(lastApplied, BootSpecs)
  <2>1. \A g \in Gpus : Tame(lastApplied'[g])
    BY <1>2, <1>3, InsertTame DEF TameInv, TameRecords
  <2>2. TameRecords' /\ TameSlot'
    BY <1>1, <1>3, <2>1, EmptySlot, TameSpecs DEF TameInv, TameRecords, TameSlot, gameVars
  <2> QED BY <1>1, <2>2, IdleTame DEF TameInv
<1>4. ASSUME NEW spec \in RuntimeSpec, SlotSpec' = spec, BecomesStanding(spec), activeFile' = spec,
             \/ /\ Doing({"recover"})
                /\ spec \in {op.spec, StockFallback(op.spec)} /\ op.spec \in RuntimeSpec
                /\ lastApplied' = OrInsert([lastApplied EXCEPT ![spec.gpu] = spec], BootSpecs)
             \/ /\ Doing({"boot"}) /\ Head(op.todo) \in RuntimeSpec
                /\ spec \in {Head(op.todo), StockFallback(Head(op.todo))}
                /\ lastApplied' = [lastApplied EXCEPT ![spec.gpu] = spec]
      PROVE  TameInv'
  <2>1. Doing({"recover"}) => Tame(op.spec)
    BY DEF TameInv, TameOp
  <2>2. Doing({"boot"}) => Tame(Head(op.todo))
    <3>1. SUFFICES ASSUME Doing({"boot"}) PROVE Tame(Head(op.todo))
      OBVIOUS
    <3>2. op.todo \in Seq(RuntimeSpec) \ {<<>>}
      BY <3>1, OpKinds DEF IInv, HolderInv, Doing, BootOps
    <3> QED BY <3>1, <3>2 DEF TameInv, TameOp
  <2>3. Tame(spec)
    BY <1>4, <2>1, <2>2, TameSpecs
  <2>4. \A g \in Gpus : Tame([lastApplied EXCEPT ![spec.gpu] = spec][g])
    BY <2>3, ExceptTame DEF IInv, RecordsInv, TameInv, TameRecords
  <2>5. \A g \in Gpus : Tame(lastApplied'[g])
    BY <1>2, <1>4, <2>4, InsertTame
  <2>6. TameRecords' /\ TameSlot'
    BY <1>1, <1>4, <2>3, <2>5 DEF TameInv, TameRecords, TameSlot, BecomesStanding
  <2> QED BY <1>1, <2>6, IdleTame DEF TameInv
<1> QED BY <1>1, <1>3, <1>4

LEMMA ReplayTame ==
    ASSUME NoLateEngines, IInv, TameInv,
           RecoverFails \/ ReplaySkipsAbsent \/ ReplaySkipsStock \/ ReplayInactive \/ ReplayFails
    PROVE  TameInv'
<1>1. /\ slot = None /\ op \in Ops /\ UNCHANGED <<gameVars, diskVars, bootSet>>
      /\ Doing({"recover", "boot"}) /\ lastApplied \in [Gpus -> MaybeSpec]
  BY ReplaySteps DEF IInv, HolderInv, RecordsInv
<1>2. slot' = None
  BY ReplaySteps
<1>3. CASE RecoverFails
  <2>1. op \in RecoverOps /\ op' = [op EXCEPT !.pc = "stock"] /\ UNCHANGED lastApplied
    BY <1>1, <1>3, OpKinds DEF RecoverFails, Recovering
  <2>2. op'.kind = "recover" /\ op.kind = "recover" /\ op'.spec = op.spec
    BY <2>1 DEF RecoverOps
  <2>3. TameOp'
    BY <1>1, <2>2 DEF TameInv, TameOp, Doing
  <2> QED BY <1>1, <1>2, <2>1, <2>3, EmptySlot, TameSpecs
          DEF TameInv, TameRecords, TameSlot, gameVars, diskVars
<1>4. CASE ReplaySkipsAbsent \/ ReplaySkipsStock \/ ReplayInactive \/ ReplayFails
  <2>1. op \in BootOps /\ Doing({"boot"})
    BY <1>1, <1>4, OpKinds DEF ReplaySkipsAbsent, ReplaySkipsStock, ReplayInactive, ReplayFails,
       Replaying, Doing
  <2>2. op.todo \in Seq(RuntimeSpec) /\ op.todo # <<>> /\ \A i \in 1..Len(op.todo) : Tame(op.todo[i])
    BY <2>1 DEF BootOps, TameInv, TameOp
  <2>3. /\ Head(op.todo) \in RuntimeSpec /\ Tame(Head(op.todo))
        /\ ReplaySpec \in RuntimeSpec /\ Tame(ReplaySpec)
    BY <2>2, TameSpecs, StockFallbackType DEF ReplaySpec
  <2>4. \/ UNCHANGED lastApplied
        \/ lastApplied' = [lastApplied EXCEPT ![Head(op.todo).gpu] = Head(op.todo)]
        \/ lastApplied' = [lastApplied EXCEPT ![ReplaySpec.gpu] = ReplaySpec]
    BY <1>4 DEF ReplaySkipsAbsent, ReplaySkipsStock, ReplayInactive, ReplayFails
  <2>5. \A g \in Gpus : Tame(lastApplied'[g])
    <3> HIDE DEF ReplaySpec
    <3> QED BY <1>1, <2>3, <2>4, ExceptTame DEF TameInv, TameRecords
  <2>6. op' = Idle \/ ReplayNext \/ op' = [op EXCEPT !.pc = "stock"]
    BY <1>4, NoLateCalls DEF ReplaySkipsAbsent, ReplaySkipsStock, ReplayInactive, ReplayFails
  <2>7. \/ op' = Idle
        \/ op'.kind = "boot" /\ op'.todo \in {op.todo, Tail(op.todo)}
    BY <2>1, <2>6 DEF BootOps, ReplayNext
  <2>8. \A i \in 1..Len(Tail(op.todo)) : Tame(Tail(op.todo)[i])
    <3>1. /\ Len(Tail(op.todo)) = Len(op.todo) - 1 /\ Len(op.todo) \in Nat \ {0}
          /\ \A i \in 1..Len(op.todo) - 1 : Tail(op.todo)[i] = op.todo[i + 1]
      BY <2>2
    <3> QED BY <2>2, <3>1
  <2>9. TameOp'
    BY <2>2, <2>7, <2>8, IdleTame DEF TameOp, Doing
  <2> QED BY <1>1, <1>2, <2>5, <2>9, EmptySlot, TameSpecs
          DEF TameInv, TameRecords, TameSlot, gameVars, diskVars
<1> QED BY <1>3, <1>4

\* Requests and threads that let go of the mutex at once.
LEMMA StopTame == ASSUME NoLateEngines, IInv, SteadyInv, TameInv, StopRuntimeProfile PROVE TameInv'
<1>1. /\ op' = Idle /\ slot' = None /\ UNCHANGED <<lastApplied, diskVars, bootSet, restore, watches>>
      /\ standing' \in {standing, None}
  BY NoLateCalls, SteadySlot, EmptySlot DEF StopRuntimeProfile, engineVars
<1>2. TameRecords' /\ TameSlot'
  BY <1>1, EmptySlot, TameSpecs DEF TameInv, TameRecords, TameSlot, diskVars
<1> QED BY <1>1, <1>2, IdleTame DEF TameInv

LEMMA ClearTame == ASSUME TameInv, ClearActiveRuntime PROVE TameInv'
<1>1. TameRecords'
  BY TameSpecs DEF ClearActiveRuntime, TameInv, TameRecords, gameVars
<1>2. TameSlot' /\ TameOp'
  BY EmptySlot DEF ClearActiveRuntime, TameInv, TameSlot, TameOp, Doing, Overridden, gameVars, engineVars
<1> QED BY <1>1, <1>2 DEF TameInv

LEMMA CrashTame == ASSUME TameInv, Crash PROVE TameInv'
<1>1. ForgetsMemory /\ activeFile' \in {activeFile, None} /\ historyFile' \in {historyFile, NothingApplied}
  BY DEF Crash, DaemonRestarts, MachineReboots, diskVars
<1>2. op' = Idle \/ op'.kind = "startup"
  BY <1>1 DEF ForgetsMemory, Starting
<1>3. TameRecords' /\ TameSlot'
  BY <1>1, EmptySlot, TameSpecs DEF ForgetsMemory, TameInv, TameRecords, TameSlot, NothingApplied
<1> QED BY <1>2, <1>3, IdleTame DEF TameInv

LEMMA InitTame == ASSUME TameBoots, Init PROVE TameInv
<1>1. TameRecords /\ TameSlot
  BY TameSpecs DEF TameBoots, Init, TameRecords, TameSlot, SlotSpec, NothingApplied
<1>2. TameOp
  BY DEF Init, Starting, TameOp, Doing
<1> QED BY <1>1, <1>2 DEF TameInv

LEMMA TameKeeps ==
    ASSUME NoLateEngines, IInv, SteadyInv, TameInv, [Next]_vars
    PROVE  TameInv'
<1>1. CASE HolderStep
  <2>1. RefuseGame => TameInv'
    BY TameFrame DEF RefuseGame, engineVars
  <2>2. BeginGame \/ GameStarts \/ StartupAutostart => TameInv'
    BY BeginGameTame, GameStartsTame, StartAutostartTame DEF StartupAutostart
  <2> QED BY <1>1, <2>1, <2>2, ApplyTame, RestoreTame, AutostartTame, ReplayTame DEF HolderStep
<1>2. CASE Request
  <2>1. BeginChild => TameInv'
    BY NoLateCalls, EmptySlot, TameFrame DEF BeginChild
  <2>2. \A p \in Pids : GameLaunches(p) \/ GameExits(p) => TameInv'
    BY TameFrame DEF GameLaunches, GameExits, engineVars
  <2>3. \A spec \in GameSpecs, p \in Pids : RequestGame(spec, p) => TameInv'
    BY RestoreFinishedTame DEF RequestGame, GameDecisions
  <2> QED BY <1>2, <2>1, <2>2, <2>3, BeginApplyTame, StopTame DEF Request
<1>3. CASE Background
  <2>1. (\E i \in Engines : EngineExits(i)) => TameInv'
    BY TameFrame DEF EngineExits
  <2>2. ReapGameWatches => TameInv'
    BY RestoreFinishedTame DEF ReapGameWatches
  <2>3. (\E n \in 1..MaxChildren : ChildExits(n) \/ FinishChild(n)) => TameInv'
    BY TameFrame DEF ChildExits, FinishChild, engineVars
  <2>4. ResumeAutostart => TameInv'
    BY StartAutostartTame DEF ResumeAutostart
  <2>5. WatcherDecidesStart => TameInv'
    BY TameFrame DEF WatcherDecidesStart, engineVars
  <2>6. ParkRuntime => TameInv'
    BY NoLateCalls, EmptySlot, TameFrame DEF ParkRuntime
  <2> QED BY <1>3, <2>1, <2>2, <2>3, <2>4, <2>5, <2>6, ClearTame DEF Background
<1>4. CASE Crash
  BY <1>4, CrashTame
<1>5. CASE UNCHANGED vars
  BY <1>5, TameFrame DEF vars, engineVars
<1> QED BY <1>1, <1>2, <1>3, <1>4, <1>5 DEF Next

\* GamesStayTemporary: with engines that stop when they are told, and boot sets
\* that were saved from specs a user may choose for the session, no per-game
\* profile gets into the files or the cache of applied specs: not by a failed
\* apply under a game, a rollback, a restore, an autostart or a crash.
THEOREM GamesAreTemporary ==
    ASSUME NoLateEngines, TameBoots PROVE Spec => []GamesStayTemporary
<1>1. Init => TameInv
  BY InitTame
<1>2. IInv /\ SteadyInv /\ TameInv /\ [Next]_vars => TameInv'
  BY TameKeeps
<1>3. TameInv => GamesStayTemporary
  BY DEF TameInv, TameRecords, Tame, GamesStayTemporary
<1> QED BY <1>1, <1>2, <1>3, AlwaysIInv, AlwaysSteady, PTL DEF Spec

-----------------------------------------------------------------------------
(***************************************************************************)
(* What runs, what is standing and what is persisted never are two         *)
(* different profiles, unless a game overrides what runs.                  *)
(***************************************************************************)
Fits(a, b) == a = None \/ b = None \/ IsStock(a) \/ IsStock(b) \/ a = b

Intended(spec) ==
    ~override => Fits(spec, activeFile) /\ (watches # {} => Fits(spec, standing))

IntentStanding ==
    /\ override => watches # {}
    /\ watches # {} => Fits(standing, activeFile)

IntentOp ==
    /\ Doing({"apply", "game"}) => Intended(op.rb.previous)
    /\ Doing({"game"}) => /\ op.first <=> watches = {}
                          /\ op.first => Fits(op.standing, activeFile)
    /\ Doing({"restore"}) => watches = {} /\ Fits(op.standing, activeFile)

IntentInv == IntentStanding /\ (Waiting => Intended(SlotSpec)) /\ IntentOp

LEMMA FitsAnything ==
    /\ \A spec : Fits(None, spec) /\ Fits(spec, None) /\ Fits(spec, spec)
    /\ \A a, b : Fits(a, b) => Fits(b, a)
    /\ \A other : \A spec \in RuntimeSpec :
           Fits(StockFallback(spec), other) /\ Fits(other, StockFallback(spec))
<1>1. \A spec \in RuntimeSpec : IsStock(StockFallback(spec))
  BY DEF IsStock, StockFallback, RuntimeSpec
<1> QED BY <1>1 DEF Fits

LEMMA NothingIntended == Intended(None) /\ Intended(None)'
BY FitsAnything DEF Intended, Fits

\* A step that at most ends a handler, empties the slot or clears the file.
LEMMA IntentFrame ==
    ASSUME IntentInv, UNCHANGED gameVars, activeFile' \in {activeFile, None},
           slot' = None \/ (slot' = slot /\ (Waiting \/ op' = op)),
           op' = op \/ op' = Idle \/ op'.kind \notin {"apply", "game", "restore"}
    PROVE  IntentInv'
<1>1. \A spec : Fits(spec, activeFile) => Fits(spec, activeFile')
  BY FitsAnything
<1>2. \A spec : Intended(spec) => Intended(spec)'
  BY <1>1 DEF Intended, gameVars
<1>3. IntentStanding'
  BY <1>1 DEF IntentInv, IntentStanding, gameVars
<1>4. Waiting' => Intended(SlotSpec)'
  <2>1. CASE slot' = None
    BY <2>1, EmptySlot, NothingIntended DEF Intended
  <2>2. CASE slot' = slot /\ (Waiting \/ op' = op)
    <3>1. Waiting' => Intended(SlotSpec)
      BY <2>2 DEF IntentInv, Waiting
    <3>2. SlotSpec' = SlotSpec
      BY <2>2, EmptySlot
    <3>3. SUFFICES ASSUME Intended(SlotSpec) PROVE Intended(SlotSpec)'
      BY <3>1
    <3> QED BY <1>1, <3>2, <3>3 DEF Intended, gameVars
  <2> QED BY <2>1, <2>2
<1>5. IntentOp'
  <2>1. CASE op' = op
    BY <1>1, <2>1 DEF IntentInv, IntentOp, Doing, Intended, gameVars
  <2>2. CASE op' = Idle \/ op'.kind \notin {"apply", "game", "restore"}
    BY <2>2 DEF IntentOp, Doing
  <2> QED BY <2>1, <2>2
<1> QED BY <1>3, <1>4, <1>5 DEF IntentInv

\* A spec that is started and recorded as the session's ends any override.
LEMMA SessionStarts ==
    ASSUME IntentInv, NEW spec, SlotSpec' = spec, BecomesStanding(spec), activeFile' = spec,
           op' = Idle
    PROVE  IntentInv'
<1>1. override' = FALSE
  BY DEF BecomesStanding, IntentInv, IntentStanding
<1>2. watches' # {} => standing' = spec
  BY DEF BecomesStanding
<1>3. IntentStanding' /\ IntentOp'
  BY <1>1, <1>2, FitsAnything DEF IntentStanding, IntentOp, Doing
<1>4. Intended(SlotSpec)'
  BY <1>2, FitsAnything DEF Intended
<1> QED BY <1>3, <1>4 DEF IntentInv

LEMMA ApplyIntent ==
    ASSUME NoLateEngines, IInv, IntentInv,
           ApplyStarts \/ RequestedFails \/ RestoreFailedTarget \/ RestorePrevious \/ FallBackToStock
    PROVE  IntentInv'
<1>1. op \in Ops /\ Doing({"apply", "game"}) /\ slot = None
  BY HolderIsFree DEF IInv, HolderInv, ApplyStarts, RequestedFails, RestoreFailedTarget,
     RestorePrevious, FallBackToStock, InRollback, Doing
<1>2. op.rb.spec \in RuntimeSpec /\ Intended(op.rb.previous)
  BY <1>1, RollbackType DEF Doing, IntentInv, IntentOp
<1>3. CASE ApplyStarts
  <2>1. /\ op' = Idle /\ StartOk(op.rb.spec) /\ BecomesStanding(op.rb.spec)
        /\ activeFile' = op.rb.spec
    BY <1>3 DEF ApplyStarts
  <2>2. SlotSpec' = op.rb.spec
    BY <1>1, <1>2, <2>1, StartedSlot
  <2> QED BY <2>1, <2>2, SessionStarts
<1>4. ASSUME UNCHANGED <<gameVars, diskVars>>, slot' = None, NEW pc, RollbackTo(pc)
      PROVE  IntentInv'
  <2>1. IntentStanding'
    BY <1>4 DEF IntentInv, IntentStanding, gameVars, diskVars
  <2>2. IntentOp'
    BY <1>1, <1>4, RollbackSame DEF IntentInv, IntentOp, Intended, Doing, gameVars, diskVars
  <2> QED BY <1>4, <2>1, <2>2, EmptySlot, FitsAnything DEF IntentInv, Intended
<1>5. CASE RequestedFails \/ RestoreFailedTarget
  BY <1>4, <1>5, RollbackSteps
<1>6. CASE RestorePrevious \/ FallBackToStock
  <2> DEFINE fallback == StockFallback(op.rb.spec)
  <2>1. /\ UNCHANGED gameVars
        /\ \/ SlotSpec' = op.rb.previous /\ RollbackEnds(op.rb.previous, FALSE)
           \/ slot' = None /\ RollbackTo("stock") /\ UNCHANGED diskVars
           \/ SlotSpec' = fallback /\ RollbackEnds(fallback, FALSE)
           \/ SlotSpec' = None /\ RollbackEnds(None, FALSE)
    BY <1>6, RollbackLasts, EmptySlot
  <2>2. Intended(fallback) /\ Intended(None)
    BY <1>2, FitsAnything DEF Intended
  <2>3. ASSUME NEW spec, Intended(spec), SlotSpec' = spec, RollbackEnds(spec, FALSE),
               UNCHANGED gameVars
        PROVE  IntentInv'
    <3>1. /\ op' = Idle /\ UNCHANGED <<override, watches, standing>>
          /\ \/ activeFile' = activeFile
             \/ ~Overridden /\ activeFile' = spec
      BY <2>3 DEF RollbackEnds, Overridden, gameVars, diskVars
    <3>2. override => watches # {}
      BY DEF IntentInv, IntentStanding
    <3>3. activeFile' = spec /\ ~Overridden => ~override
      BY <3>2 DEF Overridden
    <3>4. IntentStanding'
      BY <2>3, <3>1, <3>3, FitsAnything DEF IntentInv, IntentStanding, Intended
    <3>5. Intended(SlotSpec)'
      BY <2>3, <3>1, <3>3, FitsAnything DEF Intended
    <3> QED BY <3>1, <3>4, <3>5 DEF IntentInv, IntentOp, Doing
  <2> HIDE DEF fallback
  <2> QED BY <1>2, <1>4, <2>1, <2>2, <2>3
<1> QED BY <1>3, <1>5, <1>6

LEMMA BeginIntent ==
    ASSUME NoLateEngines, IInv, IntentInv, (\E spec \in StandingSpecs : BeginApply(spec)) \/ BeginGame
    PROVE  IntentInv'
<1>1. /\ Waiting /\ Intended(SlotSpec)
      /\ slot' = None /\ UNCHANGED <<gameVars, diskVars>>
  BY NoLateCalls, EmptySlot DEF BeginApply, BeginGame, Waiting, IntentInv
<1>2. /\ op'.kind \in {"apply", "game"} /\ op'.rb.previous = SlotSpec
      /\ op'.kind = "game" =>
            /\ op'.first = (watches = {})
            /\ op'.standing = IF watches = {} /\ EngineRuns THEN slot.spec ELSE None
  BY NoLateCalls DEF BeginApply, BeginGame, NewRollback
<1>3. watches = {} /\ EngineRuns => Fits(slot.spec, activeFile)
  BY <1>1 DEF Intended, IntentInv, IntentStanding, EngineRuns, SlotSpec
<1>4. IntentStanding'
  BY <1>1 DEF IntentInv, IntentStanding, gameVars, diskVars
<1>5. IntentOp'
  <2>1. Intended(op.rb.previous)'
    BY <1>1, <1>2 DEF Intended, gameVars, diskVars
  <2>2. op'.kind = "game" => (op'.first <=> watches' = {})
    BY <1>1, <1>2 DEF gameVars
  <2>3. op'.kind = "game" /\ watches = {} => Fits(op'.standing, activeFile')
    BY <1>1, <1>2, <1>3, FitsAnything DEF diskVars
  <2> QED BY <1>1, <1>2, <2>1, <2>2, <2>3 DEF IntentOp, Doing, gameVars
<1> QED BY <1>1, <1>4, <1>5, EmptySlot, FitsAnything DEF IntentInv, Intended

LEMMA GameStartsIntent == ASSUME IInv, IntentInv, GameStarts PROVE IntentInv'
<1>1. /\ Doing({"game"}) /\ op' = Idle /\ override' = TRUE /\ watches' # {}
      /\ standing' = IF op.first THEN op.standing ELSE standing
      /\ activeFile' = activeFile
  BY DEF GameStarts, Doing, diskVars
<1>2. Fits(standing', activeFile)
  BY <1>1 DEF IntentInv, IntentOp, IntentStanding
<1> QED BY <1>1, <1>2 DEF IntentInv, IntentStanding, IntentOp, Intended, Doing

LEMMA RestoreFinishedIntent ==
    ASSUME NoLateEngines, IInv, SteadyInv, IntentInv, NEW then \in {Idle} \cup GameDecisions,
           RestoreFinishedGame(then)
    PROVE  IntentInv'
<1>1. (then = Idle \/ then.kind = "decide") /\ activeFile' = activeFile
  BY DEF GameDecisions, RestoreFinishedGame, diskVars
<1>2. Intended(SlotSpec) /\ op = Idle
  BY DEF RestoreFinishedGame, IntentInv, Waiting
<1>3. CASE watches = {} \/ watches' # {}
  <2>1. op' = then /\ UNCHANGED <<standing, override, slot>> /\ (watches' # {} <=> watches # {})
    BY <1>3 DEF RestoreFinishedGame, engineVars
  <2>2. SlotSpec' = SlotSpec
    BY <2>1, EmptySlot
  <2>3. IntentStanding' /\ Intended(SlotSpec)'
    BY <1>1, <1>2, <2>1, <2>2 DEF IntentInv, IntentStanding, Intended
  <2> QED BY <1>1, <2>1, <2>3 DEF IntentInv, IntentOp, Doing
<1>4. CASE ~(watches = {} \/ watches' # {})
  <2>1. /\ standing' = None /\ override' = FALSE /\ watches' = {} /\ watches # {}
        /\ \/ op' = then /\ slot' = slot /\ (~override \/ ChildRuns)
           \/ op' = RestorePlan(then) /\ StopEngine
    BY <1>4, NoLateCalls DEF RestoreFinishedGame, engineVars
  <2>2. IntentStanding'
    BY <2>1 DEF IntentStanding
  <2>3. Fits(standing, activeFile)
    BY <2>1 DEF IntentInv, IntentStanding
  <2>4. CASE op' = then /\ slot' = slot /\ (~override \/ ChildRuns)
    <3>1. Fits(SlotSpec, activeFile)
      BY <1>2, <2>4, SteadySlot, FitsAnything DEF Intended, SlotSpec
    <3>2. Intended(SlotSpec)'
      BY <1>1, <2>1, <2>4, <3>1, EmptySlot DEF Intended
    <3> QED BY <1>1, <2>2, <2>4, <3>2 DEF IntentInv, IntentOp, Doing
  <2>5. CASE op' = RestorePlan(then) /\ StopEngine
    <3>1. Intended(SlotSpec)'
      BY <2>5, EmptySlot, FitsAnything DEF Intended
    <3>2. op' = then \/ (op'.kind = "restore" /\ op'.standing = standing)
      BY <2>5 DEF RestorePlan
    <3>3. IntentOp'
      BY <1>1, <2>1, <2>3, <3>2 DEF IntentOp, Doing
    <3> QED BY <2>2, <3>1, <3>3 DEF IntentInv
  <2> QED BY <2>1, <2>4, <2>5
<1> QED BY <1>3, <1>4

LEMMA RestoreIntent ==
    ASSUME NoLateEngines, IInv, IntentInv, RestoreGameTarget \/ RestoreStanding
    PROVE  IntentInv'
<1>1. /\ Doing({"restore"}) /\ slot = None /\ op \in RestoreOps
      /\ UNCHANGED <<gameVars, diskVars>>
  BY HolderIsFree, RestoreOpType DEF RestoreGameTarget, RestoreStanding, Doing
<1>2. watches = {} /\ Fits(op.standing, activeFile)
  BY <1>1 DEF IntentInv, IntentOp
<1>3. op.then = Idle \/ op.then.kind = "decide"
  BY <1>1 DEF RestoreOps, GameDecisions
<1>4. IntentStanding'
  BY <1>1 DEF IntentInv, IntentStanding, gameVars, diskVars
<1>5. SlotSpec' \in {op.standing, None}
  <2>1. RestoreStanding => op.standing \in RuntimeSpec
    BY RestoreOpType DEF RestoreStanding
  <2>2. slot' = None \/ (RestoreStanding /\ StartOk(op.standing))
    BY <1>1, NoLateCalls DEF RestoreGameTarget, RestoreStanding, StartFails, ApplyAndStop
  <2> QED BY <1>1, <2>1, <2>2, StartedSlot, EmptySlot
<1>6. Intended(SlotSpec)'
  BY <1>1, <1>2, <1>5, FitsAnything DEF Intended, gameVars, diskVars
<1>7. op' \in {Idle, op.then} \/ op' = [op EXCEPT !.pc = "standing"]
  BY NoLateCalls DEF RestoreGameTarget, RestoreStanding
<1>8. op' = [op EXCEPT !.pc = "standing"] => op'.kind = "restore" /\ op'.standing = op.standing
  BY <1>1 DEF RestoreOps, Doing
<1>9. IntentOp'
  BY <1>1, <1>2, <1>3, <1>7, <1>8 DEF IntentOp, Doing, gameVars, diskVars
<1> QED BY <1>4, <1>6, <1>9 DEF IntentInv

LEMMA StartAutostartIntent ==
    ASSUME IInv, IntentInv, StartAutostart, op = Idle \/ op.kind # "decide"
    PROVE  IntentInv'
<1>1. UNCHANGED <<gameVars, diskVars, slot>>
  BY DEF StartAutostart, engineVars
<1>2. op' = Idle \/ op'.kind \in {"recover", "boot"}
  BY DEF StartAutostart, AutostartPlan
<1>3. op # Idle => slot = None
  BY HolderIsFree
<1> QED BY <1>1, <1>2, <1>3, IntentFrame DEF Waiting, diskVars

LEMMA AutostartIntent ==
    ASSUME NoLateEngines, IInv, IntentInv,
           \/ RecoverActiveSession \/ RecoverWithStock \/ ReplayActive
           \/ RecoverFails \/ ReplaySkipsAbsent \/ ReplaySkipsStock \/ ReplayInactive \/ ReplayFails
    PROVE  IntentInv'
<1>1. CASE RecoverActiveSession \/ RecoverWithStock \/ ReplayActive
  <2>1. /\ op' = Idle
        /\ \/ slot' = None /\ UNCHANGED <<gameVars, activeFile>>
           \/ \E spec : SlotSpec' = spec /\ BecomesStanding(spec) /\ activeFile' = spec
    BY <1>1, AutostartSteps
  <2> QED BY <2>1, IntentFrame, SessionStarts
<1>2. CASE RecoverFails \/ ReplaySkipsAbsent \/ ReplaySkipsStock \/ ReplayInactive \/ ReplayFails
  <2>1. /\ slot' = None /\ UNCHANGED <<gameVars, diskVars>>
        /\ op' = Idle \/ op'.kind \in {"recover", "boot"}
    BY <1>2, ReplaySteps
  <2> QED BY <2>1, IntentFrame DEF diskVars
<1> QED BY <1>1, <1>2

LEMMA StopIntent == ASSUME NoLateEngines, IInv, SteadyInv, IntentInv, StopRuntimeProfile PROVE IntentInv'
<1>1. /\ op' = Idle /\ slot' = None /\ UNCHANGED <<activeFile, watches>>
      /\ watches = {} => UNCHANGED <<standing, override>>
      /\ watches # {} => standing' = None /\ override' = FALSE
  BY NoLateCalls, SteadySlot, EmptySlot DEF StopRuntimeProfile, engineVars, diskVars
<1>2. IntentStanding' /\ IntentOp'
  BY <1>1, FitsAnything DEF IntentInv, IntentStanding, IntentOp, Doing
<1> QED BY <1>1, <1>2, EmptySlot, FitsAnything DEF IntentInv, Intended

LEMMA CrashIntent == ASSUME Crash PROVE IntentInv'
<1>1. ForgetsMemory
  BY DEF Crash, DaemonRestarts, MachineReboots
<1>2. slot' = None /\ override' = FALSE /\ watches' = {} /\ (op' = Idle \/ op'.kind = "startup")
  BY <1>1 DEF ForgetsMemory, Starting
<1> QED BY <1>2, EmptySlot, FitsAnything DEF IntentInv, IntentStanding, IntentOp, Intended, Doing

LEMMA IntentKeeps ==
    ASSUME NoLateEngines, IInv, SteadyInv, IntentInv, [Next]_vars
    PROVE  IntentInv'
<1>1. CASE HolderStep
  <2>1. RefuseGame => IntentInv'
    BY IntentFrame DEF RefuseGame, engineVars, diskVars, Waiting
  <2>2. StartupAutostart => IntentInv'
    BY StartAutostartIntent DEF StartupAutostart
  <2> QED BY <1>1, <2>1, <2>2, ApplyIntent, BeginIntent, GameStartsIntent, RestoreIntent,
          AutostartIntent DEF HolderStep
<1>2. CASE Request
  <2>1. BeginChild \/ StopRuntimeProfile => IntentInv'
    BY NoLateCalls, EmptySlot, IntentFrame, StopIntent DEF BeginChild, diskVars
  <2>2. \A p \in Pids : GameLaunches(p) \/ GameExits(p) => IntentInv'
    BY IntentFrame DEF GameLaunches, GameExits, engineVars, diskVars
  <2>3. \A spec \in GameSpecs, p \in Pids : RequestGame(spec, p) => IntentInv'
    BY RestoreFinishedIntent DEF RequestGame, GameDecisions
  <2> QED BY <1>2, <2>1, <2>2, <2>3, BeginIntent DEF Request
<1>3. CASE Background
  <2>1. (\E i \in Engines : EngineExits(i)) => IntentInv'
    BY IntentFrame DEF EngineExits, diskVars
  <2>2. ReapGameWatches => IntentInv'
    BY RestoreFinishedIntent DEF ReapGameWatches
  <2>3. (\E n \in 1..MaxChildren : ChildExits(n) \/ FinishChild(n)) => IntentInv'
    BY IntentFrame DEF ChildExits, FinishChild, engineVars, diskVars
  <2>4. ResumeAutostart => IntentInv'
    BY StartAutostartIntent DEF ResumeAutostart
  <2>5. WatcherDecidesStart \/ ClearActiveRuntime => IntentInv'
    BY IntentFrame DEF WatcherDecidesStart, ClearActiveRuntime, engineVars, diskVars
  <2>6. ParkRuntime => IntentInv'
    BY NoLateCalls, EmptySlot, IntentFrame DEF ParkRuntime, diskVars
  <2> QED BY <1>3, <2>1, <2>2, <2>3, <2>4, <2>5, <2>6 DEF Background
<1>4. CASE Crash
  BY <1>4, CrashIntent
<1>5. CASE UNCHANGED vars
  BY <1>5, IntentFrame DEF vars, engineVars, diskVars
<1> QED BY <1>1, <1>2, <1>3, <1>4, <1>5 DEF Next

LEMMA AlwaysIntent == ASSUME NoLateEngines PROVE Spec => []IntentInv
<1>1. Init => IntentInv
  BY FitsAnything DEF Init, Starting, IntentInv, IntentStanding, IntentOp, Intended, Doing, SlotSpec
<1>2. IInv /\ SteadyInv /\ IntentInv /\ [Next]_vars => IntentInv'
  BY IntentKeeps
<1> QED BY <1>1, <1>2, AlwaysIInv, AlwaysSteady, PTL DEF Spec

\* PersistedIntent: with engines that stop when they are told, a profile that
\* runs while no game overrides it is the one a child or a crash brings back,
\* whatever fails, is rolled back, parked, stopped or replayed in between.
THEOREM WhatRunsIsPersisted == ASSUME NoLateEngines PROVE Spec => []PersistedIntent
<1>1. IInv /\ IntentInv => PersistedIntent
  <2>1. SUFFICES ASSUME IInv, IntentInv, op = Idle, ~override, EngineRuns, activeFile # None,
                        ~IsStock(slot.spec), ~IsStock(activeFile)
                 PROVE  activeFile = slot.spec
    BY DEF PersistedIntent
  <2>2. Fits(slot.spec, activeFile) /\ slot.spec # None
    BY <2>1 DEF IntentInv, Waiting, Intended, EngineRuns, SlotSpec, IInv, EnginesInv
  <2> QED BY <2>1, <2>2 DEF Fits
<1> QED BY <1>1, AlwaysIInv, AlwaysIntent, PTL

\* StandingSurvives: under the same assumption the standing profile that a game
\* hides is the one on disk, so that its exit and a crash agree on what to run.
THEOREM StandingIsPersisted == ASSUME NoLateEngines PROVE Spec => []StandingSurvives
<1>1. IntentInv => StandingSurvives
  BY DEF IntentInv, IntentStanding, Fits, StandingSurvives
<1> QED BY <1>1, AlwaysIntent, PTL

-----------------------------------------------------------------------------
(***************************************************************************)
(* The fan curve of the session's profile is not lost under a game.  What  *)
(* the engine is at, what a rollback would go back to and what a game is   *)
(* about to start all have the fan on, or are a Stock override, past which *)
(* the next game preset looks.                                             *)
(***************************************************************************)
\* stand is the session's, as it is on disk, and drives the fan of this GPU.
Drives(stand, gpu) == stand # None /\ stand.fan /\ stand = activeFile /\ stand.gpu = gpu

KeepsFan(spec, stand) ==
    spec # None /\ Drives(stand, spec.gpu) => spec.fan \/ (override /\ IsStock(spec))

\* What will be standing under the game that the handler is about to start.
Underneath == IF op.first THEN op.standing ELSE standing

FanOp ==
    /\ watches # {} /\ Doing({"apply", "game"}) => KeepsFan(op.rb.previous, standing)
    /\ Doing({"game"}) =>
          /\ ~op.first => op.rb.previous # None
          /\ op.rb.pc = "stock" => op.rb.previous = None
          /\ Drives(Underneath, op.rb.spec.gpu) /\ ~IsStock(op.rb.spec) => op.rb.spec.fan

FanInv == (watches # {} /\ Waiting => KeepsFan(SlotSpec, standing)) /\ FanOp

LEMMA FanFrame ==
    ASSUME FanInv, UNCHANGED gameVars, activeFile' \in {activeFile, None},
           slot' = None \/ (slot' = slot /\ (Waiting \/ op' = op)),
           op' = op \/ op' = Idle \/ op'.kind \notin {"apply", "game"}
    PROVE  FanInv'
<1>1. \A stand, gpu : Drives(stand, gpu)' => Drives(stand, gpu)
  BY DEF Drives
<1>2. watches' # {} /\ Waiting' => KeepsFan(SlotSpec, standing)'
  <2>1. CASE slot' = None
    BY <2>1, EmptySlot DEF KeepsFan
  <2>2. CASE slot' = slot /\ (Waiting \/ op' = op)
    <3>1. SlotSpec' = SlotSpec /\ UNCHANGED <<standing, override>>
      BY <2>2, EmptySlot DEF gameVars
    <3>2. SUFFICES ASSUME KeepsFan(SlotSpec, standing) PROVE KeepsFan(SlotSpec, standing)'
      BY <2>2 DEF FanInv, Waiting, gameVars
    <3> QED BY <3>1, <3>2 DEF KeepsFan, Drives
  <2> QED BY <2>1, <2>2
<1>3. FanOp'
  <2>1. CASE op' = op
    <3>1. UNCHANGED <<standing, override, watches, Underneath>>
      BY <2>1 DEF gameVars, Underneath
    <3> QED BY <2>1, <3>1 DEF FanInv, FanOp, KeepsFan, Drives, Doing
  <2>2. CASE op' = Idle \/ op'.kind \notin {"apply", "game"}
    BY <2>2 DEF FanOp, Doing
  <2> QED BY <2>1, <2>2
<1> QED BY <1>2, <1>3 DEF FanInv

LEMMA SessionStartsFan ==
    ASSUME NEW spec, SlotSpec' = spec, BecomesStanding(spec), activeFile' = spec, op' = Idle
    PROVE  FanInv'
<1>1. watches' # {} => standing' = spec
  BY DEF BecomesStanding
<1>2. watches' # {} => KeepsFan(SlotSpec, standing)'
  BY <1>1 DEF KeepsFan, Drives
<1> QED BY <1>2 DEF FanInv, FanOp, Doing

LEMMA ApplyFan ==
    ASSUME NoLateEngines, IInv, IntentInv, FanInv,
           ApplyStarts \/ RequestedFails \/ RestoreFailedTarget \/ RestorePrevious \/ FallBackToStock
    PROVE  FanInv'
<1>1. op \in Ops /\ Doing({"apply", "game"}) /\ slot = None
  BY HolderIsFree DEF IInv, HolderInv, ApplyStarts, RequestedFails, RestoreFailedTarget,
     RestorePrevious, FallBackToStock, InRollback, Doing
<1>2. op.rb.spec \in RuntimeSpec
  BY <1>1, RollbackType DEF Doing
<1>3. watches # {} => KeepsFan(op.rb.previous, standing)
  BY <1>1 DEF FanInv, FanOp
<1>4. CASE ApplyStarts
  <2>1. /\ op' = Idle /\ StartOk(op.rb.spec) /\ BecomesStanding(op.rb.spec)
        /\ activeFile' = op.rb.spec
    BY <1>4 DEF ApplyStarts
  <2>2. SlotSpec' = op.rb.spec
    BY <1>1, <1>2, <2>1, StartedSlot
  <2> QED BY <2>1, <2>2, SessionStartsFan
<1>5. ASSUME UNCHANGED <<gameVars, diskVars>>, slot' = None, NEW pc, RollbackTo(pc),
             op.kind = "game" /\ pc = "stock" => op.rb.previous = None
      PROVE  FanInv'
  <2>1. /\ op'.kind = op.kind /\ op'.rb.pc = pc
        /\ op'.rb.spec = op.rb.spec /\ op'.rb.previous = op.rb.previous
        /\ op.kind = "game" => op'.first = op.first /\ op'.standing = op.standing
    BY <1>1, <1>5, RollbackSame
  <2>2. op.kind = "game" => Underneath' = Underneath
    BY <1>5, <2>1 DEF Underneath, gameVars
  <2>3. KeepsFan(op.rb.previous, standing)' <=> KeepsFan(op.rb.previous, standing)
    BY <1>5, <2>1 DEF KeepsFan, Drives, gameVars, diskVars
  <2>4. op.kind = "game" =>
           /\ ~op.first => op.rb.previous # None
           /\ Drives(Underneath, op.rb.spec.gpu) /\ ~IsStock(op.rb.spec) => op.rb.spec.fan
    BY <1>1 DEF FanInv, FanOp, Doing
  <2>5. FanOp'
    BY <1>3, <1>5, <2>1, <2>2, <2>3, <2>4 DEF FanOp, Drives, Doing, gameVars, diskVars
  <2>6. KeepsFan(SlotSpec, standing)'
    BY <1>5, EmptySlot DEF KeepsFan
  <2> QED BY <2>5, <2>6 DEF FanInv
<1>6. CASE RequestedFails \/ RestoreFailedTarget
  <2>1. AfterTarget = "stock" => op.rb.previous = None
    BY DEF AfterTarget
  <2> QED BY <1>5, <1>6, <2>1, RollbackSteps
<1>7. CASE RestorePrevious \/ FallBackToStock
  <2> DEFINE fallback == StockFallback(op.rb.spec)
  <2>1. /\ UNCHANGED gameVars
        /\ \/ SlotSpec' = op.rb.previous /\ RollbackEnds(op.rb.previous, FALSE)
           \/ slot' = None /\ RollbackTo("stock") /\ UNCHANGED diskVars /\ op.kind = "apply"
           \/ op.rb.pc = "stock" /\ SlotSpec' = fallback /\ RollbackEnds(fallback, FALSE)
           \/ SlotSpec' = None /\ RollbackEnds(None, FALSE)
    BY <1>7, RollbackLasts, EmptySlot
  <2>2. override => watches # {}
    BY DEF IntentInv, IntentStanding
  <2>3. \A spec : RollbackEnds(spec, FALSE) =>
            /\ op' = Idle
            /\ \/ activeFile' = activeFile /\ (op.kind = "game" \/ override)
               \/ activeFile' = spec
    BY <1>1, <2>2 DEF RollbackEnds, diskVars, Doing
  <2>4. ASSUME SlotSpec' = op.rb.previous, RollbackEnds(op.rb.previous, FALSE)
        PROVE  FanInv'
    <3>1. UNCHANGED <<standing, override, watches>>
      BY <2>1 DEF gameVars
    <3>2. CASE activeFile' = activeFile
      BY <1>3, <2>3, <2>4, <3>1, <3>2 DEF FanInv, FanOp, KeepsFan, Drives, Doing
    <3>3. CASE activeFile' = op.rb.previous
      BY <2>3, <2>4, <3>3 DEF FanInv, FanOp, KeepsFan, Drives, Doing
    <3> QED BY <2>3, <2>4, <3>2, <3>3
  <2>5. ASSUME op.rb.pc = "stock", SlotSpec' = fallback, RollbackEnds(fallback, FALSE)
        PROVE  FanInv'
    <3>1. fallback.fan = FALSE /\ IsStock(fallback)
      BY <1>2 DEF StockFallback, RuntimeSpec, IsStock
    <3>2. op.kind = "game" => watches = {}
      BY <1>1, <2>5 DEF FanInv, FanOp, IntentInv, IntentOp, Doing
    <3> HIDE DEF fallback
    <3>3. UNCHANGED <<standing, override, watches>>
      BY <2>1 DEF gameVars
    <3>4. CASE override \/ watches = {}
      BY <2>3, <2>5, <3>1, <3>3, <3>4 DEF FanInv, FanOp, KeepsFan, Doing
    <3>5. CASE activeFile' = fallback
      BY <2>3, <2>5, <3>1, <3>5 DEF FanInv, FanOp, KeepsFan, Drives, Doing
    <3> QED BY <2>3, <2>5, <3>2, <3>4, <3>5
  <2>6. ASSUME SlotSpec' = None, op' = Idle
        PROVE  FanInv'
    BY <2>6 DEF FanInv, FanOp, KeepsFan, Doing
  <2> HIDE DEF fallback
  <2> QED BY <1>5, <2>1, <2>3, <2>4, <2>5, <2>6
<1> QED BY <1>4, <1>6, <1>7

\* The fan policy a game preset inherits is the standing one of its GPU.
LEMMA GameFanInherits ==
    ASSUME IInv, SteadyInv, IntentInv, FanInv, Waiting, NEW spec \in RuntimeSpec,
           NEW known \in MaybeSpec, watches # {} => SlotGpu = spec.gpu,
           NEW stand, stand = IF watches # {} THEN standing
                              ELSE IF EngineRuns THEN slot.spec ELSE None,
           Drives(stand, GameFan(spec, known).gpu), ~IsStock(GameFan(spec, known))
    PROVE  GameFan(spec, known).fan
<1> DEFINE current == IF SlotGpu = spec.gpu THEN SlotSpec ELSE None
           underGame == IF standing # None /\ standing.gpu = spec.gpu THEN standing
                        ELSE restore
           source == IF override /\ current # None /\ IsStock(current) THEN underGame
                     ELSE IF current # None THEN current ELSE known
<1>1. GameFan(spec, known) = IF ~IsStock(spec) /\ ~spec.fan /\ source # None
                             THEN [spec EXCEPT !.fan = source.fan] ELSE spec
  BY DEF GameFan
<1>2. GameFan(spec, known).gpu = spec.gpu /\ (IsStock(GameFan(spec, known)) <=> IsStock(spec))
  <2> HIDE DEF source
  <2> QED BY <1>1 DEF RuntimeSpec, IsStock
<1>3. stand # None /\ stand.fan /\ stand = activeFile /\ stand.gpu = spec.gpu
  BY <1>2 DEF Drives
<1>4. SlotGpu = spec.gpu /\ SlotSpec # None /\ SlotSpec.gpu = spec.gpu
  <2>1. spec.gpu # NoGpu
    BY SpecGpu, BootSetAssumption
  <2>2. SlotGpu = spec.gpu
    BY <1>3 DEF SlotGpu, EngineRuns
  <2>3. SlotSpec # None
    BY <2>1, <2>2 DEF SlotGpu, SlotSpec, IInv, EnginesInv
  <2> QED BY <2>1, <2>2, <2>3 DEF SlotGpu, SlotSpec
<1>5. source # None /\ source.fan
  <2>1. CASE watches = {}
    <3>1. ~override /\ stand = SlotSpec
      BY <1>3, <2>1 DEF IntentInv, IntentStanding, SlotSpec, EngineRuns
    <3> QED BY <1>3, <1>4, <3>1
  <2>2. CASE watches # {}
    <3>1. stand = standing
      BY <2>2
    <3>2. SlotSpec.fan \/ (override /\ IsStock(SlotSpec))
      BY <1>3, <1>4, <2>2, <3>1 DEF FanInv, KeepsFan, Drives
    <3>3. CASE override /\ IsStock(SlotSpec)
      BY <1>3, <1>4, <3>1, <3>3
    <3>4. CASE ~(override /\ IsStock(SlotSpec))
      BY <1>4, <3>2, <3>4
    <3> QED BY <3>3, <3>4
  <2> QED BY <2>1, <2>2
<1> HIDE DEF source
<1> QED BY <1>1, <1>2, <1>5 DEF RuntimeSpec

LEMMA BeginFan ==
    ASSUME NoLateEngines, IInv, SteadyInv, IntentInv, FanInv,
           (\E spec \in StandingSpecs : BeginApply(spec)) \/ BeginGame
    PROVE  FanInv'
<1>1. /\ Waiting /\ (watches # {} => KeepsFan(SlotSpec, standing))
      /\ slot' = None /\ UNCHANGED <<gameVars, diskVars>>
  BY NoLateCalls, EmptySlot DEF BeginApply, BeginGame, Waiting, FanInv
<1>2. op'.rb.previous = SlotSpec /\ op'.rb.pc = "start"
  BY NoLateCalls DEF BeginApply, BeginGame, NewRollback
<1>3. watches' # {} => KeepsFan(op.rb.previous, standing)'
  BY <1>1, <1>2 DEF KeepsFan, Drives, gameVars, diskVars
<1>4. KeepsFan(SlotSpec, standing)'
  BY <1>1, EmptySlot DEF KeepsFan
<1>5. CASE \E spec \in StandingSpecs : BeginApply(spec)
  <2>1. op'.kind = "apply"
    BY <1>5, NoLateCalls DEF BeginApply
  <2> QED BY <1>3, <1>4, <2>1 DEF FanInv, FanOp, Doing
<1>6. CASE BeginGame
  <2> DEFINE known == IF watches = {} THEN KnownSpec(op.spec) ELSE None
             fanned == GameFan(op.spec, known)
             under == IF watches = {} /\ EngineRuns THEN slot.spec ELSE None
  <2>1. /\ op'.kind = "game" /\ op'.rb.spec = fanned /\ op'.standing = under
        /\ (op'.first <=> watches = {})
    <3>1. op' = [kind |-> "game", rb |-> NewRollback(fanned, known), pid |-> op.pid,
                 first |-> (watches = {}), standing |-> under, restore |-> known]
      BY <1>6, NoLateCalls DEF BeginGame
    <3>2. NewRollback(fanned, known).spec = fanned
      BY DEF NewRollback
    <3> HIDE DEF fanned, under, known
    <3> QED BY <3>1, <3>2
  <2>2. op.spec \in RuntimeSpec /\ op # Idle /\ op.kind = "decide"
    BY <1>6, OpKinds DEF BeginGame, IInv, HolderInv, GameDecisions
  <2>3. known \in MaybeSpec
    BY <2>2, KnownSpecType DEF IInv, MaybeSpec
  <2>4. watches # {} => SlotGpu = op.spec.gpu
    BY <1>6 DEF BeginGame, GameRefused
  <2>5. watches # {} => SlotSpec # None
    <3>1. op.spec.gpu # NoGpu
      BY <2>2, SpecGpu, BootSetAssumption
    <3> QED BY <2>4, <3>1 DEF SlotGpu, SlotSpec, IInv, EnginesInv
  <2> DEFINE stand == IF watches # {} THEN standing ELSE IF EngineRuns THEN slot.spec ELSE None
  <2> HIDE DEF known
  <2>6. Drives(stand, fanned.gpu) /\ ~IsStock(fanned) => fanned.fan
    BY <1>1, <2>2, <2>3, <2>4, GameFanInherits
  <2>7. Underneath' = stand
    BY <1>1, <2>1 DEF Underneath, gameVars
  <2> HIDE DEF fanned, under, stand
  <2>8. Drives(Underneath, op.rb.spec.gpu)' <=> Drives(stand, fanned.gpu)
    BY <1>1, <2>1, <2>7 DEF Drives, diskVars
  <2>9. Drives(Underneath, op.rb.spec.gpu)' /\ ~IsStock(op'.rb.spec) => op'.rb.spec.fan
    BY <2>1, <2>6, <2>8
  <2>10. FanOp'
    BY <1>1, <1>2, <1>3, <2>1, <2>5, <2>9 DEF FanOp, Doing
  <2> QED BY <1>4, <2>10 DEF FanInv
<1> QED BY <1>5, <1>6

LEMMA GameStartsFan == ASSUME IInv, IntentInv, FanInv, GameStarts PROVE FanInv'
<1>1. /\ Doing({"game"}) /\ op' = Idle /\ override' = TRUE
      /\ standing' = Underneath /\ activeFile' = activeFile /\ slot = None
  BY HolderIsFree DEF GameStarts, Doing, Underneath, diskVars
<1>2. op.rb.spec \in RuntimeSpec
  BY <1>1, RollbackType DEF Doing, IInv, HolderInv
<1>3. SlotSpec' = op.rb.spec
  BY <1>1, <1>2, StartedSlot DEF GameStarts
<1>4. Drives(Underneath, op.rb.spec.gpu) /\ ~IsStock(op.rb.spec) => op.rb.spec.fan
  BY <1>1 DEF FanInv, FanOp
<1>5. KeepsFan(SlotSpec, standing)'
  BY <1>1, <1>3, <1>4 DEF KeepsFan, Drives
<1> QED BY <1>1, <1>5 DEF FanInv, FanOp, Doing

LEMMA RestoreFinishedFan ==
    ASSUME FanInv, NEW then \in {Idle} \cup GameDecisions, RestoreFinishedGame(then)
    PROVE  FanInv'
<1>1. op' = Idle \/ op'.kind \in {"decide", "restore"}
  BY DEF GameDecisions, RestoreFinishedGame, RestorePlan
<1>2. FanOp'
  BY <1>1 DEF FanOp, Doing
<1>3. ASSUME watches' # {} PROVE KeepsFan(SlotSpec, standing)'
  <2>1. op = Idle /\ watches # {} /\ UNCHANGED <<standing, override, slot, activeFile>>
    BY <1>3 DEF RestoreFinishedGame, engineVars, diskVars
  <2>2. KeepsFan(SlotSpec, standing)
    BY <2>1 DEF FanInv, Waiting
  <2> QED BY <2>1, <2>2, EmptySlot DEF KeepsFan, Drives
<1> QED BY <1>2, <1>3 DEF FanInv

LEMMA RestoreFan ==
    ASSUME IInv, IntentInv, RestoreGameTarget \/ RestoreStanding
    PROVE  FanInv'
<1>1. Doing({"restore"}) /\ op \in RestoreOps /\ UNCHANGED gameVars
  BY RestoreOpType DEF RestoreGameTarget, RestoreStanding, Doing
<1>2. watches' = {}
  BY <1>1 DEF IntentInv, IntentOp, gameVars
<1>3. op' = Idle \/ op'.kind \in {"decide", "restore"}
  BY <1>1 DEF RestoreGameTarget, RestoreStanding, RestoreOps, GameDecisions, Doing
<1> QED BY <1>2, <1>3 DEF FanInv, FanOp, Doing

LEMMA StartAutostartFan ==
    ASSUME IInv, FanInv, StartAutostart, op = Idle \/ op.kind # "decide"
    PROVE  FanInv'
<1>1. UNCHANGED <<gameVars, diskVars, slot>>
  BY DEF StartAutostart, engineVars
<1>2. op' = Idle \/ op'.kind \in {"recover", "boot"}
  BY DEF StartAutostart, AutostartPlan
<1>3. op # Idle => slot = None
  BY HolderIsFree
<1> QED BY <1>1, <1>2, <1>3, FanFrame DEF Waiting, diskVars

LEMMA AutostartFan ==
    ASSUME NoLateEngines, IInv, FanInv,
           \/ RecoverActiveSession \/ RecoverWithStock \/ ReplayActive
           \/ RecoverFails \/ ReplaySkipsAbsent \/ ReplaySkipsStock \/ ReplayInactive \/ ReplayFails
    PROVE  FanInv'
<1>1. CASE RecoverActiveSession \/ RecoverWithStock \/ ReplayActive
  <2>1. /\ op' = Idle
        /\ \/ slot' = None /\ UNCHANGED <<gameVars, activeFile>>
           \/ \E spec : SlotSpec' = spec /\ BecomesStanding(spec) /\ activeFile' = spec
    BY <1>1, AutostartSteps
  <2> QED BY <2>1, FanFrame, SessionStartsFan
<1>2. CASE RecoverFails \/ ReplaySkipsAbsent \/ ReplaySkipsStock \/ ReplayInactive \/ ReplayFails
  <2>1. /\ slot' = None /\ UNCHANGED <<gameVars, diskVars>>
        /\ op' = Idle \/ op'.kind \in {"recover", "boot"}
    BY <1>2, ReplaySteps
  <2> QED BY <2>1, FanFrame DEF diskVars
<1> QED BY <1>1, <1>2

LEMMA StopFan == ASSUME NoLateEngines, IInv, SteadyInv, StopRuntimeProfile PROVE FanInv'
<1>1. op' = Idle /\ slot' = None
  BY NoLateCalls, SteadySlot, EmptySlot DEF StopRuntimeProfile, engineVars
<1> QED BY <1>1, EmptySlot DEF FanInv, FanOp, KeepsFan, Doing

LEMMA CrashFan == ASSUME Crash PROVE FanInv'
<1>1. slot' = None /\ (op' = Idle \/ op'.kind = "startup")
  BY DEF Crash, DaemonRestarts, MachineReboots, ForgetsMemory, Starting
<1> QED BY <1>1, EmptySlot DEF FanInv, FanOp, KeepsFan, Doing

LEMMA FanKeeps ==
    ASSUME NoLateEngines, IInv, SteadyInv, IntentInv, FanInv, [Next]_vars
    PROVE  FanInv'
<1>1. CASE HolderStep
  <2>1. RefuseGame => FanInv'
    BY FanFrame DEF RefuseGame, engineVars, diskVars, Waiting
  <2>2. StartupAutostart => FanInv'
    BY StartAutostartFan DEF StartupAutostart
  <2> QED BY <1>1, <2>1, <2>2, ApplyFan, BeginFan, GameStartsFan, RestoreFan, AutostartFan
          DEF HolderStep
<1>2. CASE Request
  <2>1. BeginChild \/ StopRuntimeProfile => FanInv'
    BY NoLateCalls, EmptySlot, FanFrame, StopFan DEF BeginChild, diskVars
  <2>2. \A p \in Pids : GameLaunches(p) \/ GameExits(p) => FanInv'
    BY FanFrame DEF GameLaunches, GameExits, engineVars, diskVars
  <2>3. \A spec \in GameSpecs, p \in Pids : RequestGame(spec, p) => FanInv'
    BY RestoreFinishedFan DEF RequestGame, GameDecisions
  <2> QED BY <1>2, <2>1, <2>2, <2>3, BeginFan DEF Request
<1>3. CASE Background
  <2>1. (\E i \in Engines : EngineExits(i)) => FanInv'
    BY FanFrame DEF EngineExits, diskVars
  <2>2. ReapGameWatches => FanInv'
    BY RestoreFinishedFan DEF ReapGameWatches
  <2>3. (\E n \in 1..MaxChildren : ChildExits(n) \/ FinishChild(n)) => FanInv'
    BY FanFrame DEF ChildExits, FinishChild, engineVars, diskVars
  <2>4. ResumeAutostart => FanInv'
    BY StartAutostartFan DEF ResumeAutostart
  <2>5. WatcherDecidesStart \/ ClearActiveRuntime => FanInv'
    BY FanFrame DEF WatcherDecidesStart, ClearActiveRuntime, engineVars, diskVars
  <2>6. ParkRuntime => FanInv'
    BY NoLateCalls, EmptySlot, FanFrame DEF ParkRuntime, diskVars
  <2> QED BY <1>3, <2>1, <2>2, <2>3, <2>4, <2>5, <2>6 DEF Background
<1>4. CASE Crash
  BY <1>4, CrashFan
<1>5. CASE UNCHANGED vars
  BY <1>5, FanFrame DEF vars, engineVars, diskVars
<1> QED BY <1>1, <1>2, <1>3, <1>4, <1>5 DEF Next

\* FanKept: with engines that stop when they are told, a game's profile on the
\* GPU of the session's has the session's fan curve on, whatever presets, Stock
\* overrides, failed applies, rollbacks and restores came before it.
THEOREM GamesKeepTheFan == ASSUME NoLateEngines PROVE Spec => []FanKept
<1>1. Init => FanInv
  BY DEF Init, Starting, FanInv, FanOp, Doing
<1>2. IInv /\ SteadyInv /\ IntentInv /\ FanInv /\ [Next]_vars => FanInv'
  BY FanKeeps
<1>3. IInv /\ IntentInv /\ FanInv => FanKept
  <2>1. SUFFICES ASSUME IInv, IntentInv, FanInv, override, standing # None, standing.fan,
                        standing = activeFile, EngineRuns, slot.spec.gpu = standing.gpu,
                        ~IsStock(slot.spec)
                 PROVE  slot.spec.fan
    BY DEF FanKept
  <2>2. slot # None /\ SlotSpec = slot.spec /\ slot.spec \in RuntimeSpec
    BY <2>1 DEF EngineRuns, SlotSpec, IInv, EnginesInv
  <2>3. watches # {} /\ Waiting /\ slot.spec # None
    BY <2>1, <2>2, HolderIsFree DEF IntentInv, IntentStanding, Waiting
  <2> QED BY <2>1, <2>2, <2>3 DEF FanInv, KeepsFan, Drives
<1> QED BY <1>1, <1>2, <1>3, AlwaysIInv, AlwaysSteady, AlwaysIntent, PTL DEF Spec

-----------------------------------------------------------------------------
(***************************************************************************)
(* Clients that leave the daemon alone (CalmNext): with a boot set nothing *)
(* is asked of it but children, and without one it is not killed.          *)
(***************************************************************************)
LEMMA CalmIsNext == [CalmNext]_vars => [Next]_vars
BY DEF CalmNext, CalmRequest, Next, Request

LEMMA CalmSafe == CalmSpec => []IInv
<1>1. CalmSpec => Init /\ [][CalmNext]_vars
  BY DEF CalmSpec
<1>2. IInv /\ [CalmNext]_vars => IInv'
  BY CalmIsNext, HolderStepKeeps, RequestKeeps, BackgroundKeeps, CrashKeeps, StutterKeeps DEF Next
<1> QED BY <1>1, <1>2, InitInv, PTL

LEMMA BootSetStays == ASSUME [CalmNext]_vars PROVE bootSet' = bootSet
<1>1. HolderStep => bootSet' = bootSet
  BY DEF HolderStep, StartupAutostart, StartAutostart, ApplyStarts, RequestedFails,
     RestoreFailedTarget, RestorePrevious, FallBackToStock, RefuseGame, BeginGame, GameStarts,
     RestoreGameTarget, RestoreStanding, RecoverActiveSession, RecoverFails, RecoverWithStock,
     RecoverEnds, ReplaySkipsAbsent, ReplaySkipsStock, ReplayInactive, ReplayActive, ReplayFails
<1>2. Background => bootSet' = bootSet
  BY DEF Background, EngineExits, ReapGameWatches, RestoreFinishedGame, ChildExits, FinishChild,
     ClearActiveRuntime, ResumeAutostart, StartAutostart, WatcherDecidesStart, ParkRuntime
<1>3. CalmRequest \/ BeginChild => bootSet' = bootSet
  BY DEF CalmRequest, BeginApply, BeginChild, GameLaunches, GameExits, RequestGame,
     RestoreFinishedGame
<1>4. Crash => bootSet' = bootSet
  BY DEF Crash, DaemonRestarts, MachineReboots, ForgetsMemory
<1>5. UNCHANGED vars => bootSet' = bootSet
  BY DEF vars
<1> QED BY <1>1, <1>2, <1>3, <1>4, <1>5 DEF CalmNext

\* Nobody asks anything of a daemon with a boot set but a child, and that only of a
\* session: what is pending follows a session, or a deep sleep before the first.
Unasked ==
    /\ games = {} /\ watches = {}
    /\ op = Idle \/ Doing({"startup", "recover", "boot"})
    /\ Doing({"recover"}) => op.spec.gpu \in Present
    /\ activeFile # None => activeFile.gpu \in Present
    /\ unfinished # {} => activeFile # None
    /\ resuming > 0 => activeFile # None \/ (DeepSleep /\ ~bootConsumed)

CalmInv == clearing = 0 /\ (bootSet # EmptySet => Unasked)

LEMMA ClearingStays == ASSUME clearing = 0, [CalmNext]_vars PROVE clearing' = 0
<1>1. HolderStep => clearing' = 0
  BY DEF HolderStep, StartupAutostart, StartAutostart, ApplyStarts, RequestedFails,
     RestoreFailedTarget, RestorePrevious, FallBackToStock, RefuseGame, BeginGame, GameStarts,
     RestoreGameTarget, RestoreStanding, RecoverActiveSession, RecoverFails, RecoverWithStock,
     RecoverEnds, ReplaySkipsAbsent, ReplaySkipsStock, ReplayInactive, ReplayActive, ReplayFails,
     pendingVars
<1>2. Background => clearing' = 0
  BY DEF Background, EngineExits, ReapGameWatches, RestoreFinishedGame, ChildExits, FinishChild,
     ClearActiveRuntime, ResumeAutostart, StartAutostart, WatcherDecidesStart, ParkRuntime,
     pendingVars
<1>3. CalmRequest \/ BeginChild => clearing' = 0
  BY DEF CalmRequest, BeginApply, BeginChild, GameLaunches, GameExits, RequestGame,
     RestoreFinishedGame, pendingVars
<1>4. Crash => clearing' = 0
  BY DEF Crash, DaemonRestarts, MachineReboots, ForgetsMemory
<1>5. UNCHANGED vars => clearing' = 0
  BY DEF vars, pendingVars
<1> QED BY <1>1, <1>2, <1>3, <1>4, <1>5 DEF CalmNext

Replays ==
    \/ RecoverActiveSession \/ RecoverFails \/ RecoverWithStock
    \/ ReplaySkipsAbsent \/ ReplaySkipsStock \/ ReplayInactive \/ ReplayActive \/ ReplayFails

\* All that the mutex holder may be doing with a boot set.
LEMMA UnaskedHolds == ASSUME Unasked, HolderStep PROVE StartupAutostart \/ Replays
BY DEF Unasked, Doing, HolderStep, ApplyStarts, RequestedFails, RestoreFailedTarget,
   RestorePrevious, FallBackToStock, InRollback, RefuseGame, BeginGame, GameStarts,
   RestoreGameTarget, RestoreStanding, Replays

LEMMA ReplaysUnasked == ASSUME IInv, Unasked, Replays PROVE Unasked'
<1>1. /\ UNCHANGED <<childVars, games, bootConsumed, pendingVars>> /\ Doing({"recover", "boot"})
      /\ op \in Ops
  BY DEF Replays, RecoverActiveSession, RecoverFails, RecoverWithStock, RecoverEnds,
     ReplaySkipsAbsent, ReplaySkipsStock, ReplayInactive, ReplayActive, ReplayFails, Recovering,
     Replaying, Doing, IInv, HolderInv
<1>2. watches' = watches
  BY DEF Replays, RecoverActiveSession, RecoverFails, RecoverWithStock, Recovered,
     ReplaySkipsAbsent, ReplaySkipsStock, ReplayInactive, ReplayActive, ReplayFails, gameVars,
     BecomesStanding
<1>3. \/ activeFile' = activeFile
      \/ activeFile' # None /\ activeFile'.gpu \in Present
  <2>1. CASE RecoverActiveSession \/ RecoverWithStock
    <3>1. Doing({"recover"}) /\ op.spec \in RuntimeSpec
      BY <2>1, RecoverOpType DEF RecoverActiveSession, RecoverWithStock, Doing
    <3>2. StockFallback(op.spec) \in RuntimeSpec /\ StockFallback(op.spec).gpu = op.spec.gpu
      BY <3>1, StockFallbackType DEF StockFallback, RuntimeSpec
    <3>3. activeFile' \in {activeFile, op.spec, StockFallback(op.spec)}
      BY <2>1 DEF RecoverActiveSession, RecoverWithStock, Recovered
    <3> QED BY <3>1, <3>2, <3>3, SpecGpu DEF Unasked
  <2>2. CASE ReplayActive
    <3>1. Doing({"boot"}) /\ Head(op.todo) \in RuntimeSpec /\ Head(op.todo).gpu \in Present
      BY <2>2, BootOpType DEF ReplayActive, Replaying, Doing
    <3>2. ReplaySpec \in RuntimeSpec /\ ReplaySpec.gpu = Head(op.todo).gpu
      BY <3>1, StockFallbackType DEF ReplaySpec, StockFallback, RuntimeSpec
    <3>3. activeFile' \in {activeFile, ReplaySpec}
      BY <2>2 DEF ReplayActive, Recovered
    <3> QED BY <3>1, <3>2, <3>3, SpecGpu
  <2>3. CASE RecoverFails \/ ReplaySkipsAbsent \/ ReplaySkipsStock \/ ReplayInactive \/ ReplayFails
    BY <2>3 DEF RecoverFails, ReplaySkipsAbsent, ReplaySkipsStock, ReplayInactive, ReplayFails,
       diskVars
  <2> QED BY <2>1, <2>2, <2>3 DEF Replays
<1>4. \/ op' = Idle
      \/ op'.kind = "recover" /\ Doing({"recover"}) /\ op'.spec = op.spec
      \/ op'.kind = "boot"
  <2>1. \/ op' = Idle
        \/ op' = [op EXCEPT !.pc = "stock"]
        \/ Doing({"boot"}) /\ ReplayNext
    BY <1>1 DEF Replays, RecoverActiveSession, RecoverFails, RecoverWithStock, RecoverEnds,
       ReplaySkipsAbsent, ReplaySkipsStock, ReplayInactive, ReplayActive, ReplayFails,
       Replaying, Doing
  <2>2. Doing({"boot"}) => op \in BootOps
    BY <1>1, OpKinds DEF Doing
  <2>3. Doing({"recover"}) => op \in RecoverOps
    BY <1>1, OpKinds DEF Doing
  <2> QED BY <1>1, <2>1, <2>2, <2>3 DEF ReplayNext, BootOps, RecoverOps, Doing
<1> QED BY <1>1, <1>2, <1>3, <1>4 DEF Unasked, Doing, childVars, pendingVars

LEMMA AutostartUnasked ==
    ASSUME IInv, Unasked, StartAutostart,
           \/ op = Idle /\ resuming > 0 /\ resuming' = resuming - 1
           \/ Doing({"startup"}) /\ resuming' = resuming
    PROVE  Unasked'
<1>1. UNCHANGED <<childVars, gameVars, games, diskVars>>
  BY DEF StartAutostart
<1>2. resuming \in Nat /\ (DeepSleep => resuming <= 1)
  BY DEF IInv, PendingInv
<1>3. Doing({"startup"}) => ~DeepSleep
  BY DEF Doing, IInv, HolderInv, Ops, Starting, ApplyOps, GameDecisions, GameOps, RestoreOps,
     RecoverOps, BootOps
<1>4. resuming' > 0 => activeFile # None
  BY <1>2, <1>3 DEF Unasked
<1>5. \/ op' = Idle
      \/ op'.kind = "recover" /\ op'.spec.gpu \in Present
      \/ op'.kind = "boot"
  BY DEF StartAutostart, AutostartPlan, RecoversSession
<1> QED BY <1>1, <1>4, <1>5 DEF Unasked, Doing, childVars, gameVars, diskVars

LEMMA ChildUnasked == ASSUME IInv, Unasked, activeFile # None, BeginChild PROVE Unasked'
BY DEF BeginChild, Unasked, Doing, gameVars, diskVars

LEMMA BackgroundUnasked == ASSUME IInv, Unasked, clearing = 0, Background PROVE Unasked'
<1>1. (\E i \in Engines : EngineExits(i)) => Unasked'
  BY DEF EngineExits, Unasked, Doing, gameVars, diskVars, childVars, pendingVars
<1>2. ~ReapGameWatches /\ ~ClearActiveRuntime
  BY DEF ReapGameWatches, ClearActiveRuntime, Unasked
<1>3. (\E n \in 1..MaxChildren : ChildExits(n)) => Unasked'
  BY DEF ChildExits, Unasked, Doing, gameVars, diskVars, pendingVars
<1>4. (\E n \in 1..MaxChildren : FinishChild(n)) => Unasked'
  BY DEF FinishChild, Unasked, Doing, gameVars, diskVars
<1>5. ResumeAutostart => Unasked'
  BY AutostartUnasked DEF ResumeAutostart
<1>6. WatcherDecidesStart => Unasked'
  BY DEF WatcherDecidesStart, Wakeable, RecoversSession, Unasked, Doing, gameVars, diskVars,
     childVars
<1>7. ParkRuntime => Unasked'
  BY DEF ParkRuntime, Unasked, Doing, gameVars, diskVars, childVars, pendingVars
<1> QED BY <1>1, <1>2, <1>3, <1>4, <1>5, <1>6, <1>7 DEF Background

LEMMA CrashUnasked == ASSUME Unasked, Crash PROVE Unasked'
<1>1. /\ watches' = {} /\ games' \in {games, {}} /\ unfinished' = {} /\ resuming' = 0
      /\ activeFile' \in {activeFile, None}
      /\ op' = Idle \/ op'.kind = "startup"
  BY DEF Crash, DaemonRestarts, MachineReboots, ForgetsMemory, Starting, diskVars
<1> QED BY <1>1 DEF Unasked, Doing

LEMMA CalmKeeps == ASSUME IInv, CalmInv, [CalmNext]_vars PROVE CalmInv'
<1>1. SUFFICES ASSUME bootSet # EmptySet PROVE Unasked'
  BY BootSetStays, ClearingStays DEF CalmInv
<1>2. Unasked /\ clearing = 0
  BY <1>1 DEF CalmInv
<1>3. HolderStep => Unasked'
  BY <1>2, UnaskedHolds, ReplaysUnasked, AutostartUnasked DEF StartupAutostart, Doing
<1>4. UNCHANGED vars => Unasked'
  BY <1>2 DEF vars, Unasked, Doing, gameVars, diskVars, childVars, pendingVars
<1> QED BY <1>1, <1>2, <1>3, <1>4, BackgroundUnasked, ChildUnasked, CrashUnasked DEF CalmNext

LEMMA AlwaysCalm == CalmSpec => []CalmInv
<1>1. CalmSpec => Init /\ [][CalmNext]_vars
  BY DEF CalmSpec
<1>2. Init => CalmInv
  BY DEF Init, CalmInv, Unasked, Starting, Doing
<1>3. IInv /\ CalmInv /\ [CalmNext]_vars => CalmInv'
  BY CalmKeeps
<1> QED BY <1>1, <1>2, <1>3, CalmSafe, PTL

\* BootAppliesOnce: whatever fails, hangs or is killed, and however many children and
\* wakes follow, a daemon that nobody asks for anything else replays the boot set once
\* per life: what runs after the replay is the session that it recorded.
THEOREM BootSetsApplyOnce == CalmSpec => BootAppliesOnce
<1> DEFINE Once == op = Idle /\ op' # Idle /\ op'.kind = "boot" => ~bootConsumed
<1>1. ASSUME IInv, CalmInv, [CalmNext]_vars PROVE Once
  <2>1. SUFFICES ASSUME op = Idle, op' # Idle, op'.kind = "boot" PROVE ~bootConsumed
    OBVIOUS
  <2>2. ~HolderStep
    BY <2>1 DEF HolderStep, StartupAutostart, ApplyStarts, RequestedFails, RestoreFailedTarget,
       RestorePrevious, FallBackToStock, InRollback, RefuseGame, BeginGame, GameStarts,
       RestoreGameTarget, RestoreStanding, RecoverActiveSession, RecoverFails, RecoverWithStock,
       Recovering, ReplaySkipsAbsent, ReplaySkipsStock, ReplayInactive, ReplayActive,
       ReplayFails, Replaying
  <2>3. \A then \in {Idle} \cup GameDecisions : ~RestoreFinishedGame(then)
    BY <2>1 DEF RestoreFinishedGame, RestorePlan, GameDecisions
  <2>4. ~CalmRequest /\ ~BeginChild
    <3>1. \A spec \in GameSpecs, p \in Pids : ~RequestGame(spec, p)
      <4>1. ASSUME NEW spec \in GameSpecs, NEW p \in Pids
            PROVE  [kind |-> "decide", spec |-> spec, pid |-> p] \in GameDecisions
        BY DEF GameDecisions
      <4> QED BY <2>3, <4>1 DEF RequestGame
    <3>2. \A spec \in StandingSpecs : ~BeginApply(spec)
      BY <2>1 DEF BeginApply
    <3>3. \A p \in Pids : ~GameLaunches(p) /\ ~GameExits(p)
      BY <2>1 DEF GameLaunches, GameExits
    <3>4. ~BeginChild
      BY <2>1 DEF BeginChild
    <3> QED BY <3>1, <3>2, <3>3, <3>4 DEF CalmRequest
  <2>5. ~Crash /\ ~UNCHANGED vars
    BY <2>1 DEF Crash, DaemonRestarts, MachineReboots, ForgetsMemory, Starting, vars
  <2>6. ResumeAutostart
    BY <1>1, <2>1, <2>2, <2>3, <2>4, <2>5 DEF CalmNext, Background, EngineExits,
       ReapGameWatches, ChildExits, FinishChild, ClearActiveRuntime, WatcherDecidesStart,
       ParkRuntime
  <2>7. resuming > 0 /\ ~RecoversSession /\ bootSet.specs # <<>>
    BY <2>1, <2>6 DEF ResumeAutostart, StartAutostart, AutostartPlan
  <2>8. bootSet # EmptySet
    BY <2>7 DEF EmptySet
  <2> QED BY <1>1, <2>7, <2>8 DEF CalmInv, Unasked, RecoversSession
<1>2. CalmSpec => [][Once]_vars
  <2>1. CalmSpec => [][CalmNext]_vars
    BY DEF CalmSpec
  <2>2. IInv /\ CalmInv /\ [CalmNext]_vars => [Once]_vars
    BY <1>1
  <2> QED BY <2>1, <2>2, CalmSafe, AlwaysCalm, PTL
<1> QED BY <1>2 DEF BootAppliesOnce

-----------------------------------------------------------------------------
(***************************************************************************)
(* What a game puts on a GPU is taken off again: by the handler that holds *)
(* the mutex or, while the game is watched, by the one that will see it    *)
(* gone.  Engine calls succeed here; one that fails leaves what was there. *)
(***************************************************************************)
NoFaults == Faults = {}

LEMMA CallsSucceed ==
    ASSUME NoFaults
    PROVE  /\ NoLateEngines /\ ~StopTimesOut
           /\ \A spec : ~StartFails(spec) /\ ~StartWedges(spec) /\ ~ApplyAndStick(spec)
BY DEF NoFaults, NoLateEngines, StopTimesOut, StartFails, StartWedges, ApplyAndStick

LEMMA CalmTame == ASSUME NoFaults, TameBoots PROVE CalmSpec => [](SteadyInv /\ TameInv)
<1>1. CalmSpec => Init /\ [][CalmNext]_vars
  BY DEF CalmSpec
<1>2. Init => SteadyInv /\ TameInv
  BY InitTame DEF Init, SteadyInv
<1>3. IInv /\ SteadyInv /\ TameInv /\ [CalmNext]_vars => SteadyInv' /\ TameInv'
  BY CalmIsNext, CallsSucceed, SteadyKeeps, TameKeeps
<1> QED BY <1>1, <1>2, <1>3, CalmSafe, PTL

\* The GPU that is owed its profile, NoGpu if none is.
Owed ==
    IF Doing({"restore"}) THEN (IF op.pc = "target" THEN op.target ELSE op.standing).gpu
    ELSE IF watches = {} THEN NoGpu
    ELSE IF Doing({"game"}) THEN op.rb.spec.gpu ELSE SlotGpu

Unspoilt == \A g \in Gpus : ~OnlyGamesUse(hw[g])

OwedInv ==
    /\ \A g \in Gpus : OnlyGamesUse(hw[g]) => g = Owed
    /\ watches # {} => /\ override
                       /\ (Waiting /\ slot # None) \/ Doing({"game"})
                       /\ restore # None => restore.gpu = Owed
    /\ Doing({"apply", "game"}) => op.rb.pc = "start"
    /\ Doing({"game"}) => op.first = (watches = {})
    /\ Doing({"game"}) /\ watches = {} /\ op.restore # None => op.restore.gpu = op.rb.spec.gpu

LEMMA NothingOwed == ASSUME OwedInv, watches = {}, ~Doing({"restore"}) PROVE Unspoilt
BY DEF OwedInv, Unspoilt, Owed

\* Without a watch, and with every GPU as it should be.
LEMMA OwesNothing ==
    ASSUME Unspoilt', watches' = {},
           \/ op' = Idle
           \/ op'.kind \in {"decide", "restore", "startup", "recover", "boot"}
           \/ op'.kind = "apply" /\ op'.rb.pc = "start"
    PROVE  OwedInv'
BY DEF Unspoilt, OwedInv, Doing

LEMMA TameWrites ==
    ASSUME IInv, NEW spec \in RuntimeSpec, Tame(spec), StartOk(spec) \/ ApplyAndStop(spec)
    PROVE  /\ ~OnlyGamesUse(hw'[spec.gpu])
           /\ \A g \in Gpus \ {spec.gpu} : hw'[g] = hw[g]
<1>1. hw' = [hw EXCEPT ![spec.gpu] = spec.profile] /\ spec.gpu \in Gpus /\ spec # None
  BY SpecGpu DEF StartOk, ApplyAndStop
<1>2. hw \in [Gpus -> Profiles \cup {Dirty}]
  BY DEF IInv, EnginesInv
<1> QED BY <1>1, <1>2 DEF Tame

\* Steps that leave games, the engine and the handler's plan alone.
LEMMA OwedFrame ==
    ASSUME OwedInv, UNCHANGED <<gameVars, slot>>, op' = op \/ (Waiting /\ op' = Idle),
           \A g \in Gpus : OnlyGamesUse(hw'[g]) => OnlyGamesUse(hw[g])
    PROVE  OwedInv'
<1>1. watches' = watches /\ restore' = restore /\ override' = override /\ slot' = slot
  BY DEF gameVars
<1>2. SlotGpu' = SlotGpu
  BY <1>1 DEF SlotGpu
<1>3. CASE op' = op
  <2>1. Owed' = Owed
    BY <1>1, <1>2, <1>3 DEF Owed, Doing
  <2> QED BY <1>1, <1>3, <2>1 DEF OwedInv, Waiting, Doing
<1>4. CASE Waiting /\ op' = Idle
  <2>1. Owed' = Owed /\ ~Doing({"apply", "game", "restore"}) /\ ~Doing({"apply", "game"})'
    BY <1>1, <1>2, <1>4 DEF Owed, Waiting, Doing
  <2> QED BY <1>1, <1>4, <2>1 DEF OwedInv, Waiting, Doing
<1> QED BY <1>3, <1>4

\* Handlers that run while no game is watched.
LEMMA ReplaysOwed ==
    ASSUME NoFaults, IInv, TameInv, OwedInv, ApplyStarts \/ Replays
    PROVE  OwedInv'
<1>1. Doing({"apply", "recover", "boot"}) /\ op \in Ops
  BY DEF ApplyStarts, Replays, RecoverActiveSession, RecoverFails, RecoverWithStock, Recovering,
     ReplaySkipsAbsent, ReplaySkipsStock, ReplayInactive, ReplayActive, ReplayFails, Replaying,
     Doing, IInv, HolderInv
<1>2. watches = {} /\ Unspoilt
  BY <1>1, NothingOwed DEF OwedInv, Doing, Waiting
<1>3. watches' = watches
  BY DEF ApplyStarts, Replays, RecoverActiveSession, RecoverFails, RecoverWithStock, Recovered,
     ReplaySkipsAbsent, ReplaySkipsStock, ReplayInactive, ReplayActive, ReplayFails, gameVars,
     BecomesStanding
<1>4. \/ UNCHANGED hw
      \/ \E spec \in RuntimeSpec : Tame(spec) /\ (StartOk(spec) \/ ApplyAndStop(spec))
  <2>1. CASE ApplyStarts
    BY <1>1, <2>1, RollbackType DEF ApplyStarts, Doing, TameInv, TameOp
  <2>2. CASE RecoverActiveSession \/ RecoverFails \/ RecoverWithStock
    <3>1. Doing({"recover"}) /\ op.spec \in RuntimeSpec
      BY <2>2, RecoverOpType DEF RecoverActiveSession, RecoverFails, RecoverWithStock, Doing
    <3>2. Tame(op.spec) /\ Tame(StockFallback(op.spec)) /\ StockFallback(op.spec) \in RuntimeSpec
      BY <3>1, TameSpecs, StockFallbackType DEF TameInv, TameOp
    <3>3. StartOk(op.spec) \/ StartOk(StockFallback(op.spec))
      BY <2>2, CallsSucceed DEF RecoverActiveSession, RecoverFails, RecoverWithStock, Recovered
    <3> QED BY <3>1, <3>2, <3>3
  <2>3. CASE ReplaySkipsAbsent \/ ReplaySkipsStock
    BY <2>3 DEF ReplaySkipsAbsent, ReplaySkipsStock, engineVars
  <2>4. CASE ReplayInactive \/ ReplayActive \/ ReplayFails
    <3>1. Doing({"boot"}) /\ op.todo \in Seq(RuntimeSpec) /\ op.todo # <<>>
          /\ Head(op.todo) \in RuntimeSpec /\ ReplaySpec \in RuntimeSpec
      BY <2>4, BootOpType DEF ReplayInactive, ReplayActive, ReplayFails, Replaying, Doing
    <3>2. Tame(Head(op.todo))
      BY <3>1 DEF TameInv, TameOp
    <3>3. Tame(ReplaySpec)
      BY <3>1, <3>2, TameSpecs DEF ReplaySpec
    <3>4. StartOk(ReplaySpec) \/ ApplyAndStop(ReplaySpec)
      <4> HIDE DEF ReplaySpec
      <4> QED BY <2>4, CallsSucceed DEF ReplayInactive, ReplayActive, ReplayFails, Recovered
    <3> QED BY <3>1, <3>3, <3>4
  <2> QED BY <2>1, <2>2, <2>3, <2>4 DEF Replays
<1>5. Unspoilt'
  BY <1>2, <1>4, TameWrites DEF Unspoilt
<1>6. op' = Idle \/ op'.kind \in {"recover", "boot"}
  <2>1. CASE ApplyStarts \/ RecoverActiveSession \/ RecoverWithStock \/ ReplayActive
    BY <2>1 DEF ApplyStarts, RecoverActiveSession, RecoverWithStock, ReplayActive, RecoverEnds
  <2> QED BY <2>1, CallsSucceed, ReplaySteps DEF Replays
<1> QED BY <1>2, <1>3, <1>5, <1>6, OwesNothing

LEMMA AutostartOwed ==
    ASSUME OwedInv, StartAutostart, op = Idle \/ Doing({"startup"})
    PROVE  OwedInv'
<1>1. UNCHANGED <<gameVars, engineVars>>
  BY DEF StartAutostart
<1>2. CASE watches = {}
  <2>1. Unspoilt' /\ watches' = {}
    BY <1>1, <1>2, NothingOwed DEF Doing, Unspoilt, gameVars, engineVars
  <2>2. op' = Idle \/ op'.kind \in {"recover", "boot"}
    BY DEF StartAutostart, AutostartPlan
  <2> QED BY <2>1, <2>2, OwesNothing
<1>3. CASE watches # {}
  <2>1. op = Idle /\ slot # None
    BY <1>3 DEF OwedInv, Doing, Waiting
  <2>2. op' = Idle
    BY <2>1 DEF StartAutostart
  <2> QED BY <1>1, <2>1, <2>2, OwedFrame DEF engineVars
<1> QED BY <1>2, <1>3

\* A cached spec is filed under its own GPU.
Filed(cache) == \A g \in Gpus : cache[g] # None => cache[g].gpu = g

FiledInv == Filed(lastApplied) /\ Filed(historyFile)

LEMMA RecordFiles ==
    ASSUME NEW cache \in [Gpus -> MaybeSpec], Filed(cache), NEW spec \in RuntimeSpec
    PROVE  /\ Filed([cache EXCEPT ![spec.gpu] = spec])
           /\ [cache EXCEPT ![spec.gpu] = spec] \in [Gpus -> MaybeSpec]
BY SpecGpu DEF Filed, MaybeSpec

LEMMA InsertFiles ==
    ASSUME NEW cache, Filed(cache), NEW specOf, Filed(specOf) PROVE Filed(OrInsert(cache, specOf))
BY DEF Filed, OrInsert

LEMMA BootSpecsFiled == ASSUME bootSet \in BootSets PROVE Filed(BootSpecs)
BY SpecOfType DEF Filed, BootSpecs

LEMMA FiledKeeps == ASSUME IInv, FiledInv, [Next]_vars PROVE FiledInv'
<1>1. /\ lastApplied \in [Gpus -> MaybeSpec] /\ bootSet \in BootSets /\ op \in Ops
      /\ Filed(lastApplied) /\ Filed(historyFile) /\ Filed(BootSpecs)
  BY BootSpecsFiled DEF IInv, RecordsInv, HolderInv, FiledInv
<1>2. Filed(NothingApplied)
  BY DEF Filed, NothingApplied
<1>3. ASSUME \/ lastApplied' \in {lastApplied, NothingApplied}
             \/ \E spec \in RuntimeSpec : lastApplied' = [lastApplied EXCEPT ![spec.gpu] = spec]
             \/ lastApplied' = OrInsert(lastApplied, historyFile)
             \/ lastApplied' = OrInsert(lastApplied, BootSpecs)
             \/ \E spec \in RuntimeSpec :
                   lastApplied' = OrInsert([lastApplied EXCEPT ![spec.gpu] = spec], BootSpecs),
             historyFile' \in {historyFile, lastApplied, lastApplied', NothingApplied}
      PROVE  FiledInv'
  <2>1. Filed(lastApplied')
    <3>1. \A spec \in RuntimeSpec :
             /\ Filed([lastApplied EXCEPT ![spec.gpu] = spec])
             /\ Filed(OrInsert([lastApplied EXCEPT ![spec.gpu] = spec], BootSpecs))
      BY <1>1, RecordFiles, InsertFiles
    <3>2. Filed(OrInsert(lastApplied, historyFile)) /\ Filed(OrInsert(lastApplied, BootSpecs))
      BY <1>1, InsertFiles
    <3> QED BY <1>1, <1>2, <1>3, <3>1, <3>2
  <2>2. FiledInv' <=> Filed(lastApplied') /\ Filed(historyFile')
    BY DEF FiledInv, Filed
  <2> QED BY <1>1, <1>2, <1>3, <2>1, <2>2
<1>4. CASE ApplyStarts
  <2>1. op.rb.spec \in RuntimeSpec
    BY <1>1, <1>4, RollbackType DEF ApplyStarts
  <2> QED BY <1>3, <1>4, <2>1 DEF ApplyStarts
<1>5. CASE RequestedFails \/ RestorePrevious \/ FallBackToStock
  BY <1>3, <1>5 DEF RequestedFails, RestorePrevious, FallBackToStock, RollbackEnds, diskVars
<1>6. CASE RestoreFailedTarget
  <2>1. op.rb.target \in RuntimeSpec
    BY <1>1, <1>6, RollbackType DEF RestoreFailedTarget, InRollback, IInv, HolderInv, Prepared,
       MaybeSpec
  <2> QED BY <1>3, <1>6, <2>1 DEF RestoreFailedTarget, diskVars
<1>7. CASE RefuseGame \/ BeginGame \/ GameStarts \/ RestoreStanding \/ RecoverFails
           \/ ReplaySkipsAbsent \/ ReplayFails
  BY <1>3, <1>7 DEF RefuseGame, BeginGame, GameStarts, RestoreStanding, RecoverFails,
     ReplaySkipsAbsent, ReplayFails, diskVars
<1>8. CASE RestoreGameTarget
  <2>1. op.target \in RuntimeSpec
    BY <1>8, RestoreOpType DEF RestoreGameTarget
  <2> QED BY <1>3, <1>8, <2>1 DEF RestoreGameTarget, diskVars
<1>9. CASE RecoverActiveSession \/ RecoverWithStock
  <2>1. op.spec \in RuntimeSpec /\ StockFallback(op.spec) \in RuntimeSpec
    BY <1>9, RecoverOpType, StockFallbackType DEF RecoverActiveSession, RecoverWithStock
  <2>2. historyFile' = historyFile
    BY <1>9 DEF RecoverActiveSession, RecoverWithStock, RecoverEnds
  <2>3. \/ lastApplied' = OrInsert(lastApplied, BootSpecs)
        \/ \E spec \in {op.spec, StockFallback(op.spec)} :
              lastApplied' = OrInsert([lastApplied EXCEPT ![spec.gpu] = spec], BootSpecs)
    BY <1>9 DEF RecoverActiveSession, RecoverWithStock
  <2> QED BY <1>3, <2>1, <2>2, <2>3
<1>10. CASE ReplaySkipsStock \/ ReplayInactive \/ ReplayActive
  <2>1. Head(op.todo) \in RuntimeSpec /\ ReplaySpec \in RuntimeSpec
    BY <1>10, BootOpType DEF ReplaySkipsStock, ReplayInactive, ReplayActive, Replaying
  <2>2. historyFile' = historyFile
    BY <1>10 DEF ReplaySkipsStock, ReplayInactive, ReplayActive, RecoverEnds, diskVars
  <2>3. \/ lastApplied' = lastApplied
        \/ lastApplied' = [lastApplied EXCEPT ![Head(op.todo).gpu] = Head(op.todo)]
        \/ lastApplied' = [lastApplied EXCEPT ![ReplaySpec.gpu] = ReplaySpec]
    BY <1>10 DEF ReplaySkipsStock, ReplayInactive, ReplayActive
  <2> HIDE DEF ReplaySpec
  <2> QED BY <1>3, <2>1, <2>2, <2>3
<1>11. CASE StartupAutostart \/ ResumeAutostart
  BY <1>3, <1>11 DEF StartupAutostart, ResumeAutostart, StartAutostart, diskVars
<1>12. CASE Request
  BY <1>3, <1>12 DEF Request, BeginApply, GameLaunches, GameExits, RequestGame,
     RestoreFinishedGame, BeginChild, StopRuntimeProfile, diskVars
<1>13. CASE Background /\ ~ResumeAutostart
  BY <1>3, <1>13 DEF Background, EngineExits, ReapGameWatches, RestoreFinishedGame, ChildExits,
     FinishChild, ClearActiveRuntime, WatcherDecidesStart, ParkRuntime, diskVars
<1>14. CASE Crash
  BY <1>3, <1>14 DEF Crash, DaemonRestarts, MachineReboots, ForgetsMemory, diskVars
<1>15. CASE UNCHANGED vars
  BY <1>3, <1>15 DEF vars, diskVars
<1> QED BY <1>4, <1>5, <1>6, <1>7, <1>8, <1>9, <1>10, <1>11, <1>12, <1>13, <1>14, <1>15
        DEF Next, HolderStep

\* A game starts on a GPU that then is owed its profile.
LEMMA BeginGameOwed == ASSUME NoFaults, IInv, FiledInv, OwedInv, BeginGame PROVE OwedInv'
<1> DEFINE known == IF watches = {} THEN KnownSpec(op.spec) ELSE None
           spec == GameFan(op.spec, known)
           rb == NewRollback(spec, known)
<1>1. /\ op # Idle /\ op.kind = "decide" /\ op.spec \in RuntimeSpec
      /\ watches # {} => SlotGpu = op.spec.gpu
  BY OpKinds DEF BeginGame, GameRefused, IInv, HolderInv, GameDecisions
<1>2. /\ op' = [kind |-> "game", rb |-> rb, pid |-> op.pid, first |-> (watches = {}),
                standing |-> IF watches = {} /\ EngineRuns THEN slot.spec ELSE None,
                restore |-> known]
      /\ UNCHANGED <<gameVars, hw>>
  BY CallsSucceed DEF BeginGame, StopEngine
<1>3. known \in MaybeSpec /\ (known # None => known.gpu = op.spec.gpu)
  <2>1. KnownSpec(op.spec) \in MaybeSpec
    BY <1>1, KnownSpecType DEF IInv
  <2>2. KnownSpec(op.spec) # None => KnownSpec(op.spec).gpu = op.spec.gpu
    BY <1>1, SpecGpu DEF KnownSpec, FiledInv, Filed
  <2> QED BY <2>1, <2>2 DEF MaybeSpec
<1>4. spec.gpu = op.spec.gpu
  <2> HIDE DEF known
  <2> QED BY <1>1 DEF GameFan, RuntimeSpec
<1>5. rb.pc = "start" /\ rb.spec = spec
  BY DEF NewRollback
<1> HIDE DEF known, spec, rb
<1>6. /\ op'.kind = "game" /\ op'.rb = rb /\ op'.first = (watches = {}) /\ op'.restore = known
      /\ op' # Idle
  <2>1. op'.kind = "game" /\ op'.rb = rb /\ op'.first = (watches = {}) /\ op'.restore = known
    BY <1>2
  <2>2. op' # Idle
    <3>1. rb \in Rollback
      BY <1>1, <1>3, <1>4, GameFanType, NewRollbackType DEF IInv, rb, spec
    <3>2. EngineRuns => slot.spec \in MaybeSpec
      BY SlotSpecType DEF IInv, EngineRuns, MaybeSpec
    <3>3. op.pid \in Pids
      BY <1>1, OpKinds DEF IInv, HolderInv, GameDecisions
    <3>4. op' \in GameOps
      BY <1>2, <1>3, <3>1, <3>2, <3>3 DEF GameOps, MaybeSpec
    <3> QED BY <3>4, IdleAssumption
  <2> QED BY <2>1, <2>2
<1>7. Owed = (IF watches = {} THEN NoGpu ELSE op.spec.gpu) /\ Owed' = Owed
  BY <1>1, <1>2, <1>4, <1>5, <1>6 DEF Owed, Doing, gameVars
<1> QED BY <1>1, <1>2, <1>3, <1>4, <1>5, <1>6, <1>7 DEF OwedInv, Doing, gameVars

LEMMA GameStartsOwed == ASSUME IInv, OwedInv, GameStarts PROVE OwedInv'
<1>1. /\ Doing({"game"}) /\ slot = None /\ op.rb.spec \in RuntimeSpec /\ StartOk(op.rb.spec)
      /\ op' = Idle /\ watches' # {} /\ override'
      /\ restore' = IF op.first THEN op.restore ELSE restore
  BY HolderIsFree, RollbackType DEF GameStarts, Doing
<1>2. slot' # None /\ SlotSpec' = op.rb.spec
  BY <1>1, StartedSlot
<1>3. Owed' = op.rb.spec.gpu
  BY <1>1, <1>2 DEF Owed, Doing, SlotGpu, SlotSpec
<1>4. Owed = IF watches = {} THEN NoGpu ELSE op.rb.spec.gpu
  BY <1>1 DEF Owed, Doing
<1>5. \A g \in Gpus : OnlyGamesUse(hw'[g]) => g = Owed'
  <2>1. hw' = [hw EXCEPT ![op.rb.spec.gpu] = op.rb.spec.profile]
    BY <1>1 DEF StartOk
  <2>2. \A g \in Gpus : g # op.rb.spec.gpu => hw'[g] = hw[g]
    BY <2>1 DEF IInv, EnginesInv
  <2> QED BY <1>3, <1>4, <2>2 DEF OwedInv
<1>6. op.first = (watches = {})
  BY <1>1 DEF OwedInv
<1>7. restore' # None => restore'.gpu = Owed'
  <2>1. CASE watches = {}
    BY <1>1, <1>3, <1>6, <2>1 DEF OwedInv
  <2>2. CASE watches # {}
    BY <1>1, <1>3, <1>4, <1>6, <2>2 DEF OwedInv
  <2> QED BY <2>1, <2>2
<1> QED BY <1>1, <1>2, <1>5, <1>7 DEF OwedInv, Waiting, Doing

\* The last game has exited: its GPU is the one that the plan puts back.
LEMMA RestorePlanOwes ==
    ASSUME IInv, slot # None, restore # None => restore.gpu = slot.spec.gpu,
           NEW then \in {Idle} \cup GameDecisions, op' = RestorePlan(then)
    PROVE  Doing({"restore"})' /\ Owed' = slot.spec.gpu
<1> DEFINE saved == IF restore # None THEN restore ELSE StockFallback(slot.spec)
           target == GameRestoreTarget
<1>1. slot.spec \in RuntimeSpec /\ restore \in MaybeSpec /\ standing \in MaybeSpec
  BY DEF IInv, EnginesInv, GamesInv
<1>2. saved \in RuntimeSpec /\ saved.gpu = slot.spec.gpu
  BY <1>1, StockFallbackType DEF MaybeSpec, StockFallback, RuntimeSpec
<1>3. target = IF standing # None /\ saved.gpu = standing.gpu THEN None ELSE saved
  BY <1>2, SpecGpu DEF GameRestoreTarget
<1> HIDE DEF saved, target
<1>4. target # None \/ standing # None
  BY <1>2, <1>3, SpecGpu
<1>5. op' = [kind |-> "restore", pc |-> IF target # None THEN "target" ELSE "standing",
             target |-> target, standing |-> standing, then |-> then]
  BY <1>4 DEF RestorePlan, target
<1>6. target \in MaybeSpec
  BY <1>2, <1>3 DEF MaybeSpec
<1>7. op' \in RestoreOps /\ op' # Idle
  BY <1>1, <1>5, <1>6, IdleAssumption DEF RestoreOps
<1>8. /\ op'.kind = "restore" /\ op'.target = target /\ op'.standing = standing
      /\ op'.pc = IF target # None THEN "target" ELSE "standing"
  BY <1>5
<1> QED BY <1>2, <1>3, <1>7, <1>8 DEF Owed, Doing

LEMMA RestoreFinishedOwed ==
    ASSUME NoFaults, IInv, SteadyInv, OwedInv, NEW then \in {Idle} \cup GameDecisions,
           RestoreFinishedGame(then)
    PROVE  OwedInv'
<1>1. op = Idle /\ (then = Idle \/ then.kind = "decide")
  BY DEF RestoreFinishedGame, GameDecisions
<1>2. CASE watches = {}
  <2>1. watches' = {} /\ op' = then /\ hw' = hw
    BY <1>2 DEF RestoreFinishedGame, engineVars
  <2>2. Unspoilt'
    BY <1>1, <1>2, <2>1, NothingOwed DEF Doing, Unspoilt
  <2> QED BY <1>1, <2>1, <2>2, OwesNothing
<1>3. CASE watches # {} /\ watches' # {}
  <2>1. /\ op' = then /\ UNCHANGED <<restore, override, engineVars>>
    BY <1>3 DEF RestoreFinishedGame
  <2>2. SlotGpu' = SlotGpu
    BY <2>1 DEF engineVars, SlotGpu
  <2>3. Owed = SlotGpu /\ Owed' = SlotGpu
    BY <1>1, <1>3, <2>1, <2>2 DEF Owed, Doing
  <2> QED BY <1>1, <1>3, <2>1, <2>3 DEF OwedInv, engineVars, Waiting, Doing
<1>4. CASE watches # {} /\ watches' = {}
  <2>1. override /\ slot # None /\ Owed = slot.spec.gpu
    BY <1>1, <1>4 DEF OwedInv, Waiting, Doing, Owed, SlotGpu
  <2>2. ~ChildRuns
    BY <2>1, SteadySlot
  <2>3. StopEngine /\ op' = RestorePlan(then)
    BY <1>4, <2>1, <2>2, CallsSucceed DEF RestoreFinishedGame
  <2>4. Doing({"restore"})' /\ Owed' = slot.spec.gpu
    BY <1>4, <2>1, <2>3, RestorePlanOwes DEF OwedInv
  <2> QED BY <1>4, <2>1, <2>3, <2>4 DEF OwedInv, Doing, StopEngine
<1> QED BY <1>2, <1>3, <1>4

LEMMA RestoreOwed ==
    ASSUME NoFaults, IInv, TameInv, OwedInv, RestoreGameTarget \/ RestoreStanding
    PROVE  OwedInv'
<1> DEFINE spec == IF op.pc = "target" THEN op.target ELSE op.standing
<1>1. Doing({"restore"}) /\ spec \in RuntimeSpec /\ op \in RestoreOps
  BY RestoreOpType DEF RestoreGameTarget, RestoreStanding, Doing
<1>2. Tame(spec) /\ Owed = spec.gpu /\ watches = {}
  BY <1>1 DEF TameInv, TameOp, OwedInv, Owed, Doing, Waiting
<1>3. StartOk(spec) \/ ApplyAndStop(spec)
  BY CallsSucceed DEF RestoreGameTarget, RestoreStanding
<1>4. watches' = {}
  BY <1>2 DEF RestoreGameTarget, RestoreStanding, gameVars
<1>5. op' = op.then \/ op' = [op EXCEPT !.pc = "standing"]
  BY CallsSucceed DEF RestoreGameTarget, RestoreStanding
<1>6. op' = Idle \/ op'.kind \in {"decide", "restore"}
  BY <1>1, <1>5 DEF RestoreOps, GameDecisions
<1> HIDE DEF spec
<1>7. Unspoilt'
  BY <1>1, <1>2, <1>3, TameWrites DEF OwedInv, Unspoilt
<1> QED BY <1>4, <1>6, <1>7, OwesNothing

\* What clients ask for while no game is watched, and a park.
LEMMA StopsOwed ==
    ASSUME NoFaults, IInv, OwedInv, watches = {}, op = Idle,
           \/ \E spec \in StandingSpecs : BeginApply(spec)
           \/ BeginChild \/ ParkRuntime
    PROVE  OwedInv'
<1>1. Unspoilt
  BY NothingOwed DEF Doing
<1>2. watches' = {} /\ hw' = hw
  BY CallsSucceed DEF BeginApply, BeginChild, ParkRuntime, StopEngine, gameVars
<1>3. Unspoilt'
  BY <1>1, <1>2 DEF Unspoilt
<1>4. BeginChild \/ ParkRuntime => op' = Idle
  BY DEF BeginChild, ParkRuntime
<1>5. ASSUME NEW spec \in StandingSpecs, BeginApply(spec)
      PROVE  op'.kind = "apply" /\ op'.rb.pc = "start"
  BY <1>5, CallsSucceed DEF BeginApply, NewRollback
<1> QED BY <1>2, <1>3, <1>4, <1>5, OwesNothing

LEMMA DirtIsTame == ~OnlyGamesUse(Dirty)
BY DEF OnlyGamesUse, RuntimeSpec

LEMMA OwedKeeps ==
    ASSUME NoFaults, IInv, SteadyInv, TameInv, FiledInv, CalmInv, OwedInv, [CalmNext]_vars
    PROVE  OwedInv'
<1>1. CASE HolderStep
  <2>1. StartupAutostart => OwedInv'
    BY AutostartOwed DEF StartupAutostart, Doing
  <2>2. ~RequestedFails /\ ~RestoreFailedTarget /\ ~RestorePrevious /\ ~FallBackToStock
    BY CallsSucceed DEF RequestedFails, RestoreFailedTarget, RestorePrevious, FallBackToStock,
       InRollback, OwedInv, Doing
  <2>3. RefuseGame => OwedInv'
    BY OwedFrame DEF RefuseGame, Waiting, engineVars
  <2> QED BY <1>1, <2>1, <2>2, <2>3, BeginGameOwed, GameStartsOwed, RestoreOwed, ReplaysOwed
          DEF HolderStep, Replays
<1>2. CASE CalmRequest
  <2>1. \A p \in Pids : GameLaunches(p) \/ GameExits(p) => OwedInv'
    BY OwedFrame DEF GameLaunches, GameExits, engineVars
  <2>2. \A spec \in GameSpecs, p \in Pids : RequestGame(spec, p) => OwedInv'
    <3>1. \A spec \in GameSpecs, p \in Pids :
             [kind |-> "decide", spec |-> spec, pid |-> p] \in GameDecisions
      BY DEF GameDecisions
    <3> QED BY <3>1, RestoreFinishedOwed DEF RequestGame
  <2> QED BY <1>2, <2>1, <2>2, StopsOwed DEF CalmRequest
<1>3. CASE Background
  <2>1. \A i \in Engines : ~EngineExits(i)
    BY DEF NoFaults, SteadyInv, EngineExits
  <2>2. ReapGameWatches => OwedInv'
    BY RestoreFinishedOwed DEF ReapGameWatches
  <2>3. (\E n \in 1..MaxChildren : ChildExits(n) \/ FinishChild(n)) => OwedInv'
    <3>1. ASSUME NEW n \in 1..MaxChildren, ChildExits(n) PROVE OwedInv'
      <4>1. \A g \in Gpus : hw'[g] = hw[g] \/ hw'[g] = Dirty
        BY <3>1 DEF ChildExits, IInv, EnginesInv
      <4> QED BY <3>1, <4>1, OwedFrame, DirtIsTame DEF ChildExits
    <3> QED BY <3>1, OwedFrame DEF FinishChild, engineVars
  <2>4. ResumeAutostart => OwedInv'
    BY AutostartOwed DEF ResumeAutostart
  <2>5. ClearActiveRuntime \/ WatcherDecidesStart => OwedInv'
    BY OwedFrame DEF ClearActiveRuntime, WatcherDecidesStart, engineVars
  <2>6. ParkRuntime => OwedInv'
    BY StopsOwed DEF ParkRuntime
  <2> QED BY <1>3, <2>1, <2>2, <2>3, <2>4, <2>5, <2>6 DEF Background
<1>4. CASE bootSet # EmptySet /\ (Crash \/ BeginChild)
  <2>1. Unasked
    BY <1>4 DEF CalmInv
  <2>2. watches = {} /\ Unspoilt
    BY <2>1, NothingOwed DEF Unasked, Doing
  <2>3. Crash => OwedInv'
    <3>1. ASSUME Crash PROVE watches' = {} /\ (op' = Idle \/ op'.kind = "startup")
      BY <3>1 DEF Crash, DaemonRestarts, MachineReboots, ForgetsMemory, Starting
    <3>2. ASSUME Crash PROVE Unspoilt'
      <4>1. \A g \in Gpus : hw'[g] \in {hw[g], Stock}
        BY <3>2 DEF Crash, DaemonRestarts, MachineReboots
      <4> QED BY <2>2, <4>1 DEF Unspoilt, OnlyGamesUse
    <3> QED BY <3>1, <3>2, OwesNothing
  <2>4. BeginChild => OwedInv'
    BY <2>2, StopsOwed DEF BeginChild
  <2> QED BY <1>4, <2>3, <2>4
<1>5. CASE UNCHANGED vars
  BY <1>5, OwedFrame DEF vars, engineVars
<1> QED BY <1>1, <1>2, <1>3, <1>4, <1>5 DEF CalmNext

\* GamesLeaveNothing: with engine calls that succeed, clients that neither apply nor
\* scan while a game is watched, and no crash under it, the profile of a game that is
\* gone is on no GPU, whichever GPU it ran on and whatever preceded it.
THEOREM GamesArePutBack ==
    ASSUME NoFaults, TameBoots PROVE CalmSpec => []GamesLeaveNothing
<1>1. CalmSpec => Init /\ [][CalmNext]_vars
  BY DEF CalmSpec
<1>2. Init => FiledInv /\ OwedInv
  <2>1. Init => FiledInv
    BY DEF Init, FiledInv, Filed, NothingApplied
  <2>2. Init => OwedInv
    BY DEF Init, OwedInv, Starting, Doing, OnlyGamesUse
  <2> QED BY <2>1, <2>2
<1>3. IInv /\ SteadyInv /\ TameInv /\ FiledInv /\ CalmInv /\ OwedInv /\ [CalmNext]_vars
        => FiledInv' /\ OwedInv'
  BY CalmIsNext, FiledKeeps, OwedKeeps
<1>4. OwedInv => GamesLeaveNothing
  BY NothingOwed DEF GamesLeaveNothing, Unspoilt, Doing
<1> QED BY <1>1, <1>2, <1>3, <1>4, CalmSafe, CalmTame, AlwaysCalm, PTL

-----------------------------------------------------------------------------
(***************************************************************************)
(* The boot set takes effect whole: a session begins with the active spec, *)
(* the last to be replayed, and what kills the daemon before that makes it *)
(* begin again.                                                            *)
(***************************************************************************)
BootGpus == SavedGpus(bootSet.specs) \cap Present

Settled(g) == hw[g] \in {SpecOf(bootSet, g).profile, Dirty}

IsSaved(spec) == spec.gpu \in SavedGpus(bootSet.specs) /\ spec = SpecOf(bootSet, spec.gpu)

ReplayInv ==
    /\ \A g \in BootGpus : hw[g] = Stock \/ Settled(g)
    /\ activeFile # None => IsSaved(activeFile)
    /\ activeFile # None \/ Doing({"recover"}) \/ (bootConsumed /\ ~Doing({"boot"}))
         => \A g \in BootGpus : Settled(g)
    /\ Doing({"recover"}) => op.pc = "apply" /\ IsSaved(op.spec)
    /\ Doing({"boot"}) =>
         /\ op.pc = "apply"
         /\ \A i \in 1..Len(op.todo) : IsSaved(op.todo[i])
         /\ \A g \in BootGpus : Settled(g) \/ \E i \in 1..Len(op.todo) : op.todo[i].gpu = g

BootInv == bootSet # EmptySet => ReplayInv

LEMMA BootOrderSaved ==
    ASSUME IInv, bootSet.specs # <<>>
    PROVE  /\ \A i \in 1..Len(BootOrder) : IsSaved(BootOrder[i])
           /\ \A g \in BootGpus : \E i \in 1..Len(BootOrder) : BootOrder[i].gpu = g
<1> DEFINE specs == bootSet.specs
           others == Without(specs, BootActive)
           last == SpecOf(bootSet, BootActive)
<1>1. specs \in Seq(RuntimeSpec) /\ bootSet \in BootSets /\ Validate(bootSet)
  BY DEF IInv, RecordsInv, BootSets
<1>2. BootActive \in SavedGpus(specs)
  BY <1>1, BootActiveSaved
<1>3. last \in RuntimeSpec /\ last.gpu = BootActive /\ IsSaved(last)
  BY <1>1, <1>2, SpecOfType DEF IsSaved
<1>4. \A j \in 1..Len(specs) : IsSaved(specs[j])
  <2>1. SUFFICES ASSUME NEW j \in 1..Len(specs) PROVE IsSaved(specs[j])
    OBVIOUS
  <2>2. specs[j].gpu \in SavedGpus(specs)
    BY DEF SavedGpus
  <2>3. Position(specs, specs[j].gpu) = j
    BY <1>1, <2>2, PositionFinds DEF Validate
  <2> QED BY <2>2, <2>3 DEF IsSaved, SpecOf
<1>5. /\ others \in Seq(RuntimeSpec)
      /\ \A i \in 1..Len(others) : \E j \in 1..Len(specs) : others[i] = specs[j]
  BY <1>1, WithoutAddsNone
<1>6. \A g \in SavedGpus(specs) : g = BootActive \/ \E i \in 1..Len(others) : others[i].gpu = g
  <2>1. SUFFICES ASSUME NEW g \in SavedGpus(specs), g # BootActive
                 PROVE  \E i \in 1..Len(others) : others[i].gpu = g
    OBVIOUS
  <2>2. PICK j \in 1..Len(specs) : specs[j].gpu = g
    BY DEF SavedGpus
  <2> QED BY <1>1, <1>2, <2>1, <2>2, WithoutKeepsOthers
<1>7. \A i \in 1..Len(others) : IsSaved(others[i])
  BY <1>4, <1>5
<1>8. BootOrder = Append(others, last)
  BY DEF BootOrder
<1> HIDE DEF others, last
<1>9. /\ Len(others) \in Nat /\ Len(BootOrder) = Len(others) + 1
      /\ BootOrder[Len(others) + 1] = last
      /\ \A i \in 1..Len(others) : BootOrder[i] = others[i]
  BY <1>3, <1>5, <1>8
<1>10. \A i \in 1..Len(BootOrder) : IsSaved(BootOrder[i])
  BY <1>3, <1>7, <1>9
<1>11. ASSUME NEW g \in BootGpus PROVE \E i \in 1..Len(BootOrder) : BootOrder[i].gpu = g
  <2>1. CASE g = BootActive
    BY <1>3, <1>9, <2>1
  <2>2. CASE g # BootActive
    <3>1. PICK i \in 1..Len(others) : others[i].gpu = g
      BY <1>6, <2>2 DEF BootGpus
    <3> QED BY <1>9, <3>1
  <2> QED BY <2>1, <2>2
<1> QED BY <1>10, <1>11

\* Writing a saved spec settles its GPU.
LEMMA SavedSettles ==
    ASSUME IInv, NEW spec \in RuntimeSpec, IsSaved(spec), bootSet' = bootSet,
           StartOk(spec) \/ ApplyAndStop(spec)
    PROVE  /\ Settled(spec.gpu)'
           /\ \A g \in Gpus : g = spec.gpu \/ hw'[g] = hw[g]
           /\ \A g \in BootGpus : Settled(g) => Settled(g)'
           /\ \A g \in BootGpus : (hw[g] = Stock \/ Settled(g)) => (hw'[g] = Stock \/ Settled(g)')
<1>1. hw' = [hw EXCEPT ![spec.gpu] = spec.profile] /\ spec.gpu \in Gpus
  BY SpecGpu DEF StartOk, ApplyAndStop
<1>2. hw \in [Gpus -> Profiles \cup {Dirty}] /\ bootSet.specs \in Seq(RuntimeSpec)
  BY DEF IInv, EnginesInv, RecordsInv, BootSets
<1>3. hw'[spec.gpu] = spec.profile /\ \A g \in Gpus : g = spec.gpu \/ hw'[g] = hw[g]
  BY <1>1, <1>2
<1>4. Settled(spec.gpu)'
  BY <1>3 DEF Settled, IsSaved
<1>5. BootGpus \subseteq Gpus
  BY DEF BootGpus
<1>6. \A g \in BootGpus : g # spec.gpu => (Settled(g)' <=> Settled(g))
  BY <1>3, <1>5 DEF Settled
<1> QED BY <1>3, <1>4, <1>5, <1>6

\* A step that leaves the plan alone and spoils nothing.
LEMMA BootFrame ==
    ASSUME ReplayInv, bootSet' = bootSet, activeFile' \in {activeFile, None},
           \A g \in BootGpus : /\ Settled(g) => Settled(g)'
                               /\ hw[g] = Stock => hw'[g] = Stock \/ Settled(g)',
           \/ op' = op /\ bootConsumed' = bootConsumed
           \/ (op' = Idle \/ op'.kind = "startup") /\ ~bootConsumed' /\ activeFile' = activeFile
    PROVE  ReplayInv'
<1>1. BootGpus' = BootGpus /\ \A spec : IsSaved(spec)' <=> IsSaved(spec)
  BY DEF BootGpus, IsSaved
<1>2. \A g \in BootGpus : hw[g] = Stock \/ Settled(g) => hw'[g] = Stock \/ Settled(g)'
  OBVIOUS
<1>3. /\ \A g \in BootGpus : hw'[g] = Stock \/ Settled(g)'
      /\ activeFile' # None => IsSaved(activeFile)'
  BY <1>1, <1>2 DEF ReplayInv, IsSaved
<1>4. CASE op' = op /\ bootConsumed' = bootConsumed
  <2>1. activeFile' # None \/ Doing({"recover"}) \/ (bootConsumed /\ ~Doing({"boot"}))
          => \A g \in BootGpus : Settled(g)'
    BY DEF ReplayInv, Settled
  <2>2. Doing({"recover"}) => op.pc = "apply" /\ IsSaved(op.spec)'
    BY <1>1, <1>4 DEF ReplayInv, IsSaved
  <2>3. Doing({"boot"}) => \A i \in 1..Len(op.todo) : IsSaved(op.todo[i])'
    BY <1>1, <1>4 DEF ReplayInv, IsSaved
  <2>4. Doing({"boot"}) =>
          \A g \in BootGpus : Settled(g)' \/ \E i \in 1..Len(op.todo) : op.todo[i].gpu = g
    BY DEF ReplayInv, Settled
  <2>5. Doing({"boot"}) => op.pc = "apply"
    BY DEF ReplayInv
  <2> QED BY <1>1, <1>3, <1>4, <2>1, <2>2, <2>3, <2>4, <2>5 DEF ReplayInv, Doing
<1>5. CASE (op' = Idle \/ op'.kind = "startup") /\ ~bootConsumed' /\ activeFile' = activeFile
  <2>1. activeFile' # None => \A g \in BootGpus : Settled(g)'
    BY <1>5 DEF ReplayInv, Settled
  <2> QED BY <1>1, <1>3, <1>5, <2>1 DEF ReplayInv, Doing
<1> QED BY <1>4, <1>5

LEMMA BootTodo ==
    ASSUME IInv, Doing({"boot"})
    PROVE  /\ op \in BootOps /\ op.todo \in Seq(RuntimeSpec)
           /\ Len(op.todo) \in Nat \ {0} /\ Head(op.todo) = op.todo[1]
           /\ Head(op.todo) \in RuntimeSpec
           /\ Tail(op.todo) \in Seq(RuntimeSpec) /\ Len(Tail(op.todo)) = Len(op.todo) - 1
           /\ \A i \in 1..(Len(op.todo) - 1) : Tail(op.todo)[i] = op.todo[i + 1]
<1>1. op \in BootOps /\ op.todo \in Seq(RuntimeSpec) /\ op.todo # <<>>
  BY BootOpType DEF Doing
<1> QED BY <1>1

\* After the first of the plan's specs, only the others are to be settled.
LEMMA HeadDone ==
    ASSUME IInv, ReplayInv, Doing({"boot"}), bootSet' = bootSet,
           \A g \in BootGpus : Settled(g) => Settled(g)',
           \A g \in BootGpus : g = Head(op.todo).gpu => Settled(g)',
           NEW g \in BootGpus
    PROVE  Settled(g)' \/ \E i \in 1..Len(Tail(op.todo)) : Tail(op.todo)[i].gpu = g
<1>1. SUFFICES ASSUME ~Settled(g)'
               PROVE  \E i \in 1..Len(Tail(op.todo)) : Tail(op.todo)[i].gpu = g
  OBVIOUS
<1>2. PICK i \in 1..Len(op.todo) : op.todo[i].gpu = g
  BY <1>1 DEF ReplayInv
<1>3. i # 1
  <2>1. i = 1 => Head(op.todo).gpu = g
    BY <1>2, BootTodo
  <2> QED BY <1>1, <2>1
<1>4. i - 1 \in 1..(Len(op.todo) - 1) /\ (i - 1) + 1 = i
  BY <1>3, BootTodo
<1>5. Tail(op.todo)[i - 1] = op.todo[i]
  BY <1>4, BootTodo
<1> QED BY <1>2, <1>4, <1>5, BootTodo

LEMMA ReplayGoesOn ==
    ASSUME IInv, ReplayInv, Doing({"boot"}), ReplayNext,
           UNCHANGED <<activeFile, bootConsumed, bootSet>>,
           \A g \in BootGpus : /\ Settled(g) => Settled(g)'
                               /\ hw[g] = Stock => hw'[g] = Stock \/ Settled(g)',
           \A g \in BootGpus : g = Head(op.todo).gpu => Settled(g)'
    PROVE  ReplayInv'
<1>1. BootGpus' = BootGpus /\ \A spec : IsSaved(spec)' <=> IsSaved(spec)
  BY DEF BootGpus, IsSaved
<1>2. \A g \in BootGpus : Settled(g)' \/ \E i \in 1..Len(Tail(op.todo)) : Tail(op.todo)[i].gpu = g
  <2>1. \A g \in BootGpus : Settled(g) => Settled(g)'
    BY DEF Settled
  <2> QED BY <2>1, HeadDone
<1>3. /\ \A g \in BootGpus : hw'[g] = Stock \/ Settled(g)'
      /\ activeFile' # None => IsSaved(activeFile)'
      /\ activeFile' # None => \A g \in BootGpus : Settled(g)'
  <2>1. \A g \in BootGpus : hw[g] = Stock \/ Settled(g)
    BY DEF ReplayInv
  <2>2. activeFile' # None => IsSaved(activeFile)'
    BY DEF ReplayInv, IsSaved
  <2>3. activeFile' # None => \A g \in BootGpus : Settled(g)
    BY DEF ReplayInv
  <2> QED BY <2>1, <2>2, <2>3 DEF Settled
<1>4. CASE Len(op.todo) = 1
  <2>1. op' = Idle
    BY <1>4 DEF ReplayNext
  <2>2. \A g \in BootGpus : Settled(g)'
    BY <1>2, <1>4, BootTodo
  <2> QED BY <1>1, <1>3, <2>1, <2>2 DEF ReplayInv, Doing
<1>5. CASE Len(op.todo) # 1
  <2>1. op' = [op EXCEPT !.pc = "apply", !.todo = Tail(op.todo)]
    BY <1>5 DEF ReplayNext
  <2>2. op'.kind = "boot" /\ op'.pc = "apply" /\ op'.todo = Tail(op.todo)
    BY <2>1, BootTodo DEF BootOps
  <2>3. op' # Idle
    <3>1. Tail(op.todo) \in Seq(RuntimeSpec) /\ Tail(op.todo) # <<>>
      <4>1. Len(Tail(op.todo)) # 0
        BY <1>5, BootTodo
      <4> QED BY <4>1, BootTodo, EmptySeq
    <3>2. op' \in BootOps
      BY <2>1, <3>1, BootTodo DEF BootOps
    <3> QED BY <3>2, IdleAssumption
  <2>4. \A i \in 1..Len(Tail(op.todo)) : IsSaved(Tail(op.todo)[i])
    <3>1. \A i \in 1..Len(op.todo) : IsSaved(op.todo[i])
      BY DEF ReplayInv
    <3>2. \A i \in 1..(Len(op.todo) - 1) : i + 1 \in 1..Len(op.todo)
      BY BootTodo
    <3> QED BY <3>1, <3>2, BootTodo
  <2>5. \A i \in 1..Len(op'.todo) : IsSaved(op.todo[i])'
    BY <1>1, <2>2, <2>4 DEF IsSaved
  <2>6. \A g \in BootGpus : Settled(g)' \/ \E i \in 1..Len(op'.todo) : op'.todo[i].gpu = g
    BY <1>2, <2>2
  <2> QED BY <1>1, <1>3, <2>2, <2>3, <2>5, <2>6 DEF ReplayInv, Doing
<1> QED BY <1>4, <1>5

LEMMA AutostartBoot ==
    ASSUME IInv, Unasked, ReplayInv, StartAutostart, op = Idle \/ Doing({"startup"})
    PROVE  ReplayInv'
<1>1. UNCHANGED <<hw, activeFile, bootSet>>
  BY DEF StartAutostart, engineVars, diskVars
<1>2. BootGpus' = BootGpus /\ \A g : Settled(g)' <=> Settled(g)
  BY <1>1 DEF BootGpus, Settled
<1>3. /\ \A g \in BootGpus : hw[g] = Stock \/ Settled(g)
      /\ activeFile # None => IsSaved(activeFile) /\ \A g \in BootGpus : Settled(g)
      /\ bootConsumed => \A g \in BootGpus : Settled(g)
  BY DEF ReplayInv, Doing
<1>4. CASE op' = Idle /\ bootConsumed' = bootConsumed
  BY <1>1, <1>2, <1>3, <1>4 DEF ReplayInv, Doing, IsSaved
<1>5. CASE op' = AutostartPlan
  <2>1. CASE RecoversSession
    <3>1. op'.kind = "recover" /\ op'.pc = "apply" /\ op'.spec = activeFile /\ activeFile # None
      BY <1>5, <2>1 DEF AutostartPlan, RecoversSession
    <3> QED BY <1>1, <1>2, <1>3, <3>1 DEF ReplayInv, Doing, IsSaved
  <2>2. CASE ~RecoversSession /\ bootSet.specs = <<>>
    <3>1. BootGpus = {}
      BY <2>2 DEF BootGpus, SavedGpus
    <3>2. op' = Idle
      BY <1>5, <2>2 DEF AutostartPlan
    <3> QED BY <1>1, <1>2, <1>3, <3>1, <3>2 DEF ReplayInv, Doing, IsSaved
  <2>3. CASE ~RecoversSession /\ bootSet.specs # <<>>
    <3>1. op'.kind = "boot" /\ op'.pc = "apply" /\ op'.todo = BootOrder
      BY <1>5, <2>3 DEF AutostartPlan
    <3>2. activeFile = None
      BY <2>3 DEF Unasked, RecoversSession
    <3>3. op' # Idle
      <4>1. op' = [kind |-> "boot", pc |-> "apply", todo |-> BootOrder]
        BY <1>5, <2>3 DEF AutostartPlan
      <4>2. BootOrder \in Seq(RuntimeSpec) \ {<<>>}
        BY <2>3, BootOrderType DEF IInv, RecordsInv
      <4> QED BY <4>1, <4>2, IdleAssumption DEF BootOps
    <3>4. \A i \in 1..Len(op'.todo) : IsSaved(op.todo[i])'
      BY <1>1, <2>3, <3>1, BootOrderSaved DEF IsSaved
    <3>5. \A g \in BootGpus : \E i \in 1..Len(op'.todo) : op'.todo[i].gpu = g
      BY <2>3, <3>1, BootOrderSaved
    <3> QED BY <1>1, <1>2, <1>3, <3>1, <3>2, <3>3, <3>4, <3>5 DEF ReplayInv, Doing
  <2> QED BY <2>1, <2>2, <2>3
<1> QED BY <1>4, <1>5 DEF StartAutostart

\* The session, or the active spec of the boot set as its last, runs.
LEMMA SessionSettles ==
    ASSUME IInv, ReplayInv, NEW spec \in RuntimeSpec, IsSaved(spec), StartOk(spec), op' = Idle,
           activeFile' = spec, bootSet' = bootSet,
           \A g \in BootGpus : g = spec.gpu \/ Settled(g)
    PROVE  ReplayInv'
<1>1. \A g \in BootGpus : Settled(g)'
  <2>1. Settled(spec.gpu)' /\ \A g \in BootGpus : Settled(g) => Settled(g)'
    BY SavedSettles
  <2> QED BY <2>1
<1>2. BootGpus' = BootGpus /\ IsSaved(activeFile)'
  BY DEF BootGpus, IsSaved
<1> QED BY <1>1, <1>2 DEF ReplayInv, Doing

LEMMA ReplaysBoot == ASSUME NoFaults, IInv, ReplayInv, Replays PROVE ReplayInv'
<1>1. ~RecoverFails /\ ~RecoverWithStock /\ ~ReplayFails
  BY CallsSucceed DEF RecoverFails, RecoverWithStock, ReplayFails, Recovering, ReplayInv, Doing
<1>2. CASE RecoverActiveSession
  <2>1. Doing({"recover"}) /\ op.spec \in RuntimeSpec
    BY <1>2, RecoverOpType DEF RecoverActiveSession, Doing
  <2>2. StartOk(op.spec) /\ activeFile' = op.spec /\ op' = Idle /\ bootSet' = bootSet
    BY <1>2, CallsSucceed DEF RecoverActiveSession, Recovered, RecoverEnds
  <2>3. IsSaved(op.spec) /\ \A g \in BootGpus : Settled(g)
    BY <2>1 DEF ReplayInv
  <2> QED BY <2>1, <2>2, <2>3, SessionSettles
<1>3. CASE ReplaySkipsAbsent \/ ReplaySkipsStock \/ ReplayInactive \/ ReplayActive
  <2> DEFINE head == Head(op.todo)
  <2>1. Doing({"boot"}) /\ (ReplaySkipsAbsent \/ head.gpu \in Present)
    BY <1>3 DEF ReplaySkipsAbsent, ReplaySkipsStock, ReplayInactive, ReplayActive, Replaying, Doing
  <2>2. head \in RuntimeSpec /\ IsSaved(head) /\ ReplaySpec = head
    BY <2>1, BootTodo DEF ReplayInv, ReplaySpec
  <2>3. bootSet' = bootSet
    BY <1>3 DEF ReplaySkipsAbsent, ReplaySkipsStock, ReplayInactive, ReplayActive, RecoverEnds
  <2> HIDE DEF head
  <2>4. CASE ReplayActive
    <3>1. StartOk(head) /\ activeFile' = head /\ op' = Idle /\ Len(op.todo) = 1
      BY <2>2, <2>4, CallsSucceed DEF ReplayActive, Recovered, RecoverEnds
    <3>2. \A g \in BootGpus : g = head.gpu \/ Settled(g)
      BY <2>1, <3>1, BootTodo DEF ReplayInv, head
    <3> QED BY <2>2, <2>3, <3>1, <3>2, SessionSettles
  <2>5. CASE ReplayInactive
    <3>1. ApplyAndStop(head) /\ ReplayNext /\ UNCHANGED <<activeFile, bootConsumed>>
      BY <2>2, <2>5, CallsSucceed DEF ReplayInactive, diskVars
    <3>2. /\ \A g \in BootGpus : Settled(g) => Settled(g)'
          /\ \A g \in BootGpus : hw[g] = Stock => hw'[g] = Stock \/ Settled(g)'
          /\ \A g \in BootGpus : g = head.gpu => Settled(g)'
      BY <2>2, <2>3, <3>1, SavedSettles
    <3> QED BY <2>1, <2>3, <3>1, <3>2, ReplayGoesOn DEF head
  <2>6. CASE ReplaySkipsAbsent \/ ReplaySkipsStock
    <3>1. ReplayNext /\ UNCHANGED <<hw, activeFile, bootConsumed>>
      BY <2>6 DEF ReplaySkipsAbsent, ReplaySkipsStock, engineVars, diskVars
    <3>2. \A g : Settled(g)' <=> Settled(g)
      BY <2>3, <3>1 DEF Settled
    <3>3. \A g \in BootGpus : g = head.gpu => Settled(g)
      <4>1. CASE ReplaySkipsAbsent
        BY <4>1 DEF ReplaySkipsAbsent, Replaying, BootGpus, head
      <4>2. CASE ReplaySkipsStock
        <5>1. SpecOf(bootSet, head.gpu).profile = Stock
          BY <2>2, <4>2 DEF ReplaySkipsStock, SkipsStock, IsStock, IsSaved, head
        <5> QED BY <5>1 DEF ReplayInv, Settled
      <4> QED BY <2>6, <4>1, <4>2
    <3> QED BY <2>1, <2>3, <3>1, <3>2, <3>3, ReplayGoesOn DEF head
  <2> QED BY <1>3, <2>4, <2>5, <2>6
<1> QED BY <1>1, <1>2, <1>3 DEF Replays

LEMMA CrashBoot == ASSUME ReplayInv, Crash PROVE ReplayInv'
<1>1. /\ op' = Idle \/ op'.kind = "startup"
      /\ ~bootConsumed' /\ bootSet' = bootSet
  BY DEF Crash, DaemonRestarts, MachineReboots, ForgetsMemory, Starting
<1>2. CASE DaemonRestarts
  <2>1. UNCHANGED <<hw, activeFile>>
    BY <1>2 DEF DaemonRestarts, diskVars
  <2>2. \A g : Settled(g)' <=> Settled(g)
    BY <1>1, <2>1 DEF Settled
  <2> QED BY <1>1, <2>1, <2>2, BootFrame
<1>3. CASE MachineReboots
  <2>1. activeFile' = None /\ \A g \in Gpus : hw'[g] = Stock
    BY <1>3 DEF MachineReboots
  <2>2. BootGpus' \subseteq Gpus
    BY DEF BootGpus
  <2> QED BY <1>1, <2>1, <2>2 DEF ReplayInv, Doing
<1> QED BY <1>2, <1>3 DEF Crash

LEMMA BootKeeps ==
    ASSUME NoFaults, IInv, SteadyInv, CalmInv, BootInv, [CalmNext]_vars
    PROVE  BootInv'
<1>1. SUFFICES ASSUME bootSet # EmptySet PROVE ReplayInv'
  BY BootSetStays DEF BootInv
<1>2. ReplayInv /\ Unasked /\ clearing = 0 /\ bootSet' = bootSet
  BY <1>1, BootSetStays DEF BootInv, CalmInv
<1>3. ASSUME UNCHANGED <<activeFile, op, bootConsumed>>,
             \A g \in BootGpus : hw'[g] = hw[g] \/ hw'[g] = Dirty
      PROVE  ReplayInv'
  <2>1. \A g \in BootGpus : Settled(g) => Settled(g)'
    BY <1>2, <1>3 DEF Settled
  <2>2. \A g \in BootGpus : hw[g] = Stock => hw'[g] = Stock \/ Settled(g)'
    BY <1>2, <1>3 DEF Settled
  <2> QED BY <1>2, <1>3, <2>1, <2>2, BootFrame
<1>4. HolderStep => ReplayInv'
  BY <1>2, UnaskedHolds, ReplaysBoot, AutostartBoot DEF StartupAutostart, Doing
<1>5. Background => ReplayInv'
  <2>1. ~ReapGameWatches /\ ~ClearActiveRuntime /\ \A i \in Engines : ~EngineExits(i)
    BY <1>2 DEF ReapGameWatches, ClearActiveRuntime, EngineExits, Unasked, NoFaults, SteadyInv
  <2>2. \A n \in 1..MaxChildren : ChildExits(n) => ReplayInv'
    <3>1. SUFFICES ASSUME NEW n \in 1..MaxChildren, ChildExits(n) PROVE ReplayInv'
      OBVIOUS
    <3>2. BootGpus \subseteq Gpus
      BY DEF BootGpus
    <3>3. \A g \in Gpus : hw'[g] = hw[g] \/ hw'[g] = Dirty
      BY <3>1 DEF ChildExits, IInv, EnginesInv
    <3> QED BY <1>3, <3>1, <3>2, <3>3 DEF ChildExits, diskVars
  <2>3. \A n \in 1..MaxChildren : FinishChild(n) => ReplayInv'
    BY <1>3 DEF FinishChild, engineVars, diskVars
  <2>4. ResumeAutostart => ReplayInv'
    BY <1>2, AutostartBoot DEF ResumeAutostart
  <2>5. WatcherDecidesStart \/ ParkRuntime => ReplayInv'
    BY <1>3, CallsSucceed DEF WatcherDecidesStart, ParkRuntime, StopEngine, engineVars, diskVars
  <2> QED BY <2>1, <2>2, <2>3, <2>4, <2>5 DEF Background
<1>6. BeginChild => ReplayInv'
  BY <1>3, CallsSucceed DEF BeginChild, StopEngine, diskVars
<1>7. Crash => ReplayInv'
  BY <1>2, CrashBoot
<1>8. UNCHANGED vars => ReplayInv'
  BY <1>3 DEF vars, engineVars, diskVars
<1> QED BY <1>1, <1>4, <1>5, <1>6, <1>7, <1>8 DEF CalmNext

\* BootSetApplied: wherever the daemon is killed or the machine rebooted, in the replay
\* of the boot set or in what a child brings back later, each GPU that it names is at
\* its saved profile once a session has begun, or where a killed child left it.
THEOREM BootSetsTakeEffect == ASSUME NoFaults PROVE CalmSpec => []BootSetApplied
<1>1. CalmSpec => Init /\ [][CalmNext]_vars
  BY DEF CalmSpec
<1>2. Init => SteadyInv /\ BootInv
  <2>1. SUFFICES ASSUME Init PROVE SteadyInv /\ ReplayInv
    BY DEF BootInv
  <2>2. \A g \in BootGpus : hw[g] = Stock
    BY <2>1 DEF Init, BootGpus
  <2>3. ~bootConsumed /\ activeFile = None /\ ~Doing({"recover"}) /\ ~Doing({"boot"})
    BY <2>1 DEF Init, Starting, Doing
  <2>4. SteadyInv
    BY <2>1 DEF Init, SteadyInv
  <2> QED BY <2>2, <2>3, <2>4 DEF ReplayInv
<1>3. IInv /\ SteadyInv /\ CalmInv /\ BootInv /\ [CalmNext]_vars => SteadyInv' /\ BootInv'
  BY CalmIsNext, CallsSucceed, SteadyKeeps, BootKeeps
<1>4. IInv /\ BootInv => BootSetApplied
  <2>1. SUFFICES ASSUME IInv, BootInv, op = Idle, bootConsumed, NEW g \in BootGpus
                 PROVE  hw[g] \in {SpecOf(bootSet, g).profile, Dirty}
    BY DEF BootSetApplied, BootGpus
  <2>2. bootSet # EmptySet
    BY DEF BootGpus, SavedGpus, EmptySet
  <2> QED BY <2>1, <2>2 DEF BootInv, ReplayInv, Settled, Doing
<1> QED BY <1>1, <1>2, <1>3, <1>4, CalmSafe, AlwaysCalm, PTL
=============================================================================
