------------------------------ MODULE BootSet ------------------------------
(***************************************************************************)
(* BootRuntimeSet of burnerd/src/supervisor.rs as a value: the per-GPU     *)
(* RuntimeSpecs the daemon replays after a boot, in the order they were    *)
(* saved, with the GPU whose spec gets the engine (active) and the GPU the *)
(* user pinned (main, NoGpu when none is).                                 *)
(***************************************************************************)
EXTENDS Naturals, FiniteSets, SequencesExt

CONSTANTS Gpus,     \* GPU uuids
          Profiles, \* what a spec asks of its GPU
          Stock,    \* the profile of RuntimeMode::Stock
          NoGpu     \* the empty uuid

ASSUME BootSetAssumption == /\ Stock \in Profiles
                            /\ NoGpu \notin Gpus

\* The part of a RuntimeSpec that decides anything here: its GPU, what it does
\* to the V/F curve, clocks and power, and whether it drives the fans.
RuntimeSpec == [gpu : Gpus, profile : Profiles, fan : BOOLEAN]

BootSets == [specs : Seq(RuntimeSpec), active : Gpus \cup {NoGpu},
             main : Gpus \cup {NoGpu}]

EmptySet == [specs |-> <<>>, active |-> NoGpu, main |-> NoGpu]

FromLegacy(spec) == [specs |-> <<spec>>, active |-> spec.gpu, main |-> NoGpu]

SavedGpus(specs) == {specs[i].gpu : i \in 1..Len(specs)}

\* One spec per GPU, an active GPU that has one, a main GPU that is active.
Validate(set) ==
    /\ \A i, j \in 1..Len(set.specs) :
          set.specs[i].gpu = set.specs[j].gpu => i = j
    /\ set.specs # <<>> => set.active \in SavedGpus(set.specs)
    /\ set.main # NoGpu => /\ set.main \in SavedGpus(set.specs)
                           /\ set.active = set.main

Position(specs, g) == CHOOSE i \in 1..Len(specs) : specs[i].gpu = g

\* specs.retain(|spec| spec.gpu.uuid != g); validation leaves one at most.
Without(specs, g) ==
    IF g \in SavedGpus(specs) THEN RemoveAt(specs, Position(specs, g)) ELSE specs

\* Saving a spec moves its GPU to the end and, unless a main GPU is pinned,
\* makes it the active one.
Upsert(set, spec) ==
    [specs  |-> Append(Without(set.specs, spec.gpu), spec),
     active |-> IF set.main = NoGpu THEN spec.gpu ELSE set.active,
     main   |-> set.main]

CanBeMain(set, g) == g = NoGpu \/ g \in SavedGpus(set.specs)

SetMainGpu(set, g) ==
    IF g = NoGpu THEN [set EXCEPT !.main = NoGpu]
                 ELSE [set EXCEPT !.main = g, !.active = g]

\* Mutant: clearing the pinned GPU's spec leaves it pinned.
BugRemoveKeepsMain(set, g) ==
    LET kept == Without(set.specs, g)
    IN  [specs  |-> kept,
         main   |-> set.main,
         active |-> IF set.active = g /\ kept # <<>> THEN Last(kept).gpu
                    ELSE set.active]

RemoveGpu(set, g) ==
    LET kept == Without(set.specs, g)
    IN  IF g \notin SavedGpus(set.specs) THEN set
        ELSE [specs  |-> kept,
              main   |-> IF set.main = g THEN NoGpu ELSE set.main,
              active |-> CASE set.active # g -> set.active
                           [] set.active = g /\ kept # <<>> -> Last(kept).gpu
                           [] OTHER -> NoGpu]

SpecOf(set, g) == set.specs[Position(set.specs, g)]

\* .iter().rev().filter(..): the GPUs of the specs at some places, the last saved first.
NewestFirst(specs, places) ==
    [k \in 1..Cardinality(places) |->
        specs[CHOOSE i \in places : Cardinality({j \in places : j > i}) = k - 1].gpu]

\* Mutant: the selected spec comes first even when it has nothing to apply.
BugHintsSelectedFirst(set, session, addressed) ==
    LET places == {i \in 1..Len(set.specs) : set.specs[i].gpu \in addressed \ {session}}
        selected == {i \in places : set.specs[i].gpu = set.active}
    IN  (IF session \in addressed THEN <<session>> ELSE <<>>)
          \o NewestFirst(set.specs, selected)
          \o NewestFirst(set.specs, places \ selected)

(***************************************************************************)
(* The PCI addresses at which the deep-sleep watcher looks for its GPU     *)
(* while no engine runs, each once: that of the spec in the active-runtime *)
(* file (session, NoGpu without one), stock or not; then those of the boot *)
(* set: the selected spec if it is not stock, the other non-stock specs    *)
(* newest first, then stock ones the same way.  A GPU stands for its       *)
(* address here; only the specs of the addressed ones carry one.           *)
(***************************************************************************)
PciHints(set, session, addressed) ==
    LET places == {i \in 1..Len(set.specs) : set.specs[i].gpu \in addressed \ {session}}
        selected == {i \in places : set.specs[i].gpu = set.active}
        stocked == {i \in places : set.specs[i].profile = Stock}
    IN  (IF session \in addressed THEN <<session>> ELSE <<>>)
          \o NewestFirst(set.specs, selected \ stocked)
          \o NewestFirst(set.specs, places \ (selected \cup stocked))
          \o NewestFirst(set.specs, selected \cap stocked)
          \o NewestFirst(set.specs, stocked \ selected)

\* The GPU the watcher takes from the hints: the first that is in the machine, or the
\* first of all, to wait for.
Watched(hints, present) ==
    LET found == {k \in 1..Len(hints) : hints[k] \in present}
    IN  IF found # {} THEN hints[CHOOSE k \in found : \A l \in found : k <= l]
        ELSE IF hints # <<>> THEN Head(hints)
        ELSE NoGpu
=============================================================================
