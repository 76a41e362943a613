----------------------- MODULE BootRuntimeSet_proofs -----------------------
(***************************************************************************)
(* For any GPUs, profiles and clients: every boot file loads, and the      *)
(* locked read, replace and crash steps of BootRuntimeSet implement the    *)
(* atomic requests of BootIntent.                                          *)
(***************************************************************************)
EXTENDS BootRuntimeSet, FiniteSetTheorems, SequenceTheorems, WellFoundedInduction, TLAPS

Unique(specs) ==
    \A i, j \in 1..Len(specs) : specs[i].gpu = specs[j].gpu => i = j

(***************************************************************************)
(* Sequences of specs.                                                     *)
(***************************************************************************)
LEMMA EntriesAreSpecs ==
    ASSUME NEW specs \in Seq(RuntimeSpec)
    PROVE  /\ \A i \in 1..Len(specs) : specs[i] \in RuntimeSpec
           /\ SavedGpus(specs) \subseteq Gpus
<1>1. \A i \in 1..Len(specs) : specs[i] \in RuntimeSpec
  OBVIOUS
<1>2. \A i \in 1..Len(specs) : specs[i].gpu \in Gpus
  BY <1>1 DEF RuntimeSpec
<1> QED
  BY <1>1, <1>2 DEF SavedGpus

\* Position finds the spec of a saved GPU.
LEMMA PositionFinds ==
    ASSUME NEW specs \in Seq(RuntimeSpec), NEW g \in SavedGpus(specs)
    PROVE  /\ Position(specs, g) \in 1..Len(specs)
           /\ specs[Position(specs, g)].gpu = g
<1>1. \E i \in 1..Len(specs) : specs[i].gpu = g
  BY DEF SavedGpus
<1> QED
  BY <1>1 DEF Position

\* Removing one element shifts the later ones down by one.
LEMMA RemoveAtElements ==
    ASSUME NEW specs \in Seq(RuntimeSpec), NEW k \in 1..Len(specs)
    PROVE  /\ RemoveAt(specs, k) \in Seq(RuntimeSpec)
           /\ Len(RemoveAt(specs, k)) = Len(specs) - 1
           /\ \A i \in 1..Len(specs) - 1 :
                 RemoveAt(specs, k)[i] = specs[IF i < k THEN i ELSE i + 1]
<1> DEFINE low == SubSeq(specs, 1, k - 1)
           high == SubSeq(specs, k + 1, Len(specs))
<1>1. Len(specs) \in Nat /\ \A i \in 1..Len(specs) : specs[i] \in RuntimeSpec
  OBVIOUS
<1>2. /\ low \in Seq(RuntimeSpec)
      /\ Len(low) = k - 1
      /\ \A i \in 1..k - 1 : low[i] = specs[i]
  <2>1. \A i \in 1..k - 1 : specs[i] \in RuntimeSpec
    BY <1>1
  <2> QED
    BY <1>1, <2>1, SubSeqProperties
<1>3. /\ high \in Seq(RuntimeSpec)
      /\ Len(high) = Len(specs) - k
      /\ \A i \in 1..Len(specs) - k : high[i] = specs[k + i]
  <2>1. \A i \in k + 1..Len(specs) : specs[i] \in RuntimeSpec
    BY <1>1
  <2> QED
    BY <1>1, <2>1, SubSeqProperties
<1>4. RemoveAt(specs, k) = low \o high
  BY DEF RemoveAt
<1> HIDE DEF low, high
<1>5. /\ low \o high \in Seq(RuntimeSpec)
      /\ Len(low \o high) = Len(low) + Len(high)
      /\ \A i \in 1..Len(low) + Len(high) :
            (low \o high)[i] = IF i <= Len(low) THEN low[i] ELSE high[i - Len(low)]
  BY <1>2, <1>3, ConcatProperties
<1> QED
  BY <1>1, <1>2, <1>3, <1>4, <1>5

\* Without drops exactly the spec of g and keeps the others one per GPU.
LEMMA WithoutKeepsOthers ==
    ASSUME NEW specs \in Seq(RuntimeSpec), NEW g, Unique(specs)
    PROVE  LET kept == Without(specs, g)
           IN  /\ kept \in Seq(RuntimeSpec)
               /\ Unique(kept)
               /\ SavedGpus(kept) = SavedGpus(specs) \ {g}
               /\ \A i \in 1..Len(kept) :
                     \E j \in 1..Len(specs) : kept[i] = specs[j]
<1> DEFINE kept == Without(specs, g)
           k == Position(specs, g)
<1>1. CASE g \notin SavedGpus(specs)
  BY <1>1 DEF Without, SavedGpus
<1>2. CASE g \in SavedGpus(specs)
  <2>1. k \in 1..Len(specs) /\ specs[k].gpu = g
    BY <1>2, PositionFinds
  <2>2. kept = RemoveAt(specs, k)
    BY <1>2 DEF Without
  <2> HIDE DEF k, kept
  <2>3. /\ kept \in Seq(RuntimeSpec)
        /\ Len(kept) = Len(specs) - 1
        /\ \A i \in 1..Len(specs) - 1 :
              kept[i] = specs[IF i < k THEN i ELSE i + 1]
    BY <2>1, <2>2, RemoveAtElements
  <2>4. Unique(kept)
    <3> SUFFICES ASSUME NEW i \in 1..Len(kept), NEW j \in 1..Len(kept),
                        kept[i].gpu = kept[j].gpu
                 PROVE  i = j
      BY DEF Unique
    <3> DEFINE Old(n) == IF n < k THEN n ELSE n + 1
    <3>1. /\ Old(i) \in 1..Len(specs) /\ Old(j) \in 1..Len(specs)
          /\ specs[Old(i)].gpu = specs[Old(j)].gpu
      BY <2>1, <2>3
    <3>2. Old(i) = Old(j)
      BY <3>1 DEF Unique
    <3> QED
      BY <2>1, <3>2
  <2>5. ASSUME NEW i \in 1..Len(kept)
        PROVE  /\ kept[i].gpu # g
               /\ \E j \in 1..Len(specs) : kept[i] = specs[j]
    BY <2>1, <2>3 DEF Unique
  <2>6. ASSUME NEW j \in 1..Len(specs), specs[j].gpu # g
        PROVE  \E i \in 1..Len(kept) : kept[i] = specs[j]
    <3> DEFINE i == IF j < k THEN j ELSE j - 1
    <3>1. i \in 1..Len(kept) /\ kept[i] = specs[j]
      BY <2>1, <2>3, <2>6
    <3> QED
      BY <3>1
  <2>7. SavedGpus(kept) = SavedGpus(specs) \ {g}
    BY <2>5, <2>6 DEF SavedGpus
  <2> QED
    BY <2>3, <2>4, <2>5, <2>7 DEF kept
<1> QED
  BY <1>1, <1>2

(***************************************************************************)
(* The operations of BootRuntimeSet on a valid set.  Saved(set) is the     *)
(* map the set stands for, the refinement mapping's view of it.            *)
(***************************************************************************)
Saved(set) == [g \in SavedGpus(set.specs) |-> SpecOf(set, g)]

\* A saved spec is determined by any entry of its GPU.
LEMMA SavedEntry ==
    ASSUME NEW set \in BootSets, Unique(set.specs), NEW i \in 1..Len(set.specs)
    PROVE  Saved(set)[set.specs[i].gpu] = set.specs[i]
<1>1. set.specs \in Seq(RuntimeSpec) /\ set.specs[i].gpu \in SavedGpus(set.specs)
  BY DEF BootSets, SavedGpus
<1>2. Position(set.specs, set.specs[i].gpu) = i
  BY <1>1, PositionFinds DEF Unique
<1> QED
  BY <1>1, <1>2 DEF Saved, SpecOf

LEMMA UpsertSaves ==
    ASSUME NEW set \in BootSets, Validate(set), NEW spec \in RuntimeSpec
    PROVE  LET new == Upsert(set, spec)
           IN  /\ new \in BootSets /\ Validate(new) /\ new.specs # <<>>
               /\ SavedGpus(new.specs) = SavedGpus(set.specs) \cup {spec.gpu}
               /\ Saved(new) = [h \in SavedGpus(set.specs) \cup {spec.gpu} |->
                     IF h = spec.gpu THEN spec ELSE Saved(set)[h]]
               /\ new.active = IF set.main = NoGpu THEN spec.gpu ELSE set.active
               /\ new.main = set.main
<1> DEFINE kept == Without(set.specs, spec.gpu)
           new == Upsert(set, spec)
<1>1. set.specs \in Seq(RuntimeSpec) /\ Unique(set.specs)
  BY DEF BootSets, Validate, Unique
<1>2. /\ kept \in Seq(RuntimeSpec) /\ Unique(kept)
      /\ SavedGpus(kept) = SavedGpus(set.specs) \ {spec.gpu}
      /\ \A i \in 1..Len(kept) : \E j \in 1..Len(set.specs) : kept[i] = set.specs[j]
  BY <1>1, WithoutKeepsOthers
<1>3. /\ new.specs = Append(kept, spec)
      /\ new.active = IF set.main = NoGpu THEN spec.gpu ELSE set.active
      /\ new.main = set.main
      /\ new = [specs |-> new.specs, active |-> new.active, main |-> new.main]
  BY DEF Upsert
<1> HIDE DEF kept, new
<1>4. /\ new.specs \in Seq(RuntimeSpec)
      /\ new.specs # <<>>
      /\ Len(new.specs) = Len(kept) + 1
      /\ \A i \in 1..Len(kept) : new.specs[i] = kept[i]
      /\ new.specs[Len(kept) + 1] = spec
  BY <1>2, <1>3, AppendProperties
<1>5. new \in BootSets
  BY <1>3, <1>4 DEF BootSets, RuntimeSpec
<1>6. SavedGpus(new.specs) = SavedGpus(set.specs) \cup {spec.gpu}
  <2>1. SavedGpus(new.specs) = SavedGpus(kept) \cup {spec.gpu}
    <3>1. 1..Len(new.specs) = 1..Len(kept) \cup {Len(kept) + 1}
      BY <1>2, <1>4
    <3>2. SavedGpus(new.specs) =
             {new.specs[i].gpu : i \in 1..Len(kept)} \cup {new.specs[Len(kept) + 1].gpu}
      BY <3>1 DEF SavedGpus
    <3> QED
      BY <1>4, <3>2 DEF SavedGpus
  <2> QED
    BY <1>2, <2>1
<1>7. Unique(new.specs)
  <2>1. \A i \in 1..Len(kept) : kept[i].gpu # spec.gpu
    BY <1>2 DEF SavedGpus
  <2> QED
    BY <1>2, <1>4, <2>1 DEF Unique
<1>8. Validate(new)
  BY <1>3, <1>6, <1>7 DEF Validate, Unique
<1>9. ASSUME NEW h \in SavedGpus(new.specs)
      PROVE  Saved(new)[h] = IF h = spec.gpu THEN spec ELSE Saved(set)[h]
  <2>1. CASE h = spec.gpu
    <3>1. Len(kept) + 1 \in 1..Len(new.specs)
      BY <1>2, <1>4
    <3> QED
      BY <2>1, <3>1, <1>4, <1>5, <1>7, SavedEntry
  <2>2. CASE h # spec.gpu
    <3> h \in SavedGpus(kept)
      BY <2>2, <1>2, <1>6
    <3>1. PICK i \in 1..Len(kept) : kept[i].gpu = h
      BY DEF SavedGpus
    <3>2. PICK j \in 1..Len(set.specs) : kept[i] = set.specs[j]
      BY <1>2
    <3>3. i \in 1..Len(new.specs) /\ new.specs[i] = set.specs[j]
      BY <1>2, <1>4, <3>2
    <3> QED
      BY <1>1, <1>5, <1>7, <2>2, <3>1, <3>2, <3>3, SavedEntry
  <2> QED
    BY <2>1, <2>2
<1>10. Saved(new) = [h \in SavedGpus(set.specs) \cup {spec.gpu} |->
           IF h = spec.gpu THEN spec ELSE Saved(set)[h]]
  BY <1>6, <1>9 DEF Saved
<1> QED
  BY <1>3, <1>4, <1>5, <1>6, <1>8, <1>10 DEF new

LEMMA SetMainPins ==
    ASSUME NEW set \in BootSets, Validate(set), NEW g \in Gpus \cup {NoGpu},
           CanBeMain(set, g)
    PROVE  LET new == SetMainGpu(set, g)
           IN  /\ new \in BootSets /\ Validate(new)
               /\ new.specs = set.specs /\ new.main = g
               /\ new.active = IF g = NoGpu THEN set.active ELSE g
  BY DEF BootSets, Validate, CanBeMain, SetMainGpu, SavedGpus

LEMMA RemoveForgets ==
    ASSUME NEW set \in BootSets, Validate(set), NEW g \in SavedGpus(set.specs)
    PROVE  LET new == RemoveGpu(set, g)
           IN  /\ new \in BootSets /\ Validate(new)
               /\ SavedGpus(new.specs) = SavedGpus(set.specs) \ {g}
               /\ Saved(new) = [h \in SavedGpus(set.specs) \ {g} |-> Saved(set)[h]]
               /\ new.main = IF set.main = g THEN NoGpu ELSE set.main
               /\ \/ set.active # g /\ new.active = set.active
                  \/ set.active = g /\ new.active \in SavedGpus(new.specs)
                  \/ SavedGpus(new.specs) = {} /\ new.active = NoGpu
<1> DEFINE kept == Without(set.specs, g)
           new == RemoveGpu(set, g)
<1>1. set.specs \in Seq(RuntimeSpec) /\ Unique(set.specs)
  BY DEF BootSets, Validate, Unique
<1>2. /\ kept \in Seq(RuntimeSpec) /\ Unique(kept)
      /\ SavedGpus(kept) = SavedGpus(set.specs) \ {g}
      /\ \A i \in 1..Len(kept) : \E j \in 1..Len(set.specs) : kept[i] = set.specs[j]
  BY <1>1, WithoutKeepsOthers
<1>3. /\ new.specs = kept
      /\ new.main = IF set.main = g THEN NoGpu ELSE set.main
      /\ new.active = CASE set.active # g -> set.active
                        [] set.active = g /\ kept # <<>> -> Last(kept).gpu
                        [] OTHER -> NoGpu
      /\ new = [specs |-> new.specs, main |-> new.main, active |-> new.active]
  BY DEF RemoveGpu
<1> HIDE DEF kept, new
<1>4. kept # <<>> => Last(kept) \in RuntimeSpec /\ Last(kept).gpu \in SavedGpus(kept)
  BY <1>2 DEF Last, SavedGpus
<1>5. kept = <<>> => SavedGpus(kept) = {}
  BY DEF SavedGpus
<1>6. /\ \/ set.active # g /\ new.active = set.active
         \/ set.active = g /\ new.active \in SavedGpus(new.specs)
         \/ SavedGpus(new.specs) = {} /\ new.active = NoGpu
  BY <1>3, <1>4, <1>5
<1>7. new \in BootSets
  <2>1. new.active \in Gpus \cup {NoGpu}
    <3>1. CASE set.active # g
      BY <1>3, <3>1 DEF BootSets
    <3>2. CASE set.active = g /\ kept # <<>>
      BY <1>3, <1>4, <3>2 DEF RuntimeSpec
    <3>3. CASE set.active = g /\ kept = <<>>
      BY <1>3, <3>3
    <3> QED
      BY <3>1, <3>2, <3>3
  <2> QED
    BY <1>2, <1>3, <2>1 DEF BootSets
<1>8. Validate(new)
  <2>1. kept # <<>> => new.active \in SavedGpus(kept)
    <3>1. CASE set.active # g
      <4>1. kept # <<>> => set.specs # <<>>
        BY <1>2
      <4> QED
        BY <1>2, <1>3, <3>1, <4>1 DEF Validate
    <3>2. CASE set.active = g
      BY <1>3, <1>4, <3>2
    <3> QED
      BY <3>1, <3>2
  <2>2. new.main # NoGpu => new.main \in SavedGpus(kept) /\ new.active = new.main
    BY <1>2, <1>3 DEF Validate
  <2> QED
    BY <1>2, <1>3, <2>1, <2>2 DEF Validate, Unique
<1>9. ASSUME NEW h \in SavedGpus(kept)
      PROVE  Saved(new)[h] = Saved(set)[h]
  <2>1. PICK i \in 1..Len(kept) : kept[i].gpu = h
    BY DEF SavedGpus
  <2>2. PICK j \in 1..Len(set.specs) : kept[i] = set.specs[j]
    BY <1>2
  <2> QED
    BY <1>1, <1>2, <1>3, <1>7, <2>1, <2>2, SavedEntry
<1>10. Saved(new) = [h \in SavedGpus(set.specs) \ {g} |-> Saved(set)[h]]
  BY <1>2, <1>3, <1>9 DEF Saved
<1> QED
  BY <1>2, <1>3, <1>6, <1>7, <1>8, <1>10 DEF new

-----------------------------------------------------------------------------
(***************************************************************************)
(* The inductive invariant.  A file that loads is not inductive on its     *)
(* own: a request commits what it read, so the set it holds must be the    *)
(* one in the file, which the lock guarantees.                             *)
(***************************************************************************)
HoldsFile ==
    /\ \A c \in Clients : job[c] # Idle => lock /\ job[c].set = LoadedSet(file)
    /\ \A c, d \in Clients : job[c] # Idle /\ job[d] # Idle => c = d

IInv == TypeOK /\ FileLoads /\ NoEmptyFile /\ HoldsFile

\* A legacy file and a missing one load as valid sets.
LEMMA LoadedSetOf ==
    /\ LoadedSet(Absent) = EmptySet
    /\ \A s \in RuntimeSpec : LoadedSet(s) = FromLegacy(s) /\ s # Absent
    /\ \A s \in BootSets : LoadedSet(s) = s /\ s # Absent
  BY AbsentAssumption DEF LoadedSet, RuntimeSpec, BootSets

LEMMA EmptySetValid ==
    /\ EmptySet \in BootSets /\ Validate(EmptySet)
    /\ SavedGpus(EmptySet.specs) = {}
  BY DEF EmptySet, BootSets, Validate, SavedGpus

LEMMA LegacyValid ==
    ASSUME NEW spec \in RuntimeSpec
    PROVE  /\ FromLegacy(spec) \in BootSets /\ Validate(FromLegacy(spec))
           /\ SavedGpus(FromLegacy(spec).specs) = {spec.gpu}
           /\ FromLegacy(spec).specs # <<>>
  BY BootSetAssumption DEF FromLegacy, BootSets, Validate, SavedGpus, RuntimeSpec

LEMMA LoadedSetType ==
    ASSUME TypeOK
    PROVE  LoadedSet(file) \in BootSets
  BY LoadedSetOf, EmptySetValid, LegacyValid DEF TypeOK

LEMMA InitIInv == Init => IInv
<1> SUFFICES ASSUME Init PROVE IInv
  OBVIOUS
<1>1. TypeOK
  BY DEF Init, TypeOK
<1>2. FileLoads /\ NoEmptyFile
  BY LoadedSetOf, EmptySetValid, LegacyValid DEF Init, FileLoads, NoEmptyFile
<1> QED
  BY <1>1, <1>2 DEF Init, IInv, HoldsFile

\* The shape of every step that ends a request by writing a valid set,
\* removing the file or leaving it alone.
LEMMA ReleaseKeepsIInv ==
    ASSUME IInv, NEW c \in Clients, Release(c),
           \/ file' = file \/ file' = Absent
           \/ file' \in BootSets /\ Validate(file') /\ file'.specs # <<>>,
           job[c] # Idle
    PROVE  IInv'
<1>1. TypeOK'
  BY DEF IInv, TypeOK, Release
<1>2. (FileLoads /\ NoEmptyFile)'
  BY LoadedSetOf, EmptySetValid DEF IInv, FileLoads, NoEmptyFile
<1>3. \A d \in Clients : job'[d] = Idle
  BY DEF IInv, TypeOK, HoldsFile, Release
<1> QED
  BY <1>1, <1>2, <1>3 DEF IInv, HoldsFile

LEMMA NextIInv == IInv /\ [Next]_vars => IInv'
<1> SUFFICES ASSUME IInv, [Next]_vars PROVE IInv'
  OBVIOUS
<1> USE DEF IInv
<1>1. LoadedSet(file) \in BootSets /\ Validate(LoadedSet(file))
  BY LoadedSetType DEF FileLoads
<1>2. ASSUME NEW c \in Clients, job[c] # Idle
      PROVE  job[c] \in Jobs /\ job[c].set = LoadedSet(file)
  BY <1>2 DEF TypeOK, HoldsFile
<1>3. ASSUME NEW c \in Clients, NEW req \in Requests, LoadBootSet(c, req)
      PROVE  IInv'
  <2>1. TypeOK'
    BY <1>1, <1>3 DEF TypeOK, LoadBootSet, Jobs
  <2>2. (FileLoads /\ NoEmptyFile)'
    BY <1>3 DEF LoadBootSet, FileLoads, NoEmptyFile
  <2>3. \A d \in Clients : d # c => job'[d] = Idle
    BY <1>3 DEF LoadBootSet, HoldsFile, TypeOK
  <2>4. job'[c].set = LoadedSet(file') /\ lock'
    BY <1>3 DEF LoadBootSet, TypeOK
  <2> QED
    BY <2>1, <2>2, <2>3, <2>4 DEF HoldsFile
<1>4. ASSUME NEW c \in Clients, CommitSave(c) PROVE IInv'
  <2>1. job[c].req.spec \in RuntimeSpec
    BY <1>2, <1>4 DEF CommitSave, Jobs, Requests
  <2>2. file' \in BootSets /\ Validate(file') /\ file'.specs # <<>>
    BY <1>1, <1>2, <1>4, <2>1, UpsertSaves DEF CommitSave
  <2> QED
    BY <1>4, <2>2, ReleaseKeepsIInv DEF CommitSave
<1>5. ASSUME NEW c \in Clients, CommitMain(c) PROVE IInv'
  <2>1. job[c].req.gpu \in Gpus \cup {NoGpu}
    BY <1>2, <1>5 DEF CommitMain, Jobs, Requests
  <2>2. \/ file' = file
        \/ file' \in BootSets /\ Validate(file') /\ file'.specs # <<>>
    BY <1>1, <1>2, <1>5, <2>1, SetMainPins DEF CommitMain
  <2> QED
    BY <1>5, <2>2, ReleaseKeepsIInv DEF CommitMain
<1>6. ASSUME NEW c \in Clients, CommitClear(c) PROVE IInv'
  <2>1. \/ file' = file \/ file' = Absent
        \/ file' \in BootSets /\ Validate(file') /\ file'.specs # <<>>
    <3> DEFINE set == job[c].set
               g == job[c].req.gpu
               new == RemoveGpu(set, g)
    <3>1. file' = IF g = NoGpu \/ new.specs = <<>> THEN Absent
                  ELSE IF g \in SavedGpus(set.specs) THEN new ELSE file
      BY <1>6 DEF CommitClear, ClearedFile
    <3>2. g \in SavedGpus(set.specs) => new \in BootSets /\ Validate(new)
      BY <1>1, <1>2, <1>6, RemoveForgets DEF CommitClear
    <3> HIDE DEF set, g, new
    <3> QED
      BY <3>1, <3>2
  <2> QED
    BY <1>6, <2>1, ReleaseKeepsIInv DEF CommitClear
<1>7. ASSUME NEW c \in Clients, RejectMain(c) PROVE IInv'
  BY <1>7, ReleaseKeepsIInv DEF RejectMain
<1>8. ASSUME NEW c \in Clients, PersistFails(c) PROVE IInv'
  BY <1>8, ReleaseKeepsIInv DEF PersistFails
<1>9. CASE Crash
  BY <1>9 DEF Crash, TypeOK, FileLoads, NoEmptyFile, HoldsFile
<1>10. CASE UNCHANGED vars
  BY <1>10 DEF vars, TypeOK, FileLoads, NoEmptyFile, HoldsFile
<1> QED
  BY <1>3, <1>4, <1>5, <1>6, <1>7, <1>8, <1>9, <1>10 DEF Next

\* Every boot file, after any interleaving of requests, failures and crashes,
\* is a well-formed one that the next start of the daemon can load.
THEOREM BootFileLoads == Spec => [](TypeOK /\ FileLoads /\ NoEmptyFile)
<1>1. IInv => TypeOK /\ FileLoads /\ NoEmptyFile
  BY DEF IInv
<1> QED
  BY <1>1, InitIInv, NextIInv, PTL DEF Spec
(***************************************************************************)
(* Hints.                                                                  *)
(***************************************************************************)
\* The places of a finite set, counted from the last: every rank is that of one place.
LEMMA Ranks ==
    ASSUME NEW n \in Nat, NEW places \in SUBSET (1..n)
    PROVE  LET Rank(i) == Cardinality({j \in places : j > i})
           IN  /\ Cardinality(places) \in Nat
               /\ \A i \in places : Rank(i) \in Nat /\ Rank(i) + 1 \in 1..Cardinality(places)
               /\ \A i, j \in places : i < j => Rank(j) < Rank(i)
               /\ \A k \in 1..Cardinality(places) : \E i \in places : Rank(i) = k - 1
<1> DEFINE Later(i) == {j \in places : j > i}
           Rank(i) == Cardinality(Later(i))
           N == Cardinality(places)
<1>1. IsFiniteSet(places) /\ N \in Nat
  <2>1. 1 \in Int /\ n \in Int
    OBVIOUS
  <2>2. IsFiniteSet(1..n)
    BY <2>1, FS_Interval
  <2>3. IsFiniteSet(places)
    BY <2>2, FS_Subset
  <2> QED BY <2>3, FS_CardinalityType
<1>2. \A i \in places : IsFiniteSet(Later(i)) /\ Rank(i) \in Nat
  <2> SUFFICES ASSUME NEW i \in places PROVE IsFiniteSet(Later(i)) /\ Rank(i) \in Nat
    OBVIOUS
  <2>1. Later(i) \in SUBSET places
    OBVIOUS
  <2> HIDE DEF Later
  <2>2. IsFiniteSet(Later(i))
    BY <1>1, <2>1, FS_Subset
  <2> QED BY <2>2, FS_CardinalityType
<1>3. \A i \in places : Rank(i) < N
  <2> SUFFICES ASSUME NEW i \in places PROVE Rank(i) < N
    OBVIOUS
  <2>1. Later(i) \in SUBSET places /\ Later(i) # places
    OBVIOUS
  <2>2. Rank(i) \in Nat
    BY <1>2
  <2> HIDE DEF Later
  <2>3. Rank(i) <= N /\ Rank(i) # N
    BY <1>1, <2>1, FS_Subset
  <2> QED BY <1>1, <2>2, <2>3
<1>4. \A i, j \in places : i < j => Rank(j) < Rank(i)
  <2> SUFFICES ASSUME NEW i \in places, NEW j \in places, i < j PROVE Rank(j) < Rank(i)
    OBVIOUS
  <2>1. Later(j) \in SUBSET Later(i) /\ Later(j) # Later(i)
    <3>1. i \in Nat /\ j \in Nat /\ \A l \in places : l \in Nat
      OBVIOUS
    <3>2. j \in Later(i) /\ j \notin Later(j)
      BY <3>1
    <3>3. \A l \in places : l > j => l > i
      BY <3>1
    <3> QED BY <3>2, <3>3
  <2>2. IsFiniteSet(Later(i)) /\ Rank(i) \in Nat /\ Rank(j) \in Nat
    BY <1>2
  <2> HIDE DEF Later
  <2>3. Rank(j) <= Rank(i) /\ Rank(j) # Rank(i)
    BY <2>1, <2>2, FS_Subset
  <2> QED BY <2>2, <2>3
<1>5. \A k \in 1..N : \E i \in places : Rank(i) = k - 1
  <2> HIDE DEF N, Later
  <2> SUFFICES ASSUME NEW k \in 1..N, \A i \in places : Rank(i) # k - 1 PROVE FALSE
    OBVIOUS
  <2> DEFINE T == (1..N) \ {k}
             f == [i \in places |-> Rank(i) + 1]
  <2>1. f \in [places -> T]
    BY <1>1, <1>2, <1>3
  <2>2. IsFiniteSet(T) /\ Cardinality(T) = N - 1
    <3>1. 1 \in Int /\ N \in Int
      BY <1>1
    <3>2. IsFiniteSet(1..N) /\ Cardinality(1..N) = N
      BY <1>1, <3>1, FS_Interval
    <3> QED BY <3>2, FS_RemoveElement
  <2>3. Cardinality(T) < Cardinality(places)
    BY <1>1, <2>2 DEF N
  <2>4. \A i \in places : f[i] = Rank(i) + 1 /\ Rank(i) \in Nat
    BY <1>2
  <2> HIDE DEF T, f
  <2>5. \E x, y \in places : x # y /\ f[x] = f[y]
    BY <1>1, <2>1, <2>2, <2>3, FS_PigeonHole
  <2>7. PICK x \in places, y \in places : x # y /\ f[x] = f[y]
    BY <2>5
  <2>8. Rank(x) = Rank(y)
    BY <2>4, <2>7
  <2>6. x \in Nat /\ y \in Nat
    OBVIOUS
  <2> QED BY <1>2, <1>4, <2>6, <2>7, <2>8
<1>6. \A i \in places : Rank(i) \in Nat /\ Rank(i) + 1 \in 1..N
  <2> SUFFICES ASSUME NEW i \in places PROVE Rank(i) \in Nat /\ Rank(i) + 1 \in 1..N
    OBVIOUS
  <2>1. N \in Nat /\ Rank(i) \in Nat /\ Rank(i) < N
    BY <1>1, <1>2, <1>3
  <2> HIDE DEF N, Rank
  <2> QED BY <2>1
<1> QED BY <1>1, <1>4, <1>5, <1>6

\* NewestFirst lists the GPUs of all the places and of no other, and before each only
\* those of later places.
LEMMA NewestListsPlaces ==
    ASSUME NEW specs \in Seq(RuntimeSpec), NEW places \in SUBSET (1..Len(specs))
    PROVE  LET newest == NewestFirst(specs, places)
           IN  /\ newest \in Seq(Gpus)
               /\ \A k \in 1..Len(newest) : \E i \in places : newest[k] = specs[i].gpu
               /\ \A i \in places : \E k \in 1..Len(newest) :
                     /\ newest[k] = specs[i].gpu
                     /\ \A l \in 1..Len(newest) : l < k =>
                           \E j \in places : j > i /\ newest[l] = specs[j].gpu
<1> DEFINE newest == NewestFirst(specs, places)
           N == Cardinality(places)
           Rank(i) == Cardinality({j \in places : j > i})
           place(k) == CHOOSE i \in places : Rank(i) = k - 1
<1>1. Len(specs) \in Nat /\ \A i \in places : specs[i].gpu \in Gpus
  <2>1. \A i \in 1..Len(specs) : specs[i].gpu \in Gpus
    BY EntriesAreSpecs DEF RuntimeSpec
  <2> QED BY <2>1
<1>2. /\ N \in Nat
      /\ \A i \in places : Rank(i) \in Nat /\ Rank(i) + 1 \in 1..N
      /\ \A i, j \in places : i < j => Rank(j) < Rank(i)
      /\ \A k \in 1..N : \E i \in places : Rank(i) = k - 1
  BY <1>1, Ranks
<1>3. newest = [k \in 1..N |-> specs[place(k)].gpu]
  BY DEF NewestFirst
<1> HIDE DEF N, Rank
<1>4. \A k \in 1..N : place(k) \in places /\ Rank(place(k)) = k - 1
  BY <1>2
<1> HIDE DEF newest, place
<1>5. newest \in Seq(Gpus) /\ Len(newest) = N
  <2>1. \A k \in 1..N : specs[place(k)].gpu \in Gpus
    BY <1>1, <1>4
  <2>2. newest \in [1..N -> Gpus]
    BY <1>3, <2>1
  <2> QED BY <1>2, <2>2
<1>6. ASSUME NEW i \in places
      PROVE  \E k \in 1..N : /\ newest[k] = specs[i].gpu
                             /\ \A l \in 1..N : l < k =>
                                   \E j \in places : j > i /\ newest[l] = specs[j].gpu
  <2>1. Rank(i) + 1 \in 1..N /\ i \in Nat /\ \A j \in places : j \in Nat
    BY <1>1, <1>2
  <2>2. Rank(i) \in Nat /\ \A j \in places : Rank(j) \in Nat
    BY <1>2
  <2>3. place(Rank(i) + 1) = i
    <3> DEFINE p == place(Rank(i) + 1)
    <3>1. p \in places /\ Rank(p) = Rank(i)
      BY <1>4, <2>1, <2>2
    <3> HIDE DEF p
    <3>2. ~ (p < i) /\ ~ (i < p)
      BY <1>2, <2>2, <3>1
    <3>3. p = i
      BY <2>1, <3>1, <3>2
    <3> QED BY <3>3 DEF p
  <2>4. newest[Rank(i) + 1] = specs[i].gpu
    BY <1>3, <2>1, <2>3
  <2>5. ASSUME NEW l \in 1..N, l < Rank(i) + 1
        PROVE  place(l) \in places /\ place(l) > i /\ newest[l] = specs[place(l)].gpu
    <3>1. PICK p \in places : p = place(l) /\ Rank(p) = l - 1
      BY <1>4
    <3>2. Rank(p) < Rank(i)
      BY <1>2, <2>2, <2>5, <3>1
    <3>3. p # i /\ ~ (p < i)
      BY <1>2, <2>2, <3>2
    <3>4. p > i
      BY <2>1, <3>3
    <3> QED BY <1>3, <3>1, <3>4
  <2> QED BY <2>1, <2>4, <2>5
<1>7. \A k \in 1..N : newest[k] = specs[place(k)].gpu
  BY <1>3
<1> QED BY <1>4, <1>5, <1>6, <1>7 DEF newest

\* A sequence of GPUs names one that is in the machine.
Names(hints, present) == \E k \in 1..Len(hints) : hints[k] \in present

\* The watcher takes the first that is.
LEMMA WatchedIsFirst ==
    ASSUME NEW hints \in Seq(Gpus), NEW present
    PROVE  /\ \A k \in 1..Len(hints) :
                 /\ hints[k] \in present
                 /\ \A l \in 1..Len(hints) : l < k => hints[l] \notin present
                 => Watched(hints, present) = hints[k]
           /\ Names(hints, present) =>
                 \E k \in 1..Len(hints) :
                    /\ hints[k] \in present
                    /\ \A l \in 1..Len(hints) : l < k => hints[l] \notin present
<1> DEFINE found == {k \in 1..Len(hints) : hints[k] \in present}
<1>0. Len(hints) \in Nat
  OBVIOUS
<1>1. ASSUME NEW k \in 1..Len(hints), hints[k] \in present,
             \A l \in 1..Len(hints) : l < k => hints[l] \notin present
      PROVE  Watched(hints, present) = hints[k]
  <2> DEFINE first == CHOOSE m \in found : \A l \in found : m <= l
  <2>1. k \in found /\ \A l \in found : k <= l
    BY <1>0, <1>1
  <2>2. first \in found /\ \A l \in found : first <= l
    BY <2>1
  <2>3. Watched(hints, present) = hints[first]
    BY <2>1 DEF Watched
  <2> HIDE DEF first
  <2>4. first = k
    BY <1>0, <2>1, <2>2
  <2> QED BY <2>3, <2>4
<1>2. ASSUME Names(hints, present)
      PROVE  \E k \in 1..Len(hints) :
                /\ hints[k] \in present
                /\ \A l \in 1..Len(hints) : l < k => hints[l] \notin present
  <2>1. found \subseteq Nat /\ found # {}
    BY <1>0, <1>2 DEF Names
  <2>2. PICK k \in found : \A l \in found : ~ (<<l, k>> \in OpToRel(<, Nat))
    BY <2>1, NatLessThanWellFounded, WFMin
  <2>3. \A l \in found : ~ (l < k)
    <3> HIDE DEF found
    <3>1. \A l \in found : l < k => <<l, k>> \in OpToRel(<, Nat)
      BY <2>1 DEF OpToRel
    <3> QED BY <2>2, <3>1
  <2> QED BY <2>3
<1> QED BY <1>1, <1>2

\* Of two sequences in a row the second counts only when the first names no GPU that is
\* in the machine.
LEMMA WatchedInRow ==
    ASSUME NEW a \in Seq(Gpus), NEW b \in Seq(Gpus), NEW present
    PROVE  /\ a \o b \in Seq(Gpus)
           /\ Names(a \o b, present) <=> Names(a, present) \/ Names(b, present)
           /\ Names(a, present) => Watched(a \o b, present) = Watched(a, present)
           /\ ~Names(a, present) /\ Names(b, present) =>
                 Watched(a \o b, present) = Watched(b, present)
<1> DEFINE row == a \o b
<1>1. /\ row \in Seq(Gpus)
      /\ Len(row) = Len(a) + Len(b)
      /\ \A i \in 1..Len(a) + Len(b) :
            row[i] = IF i <= Len(a) THEN a[i] ELSE b[i - Len(a)]
  BY ConcatProperties
<1>2. Len(a) \in Nat /\ Len(b) \in Nat
  OBVIOUS
<1> HIDE DEF row
<1>3. /\ \A i \in 1..Len(a) : i \in 1..Len(row) /\ row[i] = a[i]
      /\ \A i \in 1..Len(b) : Len(a) + i \in 1..Len(row) /\ row[Len(a) + i] = b[i]
  <2>1. ASSUME NEW i \in 1..Len(a) PROVE i \in 1..Len(row) /\ row[i] = a[i]
    BY <1>1, <1>2
  <2>2. ASSUME NEW i \in 1..Len(b)
        PROVE  Len(a) + i \in 1..Len(row) /\ row[Len(a) + i] = b[i]
    <3>1. /\ Len(a) + i \in 1..Len(a) + Len(b)
          /\ ~ (Len(a) + i <= Len(a)) /\ Len(a) + i - Len(a) = i
      BY <1>2
    <3> QED BY <1>1, <3>1
  <2> QED BY <2>1, <2>2
<1>4. \A i \in 1..Len(row) : \/ i \in 1..Len(a)
                             \/ i > Len(a) /\ i - Len(a) \in 1..Len(b)
  BY <1>1, <1>2
<1>5. Names(row, present) <=> Names(a, present) \/ Names(b, present)
  <2>1. ASSUME NEW i \in 1..Len(row), row[i] \in present
        PROVE  Names(a, present) \/ Names(b, present)
    BY <1>1, <1>2, <1>4, <2>1 DEF Names
  <2> QED BY <1>3, <2>1 DEF Names
<1>6. ASSUME Names(a, present) PROVE Watched(row, present) = Watched(a, present)
  <2>1. PICK k \in 1..Len(a) : /\ a[k] \in present
                               /\ \A l \in 1..Len(a) : l < k => a[l] \notin present
    BY <1>6, WatchedIsFirst
  <2>2. Watched(a, present) = a[k]
    BY <2>1, WatchedIsFirst
  <2>3. k \in 1..Len(row) /\ row[k] = a[k]
    BY <1>3
  <2>4. \A l \in 1..Len(row) : l < k => row[l] \notin present
    BY <1>2, <1>3, <1>4, <2>1
  <2>5. Watched(row, present) = row[k]
    BY <1>1, <2>1, <2>3, <2>4, WatchedIsFirst
  <2> QED BY <2>2, <2>3, <2>5
<1>7. ASSUME ~Names(a, present), Names(b, present)
      PROVE  Watched(row, present) = Watched(b, present)
  <2>1. PICK k \in 1..Len(b) : /\ b[k] \in present
                               /\ \A l \in 1..Len(b) : l < k => b[l] \notin present
    BY <1>7, WatchedIsFirst
  <2>2. Watched(b, present) = b[k]
    BY <2>1, WatchedIsFirst
  <2>3. Len(a) + k \in 1..Len(row) /\ row[Len(a) + k] = b[k]
    BY <1>3
  <2>4. ASSUME NEW l \in 1..Len(row), l < Len(a) + k PROVE row[l] \notin present
    <3>1. CASE l \in 1..Len(a)
      BY <1>3, <1>7, <3>1 DEF Names
    <3>2. CASE l > Len(a) /\ l - Len(a) \in 1..Len(b)
      <4>1. row[l] = b[l - Len(a)]
        BY <1>1, <1>2, <3>2
      <4>2. l - Len(a) < k
        BY <1>2, <2>4
      <4> QED BY <2>1, <3>2, <4>1, <4>2
    <3> QED BY <1>4, <3>1, <3>2
  <2>5. Watched(row, present) = row[Len(a) + k]
    BY <1>1, <2>1, <2>3, <2>4, WatchedIsFirst
  <2> QED BY <2>2, <2>3, <2>5
<1> QED BY <1>1, <1>5, <1>6, <1>7 DEF row

\* Of the GPUs of some places, the watcher takes the last saved one that is in the machine.
LEMMA WatchedIsNewest ==
    ASSUME NEW specs \in Seq(RuntimeSpec), NEW places \in SUBSET (1..Len(specs)),
           Unique(specs), NEW present
    PROVE  LET newest == NewestFirst(specs, places)
               here == {i \in places : specs[i].gpu \in present}
           IN  /\ newest \in Seq(Gpus)
               /\ Names(newest, present) <=> here # {}
               /\ here # {} => \E i \in here : /\ Watched(newest, present) = specs[i].gpu
                                               /\ \A j \in here : j <= i
<1> DEFINE newest == NewestFirst(specs, places)
           here == {i \in places : specs[i].gpu \in present}
<1>1. /\ newest \in Seq(Gpus)
      /\ \A k \in 1..Len(newest) : \E i \in places : newest[k] = specs[i].gpu
      /\ \A i \in places : \E k \in 1..Len(newest) :
            /\ newest[k] = specs[i].gpu
            /\ \A l \in 1..Len(newest) : l < k =>
                  \E j \in places : j > i /\ newest[l] = specs[j].gpu
  BY NewestListsPlaces
<1>2. Len(newest) \in Nat /\ \A i \in places : i \in Nat
  BY <1>1
<1> HIDE DEF newest
<1>3. Names(newest, present) <=> here # {}
  BY <1>1 DEF Names
<1>4. ASSUME here # {}
      PROVE  \E i \in here : /\ Watched(newest, present) = specs[i].gpu
                             /\ \A j \in here : j <= i
  <2>1. PICK k \in 1..Len(newest) :
           /\ newest[k] \in present
           /\ \A l \in 1..Len(newest) : l < k => newest[l] \notin present
    BY <1>1, <1>3, <1>4, WatchedIsFirst
  <2>2. Watched(newest, present) = newest[k]
    BY <1>1, <2>1, WatchedIsFirst
  <2>3. PICK i \in places : newest[k] = specs[i].gpu
    BY <1>1
  <2>4. ASSUME NEW j \in here PROVE j <= i
    <3>1. PICK m \in 1..Len(newest) :
             /\ newest[m] = specs[j].gpu
             /\ \A l \in 1..Len(newest) : l < m =>
                   \E h \in places : h > j /\ newest[l] = specs[h].gpu
      BY <1>1
    <3>2. ~ (m < k)
      BY <2>1, <3>1
    <3>3. CASE m = k
      BY <1>2, <2>3, <3>1, <3>3 DEF Unique
    <3>4. CASE k < m
      <4>1. PICK h \in places : h > j /\ newest[k] = specs[h].gpu
        BY <3>1, <3>4
      <4>2. h = i
        BY <2>3, <4>1 DEF Unique
      <4> QED BY <1>2, <4>1, <4>2
    <3> QED BY <1>2, <3>2, <3>3, <3>4
  <2> QED BY <2>1, <2>2, <2>3, <2>4
<1> QED BY <1>1, <1>3, <1>4 DEF newest

\* HintsFindWork: whatever was saved, removed and selected, wherever a write was cut
\* short, and whichever GPUs are in the machine, the watcher watches the session's GPU,
\* and failing that the selected one or the newest of those a saved spec asks work of.
THEOREM HintsComeFirst == Spec => []HintsFindWork
<1>1. ASSUME IInv PROVE HintsFindWork
  <2> SUFFICES ASSUME NEW session \in Gpus \cup {NoGpu}, NEW present \in SUBSET Gpus
               PROVE  LET set == LoadedSet(file)
                          watched == Watched(PciHints(set, session, Addressed), present)
                          wakeable == present \cap Addressed
                          work == {i \in 1..Len(set.specs) :
                             set.specs[i].profile # Stock /\ set.specs[i].gpu \in wakeable}
                          pinned == {i \in work : set.specs[i].gpu = set.active}
                          eligible == IF pinned # {} THEN pinned ELSE work
                      IN  IF session \in wakeable THEN watched = session
                          ELSE eligible # {} =>
                                 \E i \in eligible : /\ watched = set.specs[i].gpu
                                                     /\ \A j \in eligible : j <= i
    BY DEF HintsFindWork
  <2> DEFINE set == LoadedSet(file)
             specs == set.specs
             places == {i \in 1..Len(specs) : specs[i].gpu \in Addressed \ {session}}
             selected == {i \in places : specs[i].gpu = set.active}
             stocked == {i \in places : specs[i].profile = Stock}
             own == IF session \in Addressed THEN <<session>> ELSE <<>>
             A == selected \ stocked
             B == places \ (selected \cup stocked)
             C == selected \cap stocked
             D == stocked \ selected
             a == NewestFirst(specs, A)
             b == NewestFirst(specs, B)
             c == NewestFirst(specs, C)
             d == NewestFirst(specs, D)
             hints == PciHints(set, session, Addressed)
             wakeable == present \cap Addressed
             work == {i \in 1..Len(specs) :
                        specs[i].profile # Stock /\ specs[i].gpu \in wakeable}
             pinned == {i \in work : specs[i].gpu = set.active}
             eligible == IF pinned # {} THEN pinned ELSE work
             Here(P) == {i \in P : specs[i].gpu \in present}
  <2>1. specs \in Seq(RuntimeSpec) /\ Unique(specs)
    BY <1>1, LoadedSetType DEF IInv, FileLoads, Validate, Unique, BootSets
  <2>2. hints = own \o a \o b \o c \o d
    BY DEF PciHints
  <2>3. /\ A \in SUBSET (1..Len(specs)) /\ B \in SUBSET (1..Len(specs))
        /\ C \in SUBSET (1..Len(specs)) /\ D \in SUBSET (1..Len(specs))
    OBVIOUS
  <2>4. session \notin wakeable => Here(A) = pinned /\ Here(B) = work \ pinned
    OBVIOUS
  <2>5. own \in Seq(Gpus) /\ (Names(own, present) <=> session \in wakeable)
    BY AddressedAssumption DEF Names
  <2>6. session \in wakeable => Watched(own, present) = session
    <3> SUFFICES ASSUME session \in wakeable PROVE Watched(own, present) = session
      OBVIOUS
    <3>1. own = <<session>> /\ 1 \in 1..Len(own) /\ own[1] \in present
      OBVIOUS
    <3>2. \A l \in 1..Len(own) : l < 1 => own[l] \notin present
      BY <3>1
    <3> HIDE DEF own
    <3>3. Watched(own, present) = own[1]
      BY <2>5, <3>1, <3>2, WatchedIsFirst
    <3> QED BY <3>1, <3>3
  <2> HIDE DEF specs, places, selected, stocked, own, A, B, C, D, hints, work, pinned,
               wakeable, set
  <2>7. /\ a \in Seq(Gpus) /\ b \in Seq(Gpus) /\ c \in Seq(Gpus) /\ d \in Seq(Gpus)
        /\ Names(a, present) <=> Here(A) # {}
        /\ Names(b, present) <=> Here(B) # {}
        /\ Here(A) # {} => \E i \in Here(A) : /\ Watched(a, present) = specs[i].gpu
                                              /\ \A j \in Here(A) : j <= i
        /\ Here(B) # {} => \E i \in Here(B) : /\ Watched(b, present) = specs[i].gpu
                                              /\ \A j \in Here(B) : j <= i
    <3>1. /\ a \in Seq(Gpus)
          /\ Names(a, present) <=> Here(A) # {}
          /\ Here(A) # {} => \E i \in Here(A) : /\ Watched(a, present) = specs[i].gpu
                                                /\ \A j \in Here(A) : j <= i
      BY <2>1, <2>3, WatchedIsNewest
    <3>2. /\ b \in Seq(Gpus)
          /\ Names(b, present) <=> Here(B) # {}
          /\ Here(B) # {} => \E i \in Here(B) : /\ Watched(b, present) = specs[i].gpu
                                                /\ \A j \in Here(B) : j <= i
      BY <2>1, <2>3, WatchedIsNewest
    <3>3. c \in Seq(Gpus) /\ d \in Seq(Gpus)
      BY <2>1, <2>3, NewestListsPlaces
    <3> QED BY <3>1, <3>2, <3>3
  <2> HIDE DEF a, b, c, d, Here
  <2>8. /\ own \o a \in Seq(Gpus)
        /\ Names(own \o a, present) <=> Names(own, present) \/ Names(a, present)
        /\ Names(own, present) => Watched(own \o a, present) = Watched(own, present)
        /\ ~Names(own, present) /\ Names(a, present) =>
              Watched(own \o a, present) = Watched(a, present)
    BY <2>5, <2>7, WatchedInRow
  <2>9. /\ own \o a \o b \in Seq(Gpus)
        /\ Names(own \o a \o b, present) <=> Names(own \o a, present) \/ Names(b, present)
        /\ Names(own \o a, present) =>
              Watched(own \o a \o b, present) = Watched(own \o a, present)
        /\ ~Names(own \o a, present) /\ Names(b, present) =>
              Watched(own \o a \o b, present) = Watched(b, present)
    BY <2>7, <2>8, WatchedInRow
  <2>10. /\ own \o a \o b \o c \in Seq(Gpus)
         /\ Names(own \o a \o b, present) =>
              /\ Names(own \o a \o b \o c, present)
              /\ Watched(own \o a \o b \o c, present) = Watched(own \o a \o b, present)
    BY <2>7, <2>9, WatchedInRow
  <2>11. Names(own \o a \o b, present) =>
            Watched(hints, present) = Watched(own \o a \o b, present)
    BY <2>2, <2>7, <2>10, WatchedInRow
  <2>12. CASE session \in wakeable
    <3>1. Watched(hints, present) = session
      BY <2>5, <2>6, <2>8, <2>9, <2>11, <2>12
    <3> QED BY <2>12, <3>1 DEF hints, wakeable, set
  <2>13. CASE session \notin wakeable /\ pinned # {}
    <3>1. Watched(hints, present) = Watched(a, present)
      BY <2>4, <2>5, <2>7, <2>8, <2>9, <2>11, <2>13
    <3>2. \E i \in pinned : /\ Watched(hints, present) = specs[i].gpu
                            /\ \A j \in pinned : j <= i
      BY <2>4, <2>7, <2>13, <3>1
    <3> QED BY <2>13, <3>2 DEF hints, wakeable, specs, set, pinned, work
  <2>14. CASE session \notin wakeable /\ pinned = {} /\ work # {}
    <3>1. Watched(hints, present) = Watched(b, present)
      BY <2>4, <2>5, <2>7, <2>8, <2>9, <2>11, <2>14
    <3>2. \E i \in work : /\ Watched(hints, present) = specs[i].gpu
                          /\ \A j \in work : j <= i
      BY <2>4, <2>7, <2>14, <3>1
    <3> QED BY <2>14, <3>2 DEF hints, wakeable, specs, set, pinned, work
  <2>15. CASE session \notin wakeable /\ pinned = {} /\ work = {}
    BY <2>15 DEF wakeable, specs, set, pinned, work
  <2> QED BY <2>12, <2>13, <2>14, <2>15
<1> QED BY <1>1, InitIInv, NextIInv, PTL DEF Spec

(***************************************************************************)
(* Refinement.  Every commit is one request of BootIntent, every other     *)
(* step leaves the file, hence the intent, as it was.                      *)
(***************************************************************************)
\* The mapping of Intent, on a loaded file.
LEMMA InitRefines == Init => Intent!Init
<1> SUFFICES ASSUME Init PROVE Intent!Init
  OBVIOUS
<1> DEFINE set == LoadedSet(file)
<1>1. set \in BootSets /\ Validate(set) /\ set.main = NoGpu
  BY LoadedSetOf, EmptySetValid, LegacyValid
     DEF Init, EmptySet, FromLegacy
<1>2. SavedGpus(set.specs) \in SUBSET Gpus
  BY <1>1, EntriesAreSpecs DEF BootSets
<1>3. Saved(set) \in [SavedGpus(set.specs) -> RuntimeSpec]
  <2> SUFFICES ASSUME NEW g \in SavedGpus(set.specs)
               PROVE  SpecOf(set, g) \in RuntimeSpec
    BY DEF Saved
  <2>1. set.specs \in Seq(RuntimeSpec)
    BY <1>1 DEF BootSets
  <2>2. Position(set.specs, g) \in 1..Len(set.specs)
    BY <2>1, PositionFinds
  <2> QED
    BY <2>1, <2>2, EntriesAreSpecs DEF SpecOf
<1>4. SavedGpus(set.specs) # {} => set.active \in SavedGpus(set.specs)
  BY <1>1 DEF Validate, SavedGpus
<1>5. set.active \in SavedGpus(set.specs) \cup {NoGpu}
  BY LoadedSetOf, EmptySetValid, LegacyValid DEF Init, EmptySet, FromLegacy
<1>6. \A g \in SavedGpus(set.specs) : g # NoGpu
  BY <1>2, BootSetAssumption
<1> HIDE DEF set
<1>7. Saved(set) \in UNION {[G -> RuntimeSpec] : G \in SUBSET Gpus}
  BY <1>2, <1>3
<1> QED
  BY <1>1, <1>2, <1>4, <1>5, <1>6, <1>7
     DEF Intent!Init, Intent!SavedMaps, Intent!Coherent, Saved, set, BootSets

LEMMA StepRefines == IInv /\ [Next]_vars => [Intent!Next]_(Intent!vars)
<1> SUFFICES ASSUME IInv, [Next]_vars PROVE [Intent!Next]_(Intent!vars)
  OBVIOUS
<1> USE DEF IInv
<1> DEFINE set == LoadedSet(file)
           new == LoadedSet(file')
<1>1. set \in BootSets /\ Validate(set)
  BY LoadedSetType DEF FileLoads
<1>2. file' = file => UNCHANGED Intent!vars
  BY DEF Intent!vars
<1>3. ASSUME NEW c \in Clients, job[c] # Idle
      PROVE  job[c] \in Jobs /\ job[c].set = set
  BY <1>3 DEF TypeOK, HoldsFile
<1>4. ASSUME NEW c \in Clients, CommitSave(c) PROVE Intent!Next
  <2> DEFINE spec == job[c].req.spec
  <2>1. spec \in RuntimeSpec /\ spec.gpu \in Gpus 
    BY <1>3, <1>4 DEF CommitSave, Jobs, Requests, RuntimeSpec
  <2>2. new = Upsert(set, spec)
    BY <1>1, <1>3, <1>4, <2>1, UpsertSaves, LoadedSetOf DEF CommitSave
  <2> HIDE DEF spec
  <2>3. Intent!Save(spec.gpu, spec)
    BY <1>1, <2>1, <2>2, UpsertSaves DEF Intent!Save, Saved
  <2> QED
    BY <2>1, <2>3 DEF Intent!Next
<1>5. ASSUME NEW c \in Clients, CommitMain(c) PROVE [Intent!Next]_(Intent!vars)
  <2> DEFINE g == job[c].req.gpu
  <2>1. g \in Gpus \cup {NoGpu} /\ CanBeMain(set, g)
    BY <1>3, <1>5 DEF CommitMain, Jobs, Requests
  <2>2. CASE set.specs = <<>>
    BY <1>2, <1>3, <1>5, <2>2 DEF CommitMain
  <2>3. CASE set.specs # <<>>
    <3>1. new = SetMainGpu(set, g)
      BY <1>1, <1>3, <1>5, <2>1, <2>3, SetMainPins, LoadedSetOf DEF CommitMain
    <3>2. new.specs = set.specs /\ Saved(new) = Saved(set)
      BY <1>1, <2>1, <3>1, SetMainPins DEF Saved, SpecOf
    <3> HIDE DEF g
    <3>3. CASE g = NoGpu
      <4>1. Intent!Unpin
        BY <1>1, <2>1, <3>1, <3>2, <3>3, SetMainPins DEF Intent!Unpin, Saved
      <4> QED
        BY <4>1 DEF Intent!Next
    <3>4. CASE g # NoGpu
      <4>1. g \in Gpus /\ g \in SavedGpus(set.specs)
        BY <2>1, <3>4 DEF CanBeMain
      <4>2. Intent!Pin(g)
        BY <1>1, <2>1, <3>1, <3>2, <3>4, <4>1, SetMainPins DEF Intent!Pin, Saved
      <4> QED
        BY <4>1, <4>2 DEF Intent!Next
    <3> QED
      BY <3>3, <3>4
  <2> QED
    BY <2>2, <2>3
<1>6. ASSUME NEW c \in Clients, CommitClear(c) PROVE [Intent!Next]_(Intent!vars)
  <2> DEFINE g == job[c].req.gpu
             cleared == RemoveGpu(set, g)
  <2>1. file' = IF g = NoGpu \/ cleared.specs = <<>> THEN Absent
                ELSE IF g \in SavedGpus(set.specs) THEN cleared ELSE file
    BY <1>3, <1>6 DEF CommitClear, ClearedFile
  <2>2. g \in SavedGpus(set.specs) => g \in Gpus
    BY <1>1, EntriesAreSpecs DEF BootSets
  <2> HIDE DEF g
  <2>3. CASE g \in SavedGpus(set.specs)
    <3> HIDE DEF set, cleared
    <3>1. /\ cleared \in BootSets /\ Validate(cleared)
          /\ SavedGpus(cleared.specs) = SavedGpus(set.specs) \ {g}
          /\ Saved(cleared) = [h \in SavedGpus(set.specs) \ {g} |-> Saved(set)[h]]
          /\ cleared.main = IF set.main = g THEN NoGpu ELSE set.main
          /\ \/ set.active # g /\ cleared.active = set.active
             \/ set.active = g /\ cleared.active \in SavedGpus(cleared.specs)
             \/ SavedGpus(cleared.specs) = {} /\ cleared.active = NoGpu
      BY <1>1, <2>3, RemoveForgets DEF cleared
    <3>2. CASE g # NoGpu /\ cleared.specs # <<>>
      <4>1. new = cleared
        BY <2>1, <2>3, <3>1, <3>2, LoadedSetOf
      <4>2. Intent!Forget(g)
        BY <2>3, <3>1, <4>1 DEF Intent!Forget, Saved, set
      <4> QED
        BY <2>2, <2>3, <4>2 DEF Intent!Next
    <3>3. CASE g = NoGpu \/ cleared.specs = <<>>
      <4>1. new = EmptySet
        BY <2>1, <3>3, LoadedSetOf
      <4>2. Intent!ForgetAll
        BY <4>1, EmptySetValid DEF Intent!ForgetAll, EmptySet
      <4> QED
        BY <4>2 DEF Intent!Next
    <3> QED
      BY <3>2, <3>3
  <2>4. CASE g \notin SavedGpus(set.specs)
    <3>1. CASE file' = file
      BY <1>2, <3>1
    <3>2. CASE file' = Absent
      <4>1. new = EmptySet
        BY <3>2, LoadedSetOf
      <4>2. Intent!ForgetAll
        BY <4>1, EmptySetValid DEF Intent!ForgetAll, EmptySet
      <4> QED
        BY <4>2 DEF Intent!Next
    <3> QED
      BY <2>1, <2>4, <3>1, <3>2
  <2> QED
    BY <2>3, <2>4
<1>7. ASSUME file' = file PROVE [Intent!Next]_(Intent!vars)
  BY <1>2, <1>7
<1> QED
  BY <1>4, <1>5, <1>6, <1>7 DEF Next, LoadBootSet, RejectMain, PersistFails, Crash, vars

\* The boot methods implement BootIntent: no lost update, no partial one.
THEOREM BootRefinesIntent == Spec => ImplementsIntent
  BY InitIInv, NextIInv, InitRefines, StepRefines, PTL
     DEF Spec, ImplementsIntent, Intent!Spec
=============================================================================
