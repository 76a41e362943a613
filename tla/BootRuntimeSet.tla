--------------------------- MODULE BootRuntimeSet ---------------------------
(***************************************************************************)
(* The boot-runtime methods of burnerd: set_boot_runtime_spec,             *)
(* set_boot_main_gpu and clear_boot_runtime_spec, each running in the      *)
(* thread of the connection that asked for it.  A request takes            *)
(* BOOT_STATE_UPDATE_LOCK and reads the file in LoadBootSet, then replaces *)
(* or removes it in a Commit step and lets the lock go, is turned down, or  *)
(* finds the disk unwilling.  The daemon may die between any two steps.    *)
(***************************************************************************)
EXTENDS BootSet

CONSTANTS Clients,   \* connection threads
          Addressed, \* the GPUs whose specs carry a PCI address
          Absent,    \* no boot-runtime.json
          Idle       \* a client with no request in progress

ASSUME AbsentAssumption == Absent \notin BootSets \cup RuntimeSpec
ASSUME AddressedAssumption == Addressed \subseteq Gpus

VARIABLES file,   \* boot-runtime.json: Absent, a legacy spec or a boot set
          lock,   \* BOOT_STATE_UPDATE_LOCK is held
          job     \* per client: its request and the set it read, or Idle

vars == <<file, lock, job>>

Requests == [op : {"save"}, spec : RuntimeSpec]
              \cup [op : {"main", "clear"}, gpu : Gpus \cup {NoGpu}]

Jobs == [req : Requests, set : BootSets]

TypeOK ==
    /\ file \in {Absent} \cup RuntimeSpec \cup BootSets
    /\ lock \in BOOLEAN
    /\ job \in [Clients -> {Idle} \cup Jobs]

\* load_boot_runtime_set: a file without "specs" is a spec of an older version.
LoadedSet(f) ==
    IF f = Absent THEN EmptySet
    ELSE IF "specs" \in DOMAIN f THEN f ELSE FromLegacy(f)

Init ==
    /\ file \in {Absent} \cup RuntimeSpec
    /\ lock = FALSE
    /\ job = [c \in Clients |-> Idle]

-----------------------------------------------------------------------------
\* Mutant: the read is not under BOOT_STATE_UPDATE_LOCK.
BugLoadWithoutLock(c, req) ==
    /\ job[c] = Idle
    /\ lock' = TRUE
    /\ job' = [job EXCEPT ![c] = [req |-> req, set |-> LoadedSet(file)]]
    /\ UNCHANGED file

LoadBootSet(c, req) ==
    /\ job[c] = Idle
    /\ ~lock
    /\ lock' = TRUE
    /\ job' = [job EXCEPT ![c] = [req |-> req, set |-> LoadedSet(file)]]
    /\ UNCHANGED file

\* Common to every way a request ends.
Release(c) ==
    /\ lock' = FALSE
    /\ job' = [job EXCEPT ![c] = Idle]

CommitSave(c) ==
    /\ job[c] # Idle /\ job[c].req.op = "save"
    /\ file' = Upsert(job[c].set, job[c].req.spec)
    /\ Release(c)

CommitMain(c) ==
    /\ job[c] # Idle /\ job[c].req.op = "main"
    /\ CanBeMain(job[c].set, job[c].req.gpu)
    /\ file' = IF job[c].set.specs = <<>> THEN file
               ELSE SetMainGpu(job[c].set, job[c].req.gpu)
    /\ Release(c)

\* The file a clear of g leaves when it was f and held the set.
ClearedFile(f, set, g) ==
    LET cleared == RemoveGpu(set, g)
    IN  IF g = NoGpu \/ cleared.specs = <<>> THEN Absent
        ELSE IF g \in SavedGpus(set.specs) THEN cleared ELSE f

CommitClear(c) ==
    /\ job[c] # Idle /\ job[c].req.op = "clear"
    /\ file' = ClearedFile(file, job[c].set, job[c].req.gpu)
    /\ Release(c)

RejectMain(c) ==
    /\ job[c] # Idle /\ job[c].req.op = "main"
    /\ ~CanBeMain(job[c].set, job[c].req.gpu)
    /\ UNCHANGED file
    /\ Release(c)

\* The temporary file cannot be written or renamed: the old one stays.
PersistFails(c) ==
    /\ job[c] # Idle
    /\ UNCHANGED file
    /\ Release(c)

Crash ==
    /\ lock' = FALSE
    /\ job' = [c \in Clients |-> Idle]
    /\ UNCHANGED file

Next ==
    \/ \E c \in Clients :
          \/ \E req \in Requests : LoadBootSet(c, req)
          \/ CommitSave(c) \/ CommitMain(c) \/ CommitClear(c)
          \/ RejectMain(c) \/ PersistFails(c)
    \/ Crash

Spec == Init /\ [][Next]_vars

-----------------------------------------------------------------------------
\* Every file the daemon leaves behind, after any sequence of concurrent
\* requests and crashes, is one that load_boot_runtime_set accepts: a file it
\* refuses would disable autostart and every later boot request.
FileLoads == Validate(LoadedSet(file))

\* A saved set is never empty (the file is removed instead), so that
\* boot_runtime_spec_summary never reports a configured boot without a spec.
NoEmptyFile == file # Absent => LoadedSet(file).specs # <<>>

\* runtime_pci_hint, while no engine runs: whichever GPUs the machine has, the deep-sleep
\* watcher watches the GPU of the session's own runtime, and if that has none, or is gone,
\* one that a saved spec asks work of: the selected one if it does, else the newest.  A
\* selected stock spec, a spec of a GPU that was taken out or one without an address never
\* hides work saved for another.
HintsFindWork ==
    \A session \in Gpus \cup {NoGpu}, present \in SUBSET Gpus :
       LET set == LoadedSet(file)
           watched == Watched(PciHints(set, session, Addressed), present)
           wakeable == present \cap Addressed
           work == {i \in 1..Len(set.specs) :
                      set.specs[i].profile # Stock /\ set.specs[i].gpu \in wakeable}
           pinned == {i \in work : set.specs[i].gpu = set.active}
           eligible == IF pinned # {} THEN pinned ELSE work
       IN  IF session \in wakeable THEN watched = session
           ELSE eligible # {} =>
                  \E i \in eligible : /\ watched = set.specs[i].gpu
                                      /\ \A j \in eligible : j <= i

Intent == INSTANCE BootIntent WITH
    Specs  <- RuntimeSpec,
    saved  <- [g \in SavedGpus(LoadedSet(file).specs) |-> SpecOf(LoadedSet(file), g)],
    active <- LoadedSet(file).active,
    main   <- LoadedSet(file).main

\* Seen through the file, concurrent requests, write failures and crashes
\* are whole requests taking effect one at a time.
ImplementsIntent == Intent!Spec
=============================================================================
