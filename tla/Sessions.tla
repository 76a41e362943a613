------------------------------ MODULE Sessions ------------------------------
(***************************************************************************)
(* The launch sessions of burnerd/src/sessions.rs: wrappers register the   *)
(* game they are about to become, one thread per registration waits for    *)
(* its process to exit, looks in /proc for the processes that carry the    *)
(* launch on, registers them too and only then removes its own session.    *)
(* The last session of a launch to go closes the handle that the game      *)
(* watch of the supervisor polls.                                          *)
(*                                                                         *)
(* A pid names one process after another: run n of a pid is the n-th       *)
(* process to have it, and a pidfd is a pid with a run. Starting and       *)
(* running sessions are not told apart, for only "failed" decides          *)
(* anything; the profile, the sequence of snapshots and the list of ended  *)
(* sessions are what subscribers read, and no step here depends on them.   *)
(***************************************************************************)
EXTENDS Naturals, Sequences, FiniteSets

CONSTANTS
    Pids, Launches,
    Nobody,           \* the launch of a process that belongs to none
    NoSession, NoEntry, Waiting, Idle,
    MaxRuns,          \* processes a pid names one after another
    MaxSessions,      \* MAX_SESSIONS
    MaxCrashes,       \* restarts of the daemon
    ForksDuringScan   \* may processes of a launch fork while /proc is read for it

ASSUME NobodyAssumption == Nobody \notin Launches
ASSUME BoundsAssumption ==
    /\ IsFiniteSet(Pids)
    /\ MaxRuns \in Nat /\ MaxSessions \in Nat /\ MaxCrashes \in Nat

VARIABLES
    runs,       \* pid -> the launches of the processes it has named, in order
    alive,      \* pid -> whether the last of them is alive
    role,       \* pid -> "wrapper" before exec, "game" after it, "failing"
    serving,    \* the daemon has recovered and accepts requests
    sessions,   \* pid -> its session, or NoSession
    watchers,   \* the exit watcher threads
    recovery,   \* the scan of recover, or Idle
    lifetimes,  \* the launches whose handle is open
    ended,      \* the launches of which a handle has been closed
    crashes

processes == <<runs, alive, role>>
vars == <<runs, alive, role, serving, sessions, watchers, recovery, lifetimes,
          ended, crashes>>

-----------------------------------------------------------------------------
Session == [id : Launches \cup {Nobody}, run : Nat, failed : BOOLEAN]

\* An entry of /proc between the steps of a scan: its pidfd is open, its
\* environment has been read, the pidfd has been polled.
Entry == [pid : Pids, run : Nat, id : Launches \cup {Nobody},
          stage : {"opened", "read", "ready"}]
Scan == [left : SUBSET Pids, entry : Entry \cup {NoEntry}]
Watcher == [pid : Pids, run : Nat, id : Launches \cup {Nobody}, scan : Scan \cup {Waiting}]

ASSUME NullsAssumption ==
    NoSession \notin Session /\ NoEntry \notin Entry /\ Waiting \notin Scan /\ Idle \notin Scan

TypeOK ==
    /\ runs \in [Pids -> Seq(Launches \cup {Nobody})]
    /\ alive \in [Pids -> BOOLEAN]
    /\ role \in [Pids -> {"wrapper", "game", "failing"}]
    /\ serving \in BOOLEAN
    /\ sessions \in [Pids -> Session \cup {NoSession}]
    /\ watchers \in SUBSET Watcher
    /\ recovery \in Scan \cup {Idle}
    /\ lifetimes \in SUBSET Launches
    /\ ended \in SUBSET Launches
    /\ crashes \in 0..MaxCrashes
    /\ Cardinality({p \in Pids : sessions[p] # NoSession}) <= MaxSessions

Alive(p, n) == alive[p] /\ Len(runs[p]) = n
LaunchOf(p) == runs[p][Len(runs[p])]
Live(l) == \E p \in Pids : alive[p] /\ LaunchOf(p) = l
Launched(l) == \E p \in Pids : \E n \in 1..Len(runs[p]) : runs[p][n] = l

Registered == {p \in Pids : sessions[p] # NoSession}

\* A wrapper's session is known by its launch; an observed one by its process.
Same(s, id, n) == s.id = id /\ (id = Nobody => s.run = n)

\* The opening of /proc: the processes that the listing holds.
Listing == [left |-> {p \in Pids : alive[p]}, entry |-> NoEntry]
Scanned == [left |-> {}, entry |-> NoEntry]

Init ==
    /\ runs = [p \in Pids |-> <<>>]
    /\ alive = [p \in Pids |-> FALSE]
    /\ role = [p \in Pids |-> "wrapper"]
    /\ serving = FALSE
    /\ sessions = [p \in Pids |-> NoSession]
    /\ watchers = {}
    /\ recovery = Scanned
    /\ lifetimes = {} /\ ended = {}
    /\ crashes = 0

-----------------------------------------------------------------------------
\* A repeated registration is fine as it is; a wrapper's session stays.
Admissible(p, n, id) ==
    /\ Cardinality(Registered) < MaxSessions
    /\ sessions[p] # NoSession => ~Same(sessions[p], id, n) /\ sessions[p].id = Nobody

NewSession(n, id) == [id |-> id, run |-> n, failed |-> FALSE]
Watching(p, n, id) == [pid |-> p, run |-> n, id |-> id, scan |-> Waiting]

\* Mutant: an observed session is replaced without a watcher of its own.
BugAdmit(p, n, id, others) ==
    IF Admissible(p, n, id)
    THEN /\ sessions' = [sessions EXCEPT ![p] = NewSession(n, id)]
         /\ watchers' = IF sessions[p] = NoSession THEN others \cup {Watching(p, n, id)}
                        ELSE others
    ELSE sessions' = sessions /\ watchers' = others

\* register_with_fd under the lock: the pidfd is run n of p, and the threads
\* that were there before are others.
Admit(p, n, id, others) ==
    IF Admissible(p, n, id)
    THEN /\ sessions' = [sessions EXCEPT ![p] = NewSession(n, id)]
         /\ watchers' = others \cup {Watching(p, n, id)}
    ELSE sessions' = sessions /\ watchers' = others

\* register_launcher_session: the wrapper waits for the reply, and lives.
Register(p) ==
    /\ serving /\ alive[p] /\ role[p] = "wrapper" /\ LaunchOf(p) # Nobody
    /\ Admit(p, Len(runs[p]), LaunchOf(p), watchers)
    /\ UNCHANGED <<processes, serving, recovery, lifetimes, ended, crashes>>

\* observe_launcher_session, asked for a process that agrees with its game.
Observe(p) ==
    /\ serving /\ alive[p]
    /\ LET s == sessions[p]
       IN  s # NoSession => s.id = Nobody /\ runs[p][s.run] # LaunchOf(p)
    /\ Admit(p, Len(runs[p]), Nobody, watchers)
    /\ UNCHANGED <<processes, serving, recovery, lifetimes, ended, crashes>>

\* The wrapper cannot become the game: it reports "failed", if it is heard.
Fail(p) ==
    /\ alive[p] /\ role[p] = "wrapper" /\ LaunchOf(p) # Nobody
    /\ role' = [role EXCEPT ![p] = "failing"]
    /\ sessions' = IF serving /\ sessions[p] # NoSession /\ sessions[p].id = LaunchOf(p)
                   THEN [sessions EXCEPT ![p].failed = TRUE]
                   ELSE sessions
    /\ UNCHANGED <<runs, alive, serving, watchers, recovery, lifetimes, ended, crashes>>

\* A game watch takes a handle on the launch of a wrapper's session.
WatchLifetime(p) ==
    /\ serving /\ sessions[p] # NoSession /\ sessions[p].id # Nobody
    /\ lifetimes' = lifetimes \cup {sessions[p].id}
    /\ UNCHANGED <<processes, serving, sessions, watchers, recovery, ended, crashes>>

-----------------------------------------------------------------------------
(* The scan of /proc that recover and recover_handoff share. *)

OpenEntry(sc, p) ==
    [left  |-> sc.left \ {p},
     entry |-> IF alive[p]
               THEN [pid |-> p, run |-> Len(runs[p]), id |-> Nobody, stage |-> "opened"]
               ELSE NoEntry]

\* The environment of whatever process the pid names by now.
ReadEnviron(sc, wanted) ==
    LET p == sc.entry.pid
    IN  IF alive[p] /\ role[p] = "game" /\ LaunchOf(p) \in wanted
        THEN [sc EXCEPT !.entry.id = LaunchOf(p), !.entry.stage = "read"]
        ELSE [sc EXCEPT !.entry = NoEntry]

\* Mutant: the pidfd is taken for alive.
BugReadiness(sc) == [sc EXCEPT !.entry.stage = "ready"]

\* The readiness check of register_with_fd, before it takes the lock.
Readiness(sc) ==
    IF Alive(sc.entry.pid, sc.entry.run)
    THEN [sc EXCEPT !.entry.stage = "ready"]
    ELSE [sc EXCEPT !.entry = NoEntry]

\* How a scan goes on without touching the registry.
ScanSteps(sc, wanted) ==
    IF sc.entry = NoEntry THEN {OpenEntry(sc, p) : p \in sc.left}
    ELSE CASE sc.entry.stage = "opened" -> {ReadEnviron(sc, wanted)}
           [] sc.entry.stage = "read"   -> {Readiness(sc)}
           [] sc.entry.stage = "ready"  -> {}

Ready(sc) == sc.entry # NoEntry /\ sc.entry.stage = "ready"

-----------------------------------------------------------------------------
(* The exit watchers. *)

\* What the watcher has to read when its process is gone.
Handoff(w) ==
    LET s == sessions[w.pid]
    IN  IF s # NoSession /\ Same(s, w.id, w.run) /\ s.id # Nobody /\ ~s.failed
        THEN [Listing EXCEPT !.left = @ \ {w.pid}]
        ELSE Scanned

ExitSeen(w) ==
    /\ w.scan = Waiting /\ ~Alive(w.pid, w.run)
    /\ watchers' = (watchers \ {w}) \cup {[w EXCEPT !.scan = Handoff(w)]}
    /\ UNCHANGED <<processes, serving, sessions, recovery, lifetimes, ended, crashes>>

HandoffScans(w) ==
    /\ w.scan # Waiting
    /\ \E new \in ScanSteps(w.scan, {w.id}) :
          watchers' = (watchers \ {w}) \cup {[w EXCEPT !.scan = new]}
    /\ UNCHANGED <<processes, serving, sessions, recovery, lifetimes, ended, crashes>>

\* The successor takes the session over, with the session's own state.
HandoffRegisters(w) ==
    /\ w.scan # Waiting /\ Ready(w.scan)
    /\ LET e == w.scan.entry
       IN  Admit(e.pid, e.run, w.id,
                 (watchers \ {w}) \cup {[w EXCEPT !.scan.entry = NoEntry]})
    /\ UNCHANGED <<processes, serving, recovery, lifetimes, ended, crashes>>

\* Mutant: an old exit removes whatever session the pid has by now.
BugRemove(w) ==
    /\ w.scan = Scanned
    /\ watchers' = watchers \ {w}
    /\ sessions' = [sessions EXCEPT ![w.pid] = NoSession]
    /\ LET s == sessions[w.pid]
           last == s # NoSession /\ \A q \in Registered \ {w.pid} : sessions[q].id # s.id
       IN  /\ lifetimes' = IF last THEN lifetimes \ {s.id} ELSE lifetimes
           /\ ended' = IF last THEN ended \cup ({s.id} \cap lifetimes) ELSE ended
    /\ UNCHANGED <<processes, serving, recovery, crashes>>

\* remove, the last thing a watcher does.
Remove(w) ==
    /\ w.scan = Scanned
    /\ watchers' = watchers \ {w}
    /\ LET s == sessions[w.pid]
           mine == s # NoSession /\ Same(s, w.id, w.run)
           last == mine /\ \A q \in Registered \ {w.pid} : sessions[q].id # w.id
       IN  /\ sessions' = IF mine THEN [sessions EXCEPT ![w.pid] = NoSession] ELSE sessions
           /\ lifetimes' = IF last THEN lifetimes \ {w.id} ELSE lifetimes
           /\ ended' = IF last THEN ended \cup ({w.id} \cap lifetimes) ELSE ended
    /\ UNCHANGED <<processes, serving, recovery, crashes>>

WatcherStep(w) == ExitSeen(w) \/ HandoffScans(w) \/ HandoffRegisters(w) \/ Remove(w)

-----------------------------------------------------------------------------
(* Recovery, once before the daemon serves and then whenever it is asked. *)

Reconcile ==
    /\ serving /\ recovery = Idle
    /\ recovery' = Listing
    /\ UNCHANGED <<processes, serving, sessions, watchers, lifetimes, ended, crashes>>

RecoveryScans ==
    /\ recovery # Idle
    /\ \E new \in ScanSteps(recovery, Launches) : recovery' = new
    /\ UNCHANGED <<processes, serving, sessions, watchers, lifetimes, ended, crashes>>

RecoveryRegisters ==
    /\ recovery # Idle /\ Ready(recovery)
    /\ LET e == recovery.entry IN Admit(e.pid, e.run, e.id, watchers)
    /\ recovery' = [recovery EXCEPT !.entry = NoEntry]
    /\ UNCHANGED <<processes, serving, lifetimes, ended, crashes>>

RecoveryEnds ==
    /\ recovery = Scanned
    /\ recovery' = Idle
    /\ serving' = TRUE
    /\ UNCHANGED <<processes, sessions, watchers, lifetimes, ended, crashes>>

RecoveryStep == RecoveryScans \/ RecoveryRegisters \/ RecoveryEnds

\* The daemon dies and is started again: the registry is gone.
Crash ==
    /\ crashes < MaxCrashes
    /\ crashes' = crashes + 1
    /\ serving' = FALSE
    /\ sessions' = [p \in Pids |-> NoSession]
    /\ watchers' = {}
    /\ recovery' = Listing
    /\ lifetimes' = {} /\ ended' = {}
    /\ UNCHANGED processes

-----------------------------------------------------------------------------
(* The processes of the system, as the daemon is to find them. *)

Names(p, l, r) ==
    /\ ~alive[p] /\ Len(runs[p]) < MaxRuns
    /\ runs' = [runs EXCEPT ![p] = Append(@, l)]
    /\ alive' = [alive EXCEPT ![p] = TRUE]
    /\ role' = [role EXCEPT ![p] = r]
    /\ UNCHANGED <<serving, sessions, watchers, recovery, lifetimes, ended, crashes>>

\* A wrapper begins a launch: begin_session gives it a fresh identity.
Launch(p, l) == ~Launched(l) /\ Names(p, l, "wrapper")

\* Any other program, a game without a wrapper among them.
Unrelated(p) == Names(p, Nobody, "game")

\* The wrapper becomes the game, which carries the identity in its environment.
Exec(p) ==
    /\ alive[p] /\ role[p] = "wrapper"
    /\ role' = [role EXCEPT ![p] = "game"]
    /\ UNCHANGED <<runs, alive, serving, sessions, watchers, recovery, lifetimes, ended, crashes>>

ScannedFor(l) ==
    \/ recovery # Idle
    \/ \E w \in watchers : w.id = l /\ w.scan # Waiting

Fork(p, q) ==
    /\ alive[p] /\ role[p] = "game" /\ LaunchOf(p) # Nobody
    /\ ForksDuringScan \/ ~ScannedFor(LaunchOf(p))
    /\ Names(q, LaunchOf(p), "game")

Exit(p) ==
    /\ alive[p]
    /\ alive' = [alive EXCEPT ![p] = FALSE]
    /\ UNCHANGED <<runs, role, serving, sessions, watchers, recovery, lifetimes, ended, crashes>>

Processes ==
    \/ \E p \in Pids : Unrelated(p) \/ Exec(p) \/ Fail(p) \/ Exit(p)
    \/ \E p \in Pids, l \in Launches : Launch(p, l)
    \/ \E p, q \in Pids : Fork(p, q)

Requests ==
    \/ \E p \in Pids : Register(p) \/ Observe(p) \/ WatchLifetime(p)
    \/ Reconcile

Next ==
    \/ Processes
    \/ Requests
    \/ \E w \in watchers : WatcherStep(w)
    \/ RecoveryStep
    \/ Crash

Spec == Init /\ [][Next]_vars

\* The daemon's threads are scheduled; nothing else has to happen.
Scheduled ==
    /\ \A p \in Pids : WF_vars(\E w \in watchers : w.pid = p /\ WatcherStep(w))
    /\ WF_vars(RecoveryStep)

LiveSpec == Spec /\ Scheduled

-----------------------------------------------------------------------------
\* Every session has a thread that waits for the process its pidfd names and
\* will remove it: no session stays in the registry for good (register_with_fd
\* inserts and spawns under one lock; replaced and repeated registrations too).
RecordsAreWatched ==
    \A p \in Registered : \E w \in watchers :
        w.pid = p /\ Same(sessions[p], w.id, w.run) /\ w.run = sessions[p].run

\* A launch's session watches a process of that launch, however pids are reused
\* while /proc is read: the pidfd is opened before the environment is read and
\* polled after it.
SessionIsItsProcess ==
    \A p \in Registered :
        LET s == sessions[p] IN s.id # Nobody => runs[p][s.run] = s.id

Lifetime == INSTANCE LaunchLifetime WITH
    begun  <- {l \in Launches : Launched(l)},
    live   <- {l \in Launches : Live(l)},
    open   <- lifetimes,
    closed <- ended

\* Handoffs, recoveries and replaced sessions together give each watched launch
\* a handle that closes when, and only when, its last process is gone.
ImplementsLifetime == Lifetime!Spec
=============================================================================
