-------------------------- MODULE Sessions_proofs --------------------------
(***************************************************************************)
(* For any pids, launches, limits and restarts: the registry is well       *)
(* formed and within its limit, every session has a thread that will       *)
(* remove it, and a launch's session watches a process of the launch.      *)
(* Where no pid is reused and no process forks as it is looked for, a      *)
(* lifetime handle is closed only when its launch has ended.               *)
(***************************************************************************)
EXTENDS Sessions, TLAPS, FiniteSetTheorems

USE NobodyAssumption, BoundsAssumption, NullsAssumption

(***************************************************************************)
(* The inductive invariant. What a session says of its process is only as  *)
(* good as what the scan that registers it knows: once the environment is  *)
(* read the launch is that of some later run of the pid, and that it is    *)
(* the run of the pidfd follows when the pidfd is still alive after that.  *)
(***************************************************************************)
Good(p, n, id) == n \in 1..Len(runs[p]) /\ (id # Nobody => runs[p][n] = id)

EntryGood(e) ==
    /\ e.run \in 1..Len(runs[e.pid])
    /\ e.stage = "read" /\ Len(runs[e.pid]) = e.run => runs[e.pid][e.run] = e.id
    /\ e.stage = "ready" => runs[e.pid][e.run] = e.id

\* The entry of a scan for the launches in wanted.
ScanGood(sc, wanted) ==
    sc.entry # NoEntry =>
        /\ EntryGood(sc.entry)
        /\ sc.entry.stage # "opened" => sc.entry.id \in wanted

WatcherGood(w) ==
    /\ Good(w.pid, w.run, w.id)
    /\ w.scan # Waiting => ScanGood(w.scan, {w.id})

Covers(ws, ss) ==
    \A p \in Pids : ss[p] # NoSession =>
        \E w \in ws : w.pid = p /\ Same(ss[p], w.id, w.run) /\ w.run = ss[p].run

ProcessesInv == \A p \in Pids : alive[p] => Len(runs[p]) > 0
SessionsInv == \A p \in Pids : sessions[p] # NoSession =>
                   Good(p, sessions[p].run, sessions[p].id)
WatchersInv == \A w \in watchers : WatcherGood(w)
RecoveryInv == recovery # Idle => ScanGood(recovery, Launches)

IInv ==
    /\ TypeOK
    /\ ProcessesInv
    /\ SessionsInv
    /\ WatchersInv
    /\ RecoveryInv
    /\ Covers(watchers, sessions)

-----------------------------------------------------------------------------
\* Every process that a session could name stays what it was.
LEMMA GoodGrows ==
    ASSUME TypeOK, runs' \in [Pids -> Seq(Launches \cup {Nobody})],
           \A p \in Pids : /\ Len(runs[p]) <= Len(runs'[p])
                           /\ \A n \in 1..Len(runs[p]) : runs'[p][n] = runs[p][n]
    PROVE  /\ \A p \in Pids, n \in Nat, id \in Launches \cup {Nobody} :
                 Good(p, n, id) => Good(p, n, id)'
           /\ \A e \in Entry : EntryGood(e) => EntryGood(e)'
  <1>1. \A p \in Pids : Len(runs[p]) \in Nat /\ Len(runs'[p]) \in Nat
    BY DEF TypeOK
  <1>2. ASSUME NEW p \in Pids, NEW n \in Nat, NEW id \in Launches \cup {Nobody}, Good(p, n, id)
        PROVE  Good(p, n, id)'
    BY <1>1, <1>2 DEF Good
  <1>3. ASSUME NEW e \in Entry, EntryGood(e)
        PROVE  EntryGood(e)'
    <2>1. e.pid \in Pids /\ e.run \in Nat
      BY DEF Entry
    <2>2. e.run \in 1..Len(runs'[e.pid]) /\ runs'[e.pid][e.run] = runs[e.pid][e.run]
      BY <1>1, <1>3, <2>1 DEF EntryGood
    <2>3. Len(runs'[e.pid]) = e.run => Len(runs[e.pid]) = e.run
      BY <1>1, <1>3, <2>1 DEF EntryGood
    <2> QED BY <1>3, <2>2, <2>3 DEF EntryGood
  <1> QED BY <1>2, <1>3

\* Processes may come and go: what the daemon knows of them stays right.
LEMMA ProcessesKeep ==
    ASSUME IInv, UNCHANGED <<serving, sessions, watchers, recovery, lifetimes, ended, crashes>>,
           runs' \in [Pids -> Seq(Launches \cup {Nobody})],
           alive' \in [Pids -> BOOLEAN],
           role' \in [Pids -> {"wrapper", "game", "failing"}],
           \A p \in Pids : alive'[p] => Len(runs'[p]) > 0,
           \A p \in Pids : /\ Len(runs[p]) <= Len(runs'[p])
                           /\ \A n \in 1..Len(runs[p]) : runs'[p][n] = runs[p][n]
    PROVE  IInv'
  <1>1. TypeOK' /\ ProcessesInv' /\ Covers(watchers, sessions)'
    BY DEF IInv, TypeOK, ProcessesInv, Covers, Same
  <1>2. /\ \A p \in Pids, n \in Nat, id \in Launches \cup {Nobody} :
              Good(p, n, id) => Good(p, n, id)'
        /\ \A e \in Entry : EntryGood(e) => EntryGood(e)'
    BY GoodGrows DEF IInv
  <1>3. ASSUME NEW sc \in Scan, NEW wanted, ScanGood(sc, wanted)
        PROVE  ScanGood(sc, wanted)'
    BY <1>2, <1>3 DEF Scan, ScanGood
  <1>4. SessionsInv'
    BY <1>2 DEF IInv, TypeOK, SessionsInv, Session
  <1>5. WatchersInv'
    BY <1>2, <1>3 DEF IInv, TypeOK, WatchersInv, WatcherGood, Watcher
  <1>6. RecoveryInv'
    BY <1>3 DEF IInv, TypeOK, RecoveryInv
  <1> QED BY <1>1, <1>4, <1>5, <1>6 DEF IInv

-----------------------------------------------------------------------------
\* A scan learns nothing false, step by step.
LEMMA ScanStepsGood ==
    ASSUME TypeOK, ProcessesInv, NEW sc \in Scan, NEW wanted, wanted \subseteq Launches \cup {Nobody},
           ScanGood(sc, wanted), NEW new \in ScanSteps(sc, wanted)
    PROVE  new \in Scan /\ ScanGood(new, wanted)
  <1>1. CASE sc.entry = NoEntry
    <2>1. PICK p \in sc.left : new = OpenEntry(sc, p)
      BY <1>1 DEF ScanSteps
    <2>2. p \in Pids /\ sc.left \ {p} \in SUBSET Pids
      BY DEF Scan
    <2> DEFINE e == [pid |-> p, run |-> Len(runs[p]), id |-> Nobody, stage |-> "opened"]
    <2>3. CASE ~alive[p]
      <3>1. new = [left |-> sc.left \ {p}, entry |-> NoEntry]
        BY <2>1, <2>3 DEF OpenEntry
      <3> QED BY <2>2, <3>1 DEF Scan, ScanGood
    <2>4. CASE alive[p]
      <3>1. new = [left |-> sc.left \ {p}, entry |-> e]
        BY <2>1, <2>4 DEF OpenEntry
      <3>2. Len(runs[p]) \in Nat /\ Len(runs[p]) > 0
        BY <2>2, <2>4 DEF TypeOK, ProcessesInv
      <3>3. e \in Entry /\ EntryGood(e)
        BY <2>2, <3>2 DEF Entry, EntryGood
      <3> QED BY <2>2, <3>1, <3>3 DEF Scan, ScanGood
    <2> QED BY <2>3, <2>4
  <1>2. CASE sc.entry # NoEntry
    <2> DEFINE e == sc.entry
    <2>1. e \in Entry /\ sc = [left |-> sc.left, entry |-> e] /\ sc.left \in SUBSET Pids
      BY <1>2 DEF Scan
    <2>2. /\ e.pid \in Pids /\ e.run \in Nat /\ e.id \in Launches \cup {Nobody}
          /\ e.stage \in {"opened", "read", "ready"}
          /\ e = [pid |-> e.pid, run |-> e.run, id |-> e.id, stage |-> e.stage]
      BY <2>1 DEF Entry
    <2>3. EntryGood(e) /\ (e.stage # "opened" => e.id \in wanted)
      BY <1>2 DEF ScanGood
    <2>4. [sc EXCEPT !.entry = NoEntry] \in Scan
          /\ ScanGood([sc EXCEPT !.entry = NoEntry], wanted)
      BY <2>1 DEF Scan, ScanGood
    <2>5. ASSUME e.stage = "opened", new # [sc EXCEPT !.entry = NoEntry]
          PROVE  new \in Scan /\ ScanGood(new, wanted)
      <3>1. new = ReadEnviron(sc, wanted)
        BY <1>2, <2>5 DEF ScanSteps
      <3> DEFINE l == LaunchOf(e.pid)
                 f == [pid |-> e.pid, run |-> e.run, id |-> l, stage |-> "read"]
      <3>2. l \in wanted /\ new = [sc EXCEPT !.entry.id = l, !.entry.stage = "read"]
        BY <2>5, <3>1 DEF ReadEnviron
      <3>3. new = [left |-> sc.left, entry |-> f]
        BY <2>1, <2>2, <3>2
      <3>4. f \in Entry
        BY <2>2, <3>2 DEF Entry
      <3>5. EntryGood(f)
        BY <2>3, <2>5 DEF EntryGood, LaunchOf
      <3>6. new \in Scan
        BY <2>1, <3>3, <3>4 DEF Scan
      <3>7. new.entry = f /\ f.id = l
        BY <3>3
      <3> HIDE DEF f, l
      <3>8. ScanGood(new, wanted)
        BY <3>2, <3>5, <3>7 DEF ScanGood
      <3> QED BY <3>6, <3>8
    <2>6. ASSUME e.stage = "read", new # [sc EXCEPT !.entry = NoEntry]
          PROVE  new \in Scan /\ ScanGood(new, wanted)
      <3>1. new = Readiness(sc)
        BY <1>2, <2>6 DEF ScanSteps
      <3> DEFINE f == [pid |-> e.pid, run |-> e.run, id |-> e.id, stage |-> "ready"]
      <3>2. Alive(e.pid, e.run) /\ new = [sc EXCEPT !.entry.stage = "ready"]
        BY <2>6, <3>1 DEF Readiness
      <3>3. new = [left |-> sc.left, entry |-> f]
        BY <2>1, <2>2, <3>2
      <3>4. f \in Entry
        BY <2>2 DEF Entry
      <3>5. EntryGood(f)
        BY <2>3, <2>6, <3>2 DEF EntryGood, Alive
      <3>6. e.id \in wanted
        BY <2>3, <2>6
      <3>7. new \in Scan
        BY <2>1, <3>3, <3>4 DEF Scan
      <3>8. new.entry = f /\ f.id = e.id
        BY <3>3
      <3> HIDE DEF f, e
      <3>9. ScanGood(new, wanted)
        BY <3>5, <3>6, <3>8 DEF ScanGood
      <3> QED BY <3>7, <3>9
    <2>7. CASE e.stage = "ready"
      BY <1>2, <2>7 DEF ScanSteps
    <2> QED BY <2>2, <2>4, <2>5, <2>6, <2>7
  <1> QED BY <1>1, <1>2

\* register_with_fd, given the pidfd of a process of the launch.
LEMMA AdmitGood ==
    ASSUME TypeOK, SessionsInv, UNCHANGED processes,
           NEW p \in Pids, NEW n \in Nat, NEW id \in Launches \cup {Nobody}, Good(p, n, id),
           NEW others \in SUBSET Watcher, \A w \in others : WatcherGood(w),
           Covers(others, sessions),
           Admit(p, n, id, others)
    PROVE  /\ sessions' \in [Pids -> Session \cup {NoSession}]
           /\ Cardinality({q \in Pids : sessions'[q] # NoSession}) <= MaxSessions
           /\ watchers' \in SUBSET Watcher
           /\ SessionsInv' /\ WatchersInv'
           /\ Covers(watchers, sessions)'
  <1>1. /\ \A q \in Pids, m \in Nat, l \in Launches \cup {Nobody} : Good(q, m, l) => Good(q, m, l)'
        /\ \A w \in Watcher : WatcherGood(w) => WatcherGood(w)'
    BY DEF processes, Good, WatcherGood, ScanGood, EntryGood
  <1>2. CASE ~Admissible(p, n, id)
    <2>1. sessions' = sessions /\ watchers' = others
      BY <1>2 DEF Admit
    <2>2. SessionsInv' /\ WatchersInv'
      BY <1>1, <2>1 DEF TypeOK, Session, SessionsInv, WatchersInv
    <2> QED BY <2>1, <2>2 DEF TypeOK, Covers, Same
  <1>3. CASE Admissible(p, n, id)
    <2> DEFINE s == NewSession(n, id)
               w == Watching(p, n, id)
    <2>1. sessions' = [sessions EXCEPT ![p] = s] /\ watchers' = others \cup {w}
      BY <1>3 DEF Admit
    <2>2. s \in Session /\ s # NoSession /\ s.id = id /\ s.run = n
      <3>1. s = [id |-> id, run |-> n, failed |-> FALSE]
        BY DEF NewSession
      <3>2. s \in Session
        BY <3>1 DEF Session
      <3>3. s.id = id /\ s.run = n
        BY <3>1
      <3> HIDE DEF s
      <3> QED BY <3>2, <3>3
    <2>3. w \in Watcher /\ WatcherGood(w) /\ w.pid = p /\ w.id = id /\ w.run = n
      BY DEF Watching, Watcher, WatcherGood
    <2>4. sessions' \in [Pids -> Session \cup {NoSession}] /\ watchers' \in SUBSET Watcher
      BY <2>1, <2>2, <2>3 DEF TypeOK
    <2>5. SessionsInv' /\ WatchersInv'
      BY <1>1, <2>1, <2>2, <2>3 DEF TypeOK, Session, SessionsInv, WatchersInv
    <2>6. Covers(watchers, sessions)'
      <3> SUFFICES ASSUME NEW q \in Pids, sessions'[q] # NoSession
                   PROVE  \E v \in watchers' :
                             v.pid = q /\ Same(sessions'[q], v.id, v.run) /\ v.run = sessions'[q].run
        BY DEF Covers, Same
      <3>1. CASE q = p
        BY <2>1, <2>2, <2>3, <3>1 DEF TypeOK, Same
      <3>2. CASE q # p
        BY <2>1, <3>2 DEF TypeOK, Covers
      <3> QED BY <3>1, <3>2
    <2>7. Cardinality({q \in Pids : sessions'[q] # NoSession}) <= MaxSessions
      <3>1. {q \in Pids : sessions'[q] # NoSession} = Registered \cup {p}
        BY <2>1, <2>2 DEF TypeOK, Registered
      <3>2. IsFiniteSet(Registered)
        BY FS_Subset DEF Registered
      <3>3. Cardinality(Registered) \in Nat /\ Cardinality(Registered) < MaxSessions
        BY <1>3, <3>2, FS_CardinalityType DEF Admissible
      <3>4. Cardinality(Registered \cup {p}) =
               IF p \in Registered THEN Cardinality(Registered) ELSE Cardinality(Registered) + 1
        BY <3>2, FS_AddElement, Zenon
      <3> DEFINE c == Cardinality(Registered)
                 d == Cardinality(Registered \cup {p})
      <3>5. c \in Nat /\ c < MaxSessions /\ d = IF p \in Registered THEN c ELSE c + 1
        BY <3>3, <3>4
      <3> HIDE DEF c, d
      <3>6. d <= MaxSessions
        BY <3>5
      <3> USE DEF d
      <3> QED BY <3>1, <3>6, Zenon
    <2> QED BY <2>4, <2>5, <2>6, <2>7
  <1> QED BY <1>2, <1>3

-----------------------------------------------------------------------------
LEMMA Initially == Init => IInv
  <1> SUFFICES ASSUME Init PROVE IInv
    OBVIOUS
  <1>1. {p \in Pids : sessions[p] # NoSession} = {}
    BY DEF Init
  <1>2. TypeOK
    <2>1. Cardinality({p \in Pids : sessions[p] # NoSession}) = 0
      BY <1>1, FS_EmptySet, Zenon
    <2>2. recovery \in Scan
      BY DEF Init, Scanned, Scan
    <2>3. <<>> \in Seq(Launches \cup {Nobody})
      OBVIOUS
    <2>4. runs \in [Pids -> Seq(Launches \cup {Nobody})]
      BY <2>3 DEF Init
    <2>5. crashes \in 0..MaxCrashes
      BY DEF Init
    <2>6. Cardinality({p \in Pids : sessions[p] # NoSession}) <= MaxSessions
      BY <2>1
    <2>7. /\ alive \in [Pids -> BOOLEAN]
          /\ role \in [Pids -> {"wrapper", "game", "failing"}]
          /\ serving \in BOOLEAN
          /\ sessions \in [Pids -> Session \cup {NoSession}]
          /\ watchers \in SUBSET Watcher
          /\ lifetimes \in SUBSET Launches /\ ended \in SUBSET Launches
      BY DEF Init
    <2> QED BY <2>2, <2>4, <2>5, <2>6, <2>7 DEF TypeOK
  <1>3. ProcessesInv /\ SessionsInv /\ WatchersInv
    BY DEF Init, ProcessesInv, SessionsInv, WatchersInv
  <1>4. RecoveryInv /\ Covers(watchers, sessions)
    BY DEF Init, Scanned, RecoveryInv, ScanGood, Covers
  <1> QED BY <1>2, <1>3, <1>4 DEF IInv

\* The steps of the system: a process starts, execs, forks, fails or exits.
LEMMA NamesKeeps ==
    ASSUME IInv, NEW p \in Pids, NEW l \in Launches \cup {Nobody},
           NEW r \in {"wrapper", "game"}, Names(p, l, r)
    PROVE  IInv'
  <1>1. runs[p] \in Seq(Launches \cup {Nobody}) /\ runs' = [runs EXCEPT ![p] = Append(runs[p], l)]
    BY DEF IInv, TypeOK, Names
  <1>2. /\ Append(runs[p], l) \in Seq(Launches \cup {Nobody})
        /\ Len(Append(runs[p], l)) = Len(runs[p]) + 1
        /\ \A n \in 1..Len(runs[p]) : Append(runs[p], l)[n] = runs[p][n]
    BY <1>1
  <1>3. runs' \in [Pids -> Seq(Launches \cup {Nobody})]
    BY <1>1, <1>2 DEF IInv, TypeOK
  <1>4. \A q \in Pids : /\ Len(runs[q]) <= Len(runs'[q])
                        /\ \A n \in 1..Len(runs[q]) : runs'[q][n] = runs[q][n]
    <2>1. \A q \in Pids : runs'[q] = IF q = p THEN Append(runs[p], l) ELSE runs[q]
      BY <1>1 DEF IInv, TypeOK
    <2>2. \A q \in Pids : Len(runs[q]) \in Nat
      BY DEF IInv, TypeOK
    <2> SUFFICES ASSUME NEW q \in Pids
                 PROVE  /\ Len(runs[q]) <= Len(runs'[q])
                        /\ \A n \in 1..Len(runs[q]) : runs'[q][n] = runs[q][n]
      OBVIOUS
    <2>3. CASE q = p
      <3>1. runs'[q] = Append(runs[q], l)
        BY <2>1, <2>3
      <3> QED BY <1>2, <2>2, <2>3, <3>1
    <2>4. CASE q # p
      BY <2>1, <2>2, <2>4
    <2> QED BY <2>3, <2>4
  <1>5. /\ alive' \in [Pids -> BOOLEAN]
        /\ role' \in [Pids -> {"wrapper", "game", "failing"}]
        /\ UNCHANGED <<serving, sessions, watchers, recovery, lifetimes, ended, crashes>>
    BY DEF IInv, TypeOK, Names
  <1>6. \A q \in Pids : alive'[q] => Len(runs'[q]) > 0
    <2> SUFFICES ASSUME NEW q \in Pids, alive'[q] PROVE Len(runs'[q]) > 0
      OBVIOUS
    <2>1. CASE q = p
      BY <1>1, <1>2, <2>1 DEF IInv, TypeOK
    <2>2. CASE q # p
      BY <1>1, <2>2 DEF IInv, TypeOK, ProcessesInv, Names
    <2> QED BY <2>1, <2>2
  <1> QED BY <1>3, <1>4, <1>5, <1>6, ProcessesKeep

LEMMA RoleKeeps ==
    ASSUME IInv, NEW p \in Pids, Exec(p) \/ Exit(p)
    PROVE  IInv'
  <1>1. /\ runs' = runs
        /\ alive' \in [Pids -> BOOLEAN]
        /\ role' \in [Pids -> {"wrapper", "game", "failing"}]
        /\ UNCHANGED <<serving, sessions, watchers, recovery, lifetimes, ended, crashes>>
    BY DEF IInv, TypeOK, Exec, Exit
  <1>2. \A q \in Pids : alive'[q] => Len(runs'[q]) > 0
    BY DEF IInv, TypeOK, ProcessesInv, Exec, Exit
  <1>3. \A q \in Pids : Len(runs[q]) <= Len(runs[q])
    BY DEF IInv, TypeOK
  <1> QED BY <1>1, <1>2, <1>3, ProcessesKeep DEF IInv, TypeOK

\* A wrapper that fails changes what its session says, not whose it is.
LEMMA FailKeeps ==
    ASSUME IInv, NEW p \in Pids, Fail(p)
    PROVE  IInv'
  <1>1. role' \in [Pids -> {"wrapper", "game", "failing"}]
    BY DEF IInv, TypeOK, Fail
  <1>2. \A q \in Pids :
           IF sessions[q] = NoSession THEN sessions'[q] = NoSession
           ELSE /\ sessions'[q] \in Session
                /\ sessions'[q].id = sessions[q].id /\ sessions'[q].run = sessions[q].run
    <2> SUFFICES ASSUME NEW q \in Pids
                 PROVE  IF sessions[q] = NoSession THEN sessions'[q] = NoSession
                        ELSE /\ sessions'[q] \in Session
                             /\ sessions'[q].id = sessions[q].id
                             /\ sessions'[q].run = sessions[q].run
      OBVIOUS
    <2>1. CASE sessions' = sessions
      BY <2>1 DEF IInv, TypeOK
    <2>2. CASE sessions' # sessions
      <3>1. sessions[p] # NoSession /\ sessions' = [sessions EXCEPT ![p].failed = TRUE]
        BY <2>2 DEF Fail
      <3>2. CASE q = p
        <4>1. sessions[p] \in Session /\ sessions'[p] = [sessions[p] EXCEPT !.failed = TRUE]
          BY <3>1 DEF IInv, TypeOK
        <4> QED BY <3>1, <3>2, <4>1 DEF Session
      <3>3. CASE q # p
        BY <3>1, <3>3 DEF IInv, TypeOK
      <3> QED BY <3>2, <3>3
    <2> QED BY <2>1, <2>2
  <1>3. sessions' \in [Pids -> Session \cup {NoSession}]
    <2>1. DOMAIN sessions' = Pids /\ sessions' = [q \in Pids |-> sessions'[q]]
      BY DEF IInv, TypeOK, Fail
    <2> QED BY <1>2, <2>1
  <1>4. {q \in Pids : sessions'[q] # NoSession} = {q \in Pids : sessions[q] # NoSession}
    BY <1>2
  <1>5. UNCHANGED <<runs, alive, serving, watchers, recovery, lifetimes, ended, crashes>>
    BY DEF Fail
  <1>6. TypeOK'
    BY <1>1, <1>3, <1>4, <1>5 DEF IInv, TypeOK
  <1>7. ProcessesInv' /\ SessionsInv'
    BY <1>2, <1>5 DEF IInv, ProcessesInv, SessionsInv, Good
  <1>8. WatchersInv' /\ RecoveryInv'
    BY <1>5 DEF IInv, WatchersInv, WatcherGood, RecoveryInv, ScanGood, EntryGood, Good
  <1>9. Covers(watchers, sessions)'
    BY <1>2, <1>5 DEF IInv, Covers, Same
  <1> QED BY <1>6, <1>7, <1>8, <1>9 DEF IInv

-----------------------------------------------------------------------------
\* The requests. Whoever asks is alive, and its launch is its own.
LEMMA RequestsKeep ==
    ASSUME IInv, NEW p \in Pids, Register(p) \/ Observe(p)
    PROVE  IInv'
  <1> DEFINE n == Len(runs[p])
             id == IF Register(p) THEN LaunchOf(p) ELSE Nobody
  <1>1. /\ alive[p] /\ Admit(p, n, id, watchers)
        /\ UNCHANGED <<processes, serving, recovery, lifetimes, ended, crashes>>
    BY DEF Register, Observe
  <1>2. n \in Nat /\ n > 0 /\ runs[p] \in Seq(Launches \cup {Nobody})
    BY <1>1 DEF IInv, TypeOK, ProcessesInv
  <1>3. LaunchOf(p) \in Launches \cup {Nobody} /\ LaunchOf(p) = runs[p][n]
    BY <1>2 DEF LaunchOf
  <1>4. id \in Launches \cup {Nobody} /\ Good(p, n, id)
    BY <1>2, <1>3 DEF Good
  <1> HIDE DEF n, id
  <1>5. /\ sessions' \in [Pids -> Session \cup {NoSession}]
        /\ Cardinality({q \in Pids : sessions'[q] # NoSession}) <= MaxSessions
        /\ watchers' \in SUBSET Watcher
        /\ SessionsInv' /\ WatchersInv'
        /\ Covers(watchers, sessions)'
    BY <1>1, <1>2, <1>4, AdmitGood DEF IInv, TypeOK, WatchersInv
  <1>6. TypeOK' /\ ProcessesInv' /\ RecoveryInv'
    BY <1>1, <1>5 DEF IInv, TypeOK, ProcessesInv, processes, RecoveryInv, ScanGood, EntryGood
  <1> QED BY <1>5, <1>6 DEF IInv

LEMMA WatchLifetimeKeeps ==
    ASSUME IInv, NEW p \in Pids, WatchLifetime(p)
    PROVE  IInv'
  <1>1. sessions[p].id \in Launches
    BY DEF WatchLifetime, IInv, TypeOK, Session
  <1>2. UNCHANGED <<runs, alive, role, serving, sessions, watchers, recovery, ended, crashes>>
        /\ lifetimes' = lifetimes \cup {sessions[p].id}
    BY DEF WatchLifetime, processes
  <1>3. TypeOK'
    BY <1>1, <1>2 DEF IInv, TypeOK
  <1>4. /\ ProcessesInv' /\ SessionsInv' /\ WatchersInv' /\ RecoveryInv'
        /\ Covers(watchers, sessions)'
    BY <1>2 DEF IInv, ProcessesInv, SessionsInv, WatchersInv, WatcherGood, RecoveryInv,
                ScanGood, EntryGood, Good, Covers, Same
  <1> QED BY <1>3, <1>4 DEF IInv

-----------------------------------------------------------------------------
\* A thread in another state is the same thread for the session it watches.
LEMMA SwapCovers ==
    ASSUME NEW ws, NEW ss, NEW w \in ws, NEW v,
           v.pid = w.pid, v.run = w.run, v.id = w.id, Covers(ws, ss)
    PROVE  Covers((ws \ {w}) \cup {v}, ss)
  BY DEF Covers, Same

\* A watcher that goes on reading /proc.
LEMMA ScanOnKeeps ==
    ASSUME IInv, NEW w \in watchers, NEW sc \in Scan, ScanGood(sc, {w.id}),
           watchers' = (watchers \ {w}) \cup {[w EXCEPT !.scan = sc]},
           UNCHANGED <<processes, serving, sessions, recovery, lifetimes, ended, crashes>>
    PROVE  IInv'
  <1> DEFINE v == [w EXCEPT !.scan = sc]
  <1>1. w \in Watcher /\ WatcherGood(w)
    BY DEF IInv, TypeOK, WatchersInv
  <1>2. v \in Watcher /\ v.pid = w.pid /\ v.run = w.run /\ v.id = w.id /\ v.scan = sc
    BY <1>1 DEF Watcher
  <1> HIDE DEF v
  <1>3. WatcherGood(v)
    BY <1>1, <1>2 DEF WatcherGood
  <1>4. watchers' \in SUBSET Watcher /\ \A u \in watchers' : WatcherGood(u)
    BY <1>2, <1>3 DEF IInv, TypeOK, WatchersInv, v
  <1>5. UNCHANGED <<runs, alive, role>>
    BY DEF processes
  <1>6. TypeOK' /\ ProcessesInv'
    BY <1>4, <1>5 DEF IInv, TypeOK, ProcessesInv
  <1>7. SessionsInv' /\ WatchersInv' /\ RecoveryInv'
    BY <1>4, <1>5 DEF IInv, SessionsInv, WatchersInv, WatcherGood, RecoveryInv,
                      ScanGood, EntryGood, Good
  <1>8. watchers' = (watchers \ {w}) \cup {v}
    BY DEF v
  <1>9. Covers(watchers', sessions)
    BY <1>2, <1>8, SwapCovers DEF IInv
  <1>10. Covers(watchers, sessions)'
    BY <1>9 DEF Covers, Same
  <1> QED BY <1>6, <1>7, <1>10 DEF IInv

LEMMA ListingGood ==
    ASSUME NEW wanted, NEW S \in SUBSET Pids
    PROVE  /\ [left |-> S, entry |-> NoEntry] \in Scan
           /\ ScanGood([left |-> S, entry |-> NoEntry], wanted)
  BY DEF Scan, ScanGood

LEMMA ExitSeenKeeps ==
    ASSUME IInv, NEW w \in watchers, ExitSeen(w)
    PROVE  IInv'
  <1>1. Handoff(w) \in Scan /\ ScanGood(Handoff(w), {w.id})
    <2>1. CASE Handoff(w) = Scanned
      BY <2>1, ListingGood DEF Scanned
    <2>2. CASE Handoff(w) = [Listing EXCEPT !.left = @ \ {w.pid}]
      <3>1. Handoff(w) = [left |-> {p \in Pids : alive[p]} \ {w.pid}, entry |-> NoEntry]
        BY <2>2 DEF Listing
      <3> QED BY <3>1, ListingGood
    <2> QED BY <2>1, <2>2 DEF Handoff
  <1> QED BY <1>1, ScanOnKeeps DEF ExitSeen

LEMMA HandoffScansKeeps ==
    ASSUME IInv, NEW w \in watchers, HandoffScans(w)
    PROVE  IInv'
  <1>1. PICK new \in ScanSteps(w.scan, {w.id}) :
           watchers' = (watchers \ {w}) \cup {[w EXCEPT !.scan = new]}
    BY DEF HandoffScans
  <1>2. w.scan \in Scan /\ WatcherGood(w) /\ w.id \in Launches \cup {Nobody}
    BY DEF HandoffScans, IInv, TypeOK, Watcher, WatchersInv
  <1>3. new \in Scan /\ ScanGood(new, {w.id})
    BY <1>1, <1>2, ScanStepsGood DEF IInv, WatcherGood, HandoffScans
  <1> QED BY <1>1, <1>3, ScanOnKeeps DEF HandoffScans

\* What Admit leaves alone is kept too.
LEMMA AdmitKeeps ==
    ASSUME IInv, UNCHANGED <<processes, serving, lifetimes, ended, crashes>>,
           recovery' \in Scan \cup {Idle}, recovery' # Idle => ScanGood(recovery', Launches),
           NEW p \in Pids, NEW n \in Nat, NEW id \in Launches \cup {Nobody}, Good(p, n, id),
           NEW others \in SUBSET Watcher, \A w \in others : WatcherGood(w),
           Covers(others, sessions),
           Admit(p, n, id, others)
    PROVE  IInv'
  <1>1. /\ sessions' \in [Pids -> Session \cup {NoSession}]
        /\ Cardinality({q \in Pids : sessions'[q] # NoSession}) <= MaxSessions
        /\ watchers' \in SUBSET Watcher
        /\ SessionsInv' /\ WatchersInv'
        /\ Covers(watchers, sessions)'
    BY AdmitGood DEF IInv
  <1>2. TypeOK' /\ ProcessesInv'
    BY <1>1 DEF IInv, TypeOK, ProcessesInv, processes
  <1>3. RecoveryInv'
    BY DEF RecoveryInv, ScanGood, EntryGood, processes
  <1> QED BY <1>1, <1>2, <1>3 DEF IInv

LEMMA HandoffRegistersKeeps ==
    ASSUME IInv, NEW w \in watchers, HandoffRegisters(w)
    PROVE  IInv'
  <1> DEFINE e == w.scan.entry
             v == [w EXCEPT !.scan.entry = NoEntry]
             others == (watchers \ {w}) \cup {v}
  <1>1. w \in Watcher /\ WatcherGood(w) /\ w.scan \in Scan /\ e # NoEntry /\ e.stage = "ready"
    BY DEF IInv, TypeOK, Watcher, WatchersInv, HandoffRegisters, Ready
  <1>2. e \in Entry /\ e.pid \in Pids /\ e.run \in Nat
    BY <1>1 DEF Scan, Entry
  <1>3. EntryGood(e) /\ e.id \in {w.id}
    BY <1>1 DEF HandoffRegisters, WatcherGood, ScanGood
  <1>4. Good(e.pid, e.run, w.id) /\ w.id \in Launches \cup {Nobody}
    BY <1>1, <1>2, <1>3 DEF EntryGood, Good, Watcher
  <1>5. [w.scan EXCEPT !.entry = NoEntry] = [left |-> w.scan.left, entry |-> NoEntry]
        /\ w.scan.left \in SUBSET Pids
    BY <1>1 DEF Scan
  <1>6. v = [w EXCEPT !.scan = [left |-> w.scan.left, entry |-> NoEntry]]
    BY <1>1, <1>5 DEF Watcher
  <1>7. /\ v \in Watcher /\ v.pid = w.pid /\ v.run = w.run /\ v.id = w.id
        /\ v.scan = [left |-> w.scan.left, entry |-> NoEntry]
    BY <1>1, <1>5, <1>6, ListingGood DEF Watcher
  <1>8. Admit(e.pid, e.run, w.id, others)
        /\ UNCHANGED <<processes, serving, recovery, lifetimes, ended, crashes>>
    BY DEF HandoffRegisters
  <1> HIDE DEF e, v
  <1>9. WatcherGood(v)
    BY <1>1, <1>5, <1>7, ListingGood DEF WatcherGood
  <1>10. others \in SUBSET Watcher /\ \A u \in others : WatcherGood(u)
    BY <1>7, <1>9 DEF IInv, TypeOK, WatchersInv
  <1>11. Covers(others, sessions)
    BY <1>7, SwapCovers DEF IInv
  <1>12. recovery' \in Scan \cup {Idle} /\ (recovery' # Idle => ScanGood(recovery', Launches))
    BY <1>8 DEF IInv, TypeOK, RecoveryInv
  <1> HIDE DEF others
  <1> QED BY <1>2, <1>4, <1>8, <1>10, <1>11, <1>12, AdmitKeeps

LEMMA RemoveKeeps ==
    ASSUME IInv, NEW w \in watchers, Remove(w)
    PROVE  IInv'
  <1>1. w \in Watcher /\ w.pid \in Pids
    BY DEF IInv, TypeOK, Watcher
  <1>2. \A q \in Pids : \/ sessions'[q] = sessions[q]
                        \/ /\ q = w.pid /\ sessions[q] # NoSession
                           /\ Same(sessions[q], w.id, w.run) /\ sessions'[q] = NoSession
    BY <1>1 DEF Remove, IInv, TypeOK
  <1>3. sessions' \in [Pids -> Session \cup {NoSession}]
    BY <1>1 DEF Remove, IInv, TypeOK
  <1>4. UNCHANGED <<runs, alive, role, serving, recovery, crashes>>
        /\ watchers' = watchers \ {w}
    BY DEF Remove, processes
  <1>5. lifetimes' \in SUBSET Launches /\ ended' \in SUBSET Launches
    BY DEF Remove, IInv, TypeOK
  <1>6. Cardinality({q \in Pids : sessions'[q] # NoSession}) <= MaxSessions
    <2> DEFINE S == {q \in Pids : sessions[q] # NoSession}
               T == {q \in Pids : sessions'[q] # NoSession}
    <2>1. T \in SUBSET S
      BY <1>2
    <2>2. IsFiniteSet(Pids) /\ S \in SUBSET Pids
      OBVIOUS
    <2>3. IsFiniteSet(S)
      BY <2>2, FS_Subset
    <2>4. Cardinality(T) <= Cardinality(S) /\ IsFiniteSet(T)
      BY <2>1, <2>3, FS_Subset
    <2>5. Cardinality(T) \in Nat /\ Cardinality(S) \in Nat /\ Cardinality(S) <= MaxSessions
      BY <2>3, <2>4, FS_CardinalityType DEF IInv, TypeOK
    <2> HIDE DEF S, T
    <2>6. Cardinality(T) <= MaxSessions
      BY <2>4, <2>5
    <2> USE DEF T
    <2> QED BY <2>6, Zenon
  <1>7. TypeOK' /\ ProcessesInv'
    BY <1>3, <1>4, <1>5, <1>6 DEF IInv, TypeOK, ProcessesInv
  <1>8. SessionsInv' /\ WatchersInv' /\ RecoveryInv'
    BY <1>2, <1>4 DEF IInv, SessionsInv, WatchersInv, WatcherGood, RecoveryInv,
                      ScanGood, EntryGood, Good
  <1>9. Covers(watchers, sessions)'
    <2>1. sessions[w.pid] # NoSession /\ Same(sessions[w.pid], w.id, w.run)
             => sessions'[w.pid] = NoSession
      BY <1>1 DEF Remove, IInv, TypeOK
    <2>2. ASSUME NEW q \in Pids, sessions'[q] # NoSession
          PROVE  \E u \in watchers' : u.pid = q /\ Same(sessions'[q], u.id, u.run)
                                      /\ u.run = sessions'[q].run
      <3>1. sessions'[q] = sessions[q]
        BY <1>2, <2>2
      <3>2. PICK u \in watchers : u.pid = q /\ Same(sessions[q], u.id, u.run)
                                  /\ u.run = sessions[q].run
        BY <2>2, <3>1 DEF IInv, Covers
      <3>3. u # w
        BY <2>1, <2>2, <3>1, <3>2
      <3> QED BY <1>4, <3>1, <3>2, <3>3
    <2> QED BY <2>2 DEF Covers, Same
  <1> QED BY <1>7, <1>8, <1>9 DEF IInv

-----------------------------------------------------------------------------
LEMMA RecoveryKeeps ==
    ASSUME IInv, Reconcile \/ RecoveryStep
    PROVE  IInv'
  <1>1. CASE RecoveryRegisters
    <2> DEFINE e == recovery.entry
               next == [recovery EXCEPT !.entry = NoEntry]
    <2>1. recovery \in Scan /\ e # NoEntry /\ e.stage = "ready" /\ ScanGood(recovery, Launches)
      BY <1>1 DEF RecoveryRegisters, Ready, IInv, TypeOK, RecoveryInv
    <2>2. e \in Entry /\ e.pid \in Pids /\ e.run \in Nat /\ e.id \in Launches \cup {Nobody}
      BY <2>1 DEF Scan, Entry
    <2>3. Good(e.pid, e.run, e.id)
      BY <2>1 DEF ScanGood, EntryGood, Good
    <2>4. next = [left |-> recovery.left, entry |-> NoEntry] /\ recovery.left \in SUBSET Pids
      BY <2>1 DEF Scan
    <2>5. next \in Scan /\ ScanGood(next, Launches)
      BY <2>4, ListingGood
    <2>6. /\ Admit(e.pid, e.run, e.id, watchers) /\ recovery' = next
          /\ UNCHANGED <<processes, serving, lifetimes, ended, crashes>>
      BY <1>1 DEF RecoveryRegisters
    <2>7. watchers \in SUBSET Watcher /\ (\A w \in watchers : WatcherGood(w))
          /\ Covers(watchers, sessions)
      BY DEF IInv, TypeOK, WatchersInv
    <2> HIDE DEF e, next
    <2> QED BY <2>2, <2>3, <2>5, <2>6, <2>7, AdmitKeeps
  <1>2. CASE ~RecoveryRegisters
    <2>1. recovery' \in Scan \cup {Idle} /\ (recovery' # Idle => ScanGood(recovery', Launches))
      <3>1. CASE Reconcile
        <4>1. recovery' = [left |-> {p \in Pids : alive[p]}, entry |-> NoEntry]
          BY <3>1 DEF Reconcile, Listing
        <4> QED BY <4>1, ListingGood
      <3>2. CASE RecoveryScans
        <4>1. PICK new \in ScanSteps(recovery, Launches) : recovery' = new
          BY <3>2 DEF RecoveryScans
        <4>2. recovery \in Scan /\ ScanGood(recovery, Launches)
          BY <3>2 DEF RecoveryScans, IInv, TypeOK, RecoveryInv
        <4> QED BY <4>1, <4>2, ScanStepsGood DEF IInv
      <3>3. CASE RecoveryEnds
        BY <3>3 DEF RecoveryEnds
      <3> QED BY <1>2, <3>1, <3>2, <3>3 DEF RecoveryStep
    <2>2. UNCHANGED <<runs, alive, role, sessions, watchers, lifetimes, ended, crashes>>
          /\ serving' \in BOOLEAN
      BY <1>2 DEF RecoveryStep, Reconcile, RecoveryScans, RecoveryEnds, processes, IInv, TypeOK
    <2>3. TypeOK' /\ ProcessesInv'
      BY <2>1, <2>2 DEF IInv, TypeOK, ProcessesInv
    <2>4. SessionsInv' /\ WatchersInv' /\ Covers(watchers, sessions)'
      BY <2>2 DEF IInv, SessionsInv, WatchersInv, WatcherGood, ScanGood, EntryGood, Good, Covers, Same
    <2>5. RecoveryInv'
      BY <2>1, <2>2 DEF RecoveryInv, ScanGood, EntryGood
    <2> QED BY <2>3, <2>4, <2>5 DEF IInv
  <1> QED BY <1>1, <1>2

LEMMA CrashKeeps ==
    ASSUME IInv, Crash
    PROVE  IInv'
  <1>1. /\ UNCHANGED <<runs, alive, role>>
        /\ serving' = FALSE /\ watchers' = {} /\ lifetimes' = {} /\ ended' = {}
        /\ sessions' = [p \in Pids |-> NoSession]
        /\ crashes' \in 0..MaxCrashes
        /\ recovery' = [left |-> {p \in Pids : alive[p]}, entry |-> NoEntry]
    BY DEF Crash, Listing, processes, IInv, TypeOK
  <1>2. recovery' \in Scan /\ ScanGood(recovery', Launches)
    BY <1>1, ListingGood
  <1>3. Cardinality({p \in Pids : sessions'[p] # NoSession}) <= MaxSessions
    <2>1. {p \in Pids : sessions'[p] # NoSession} = {}
      BY <1>1
    <2>2. Cardinality({}) = 0
      BY FS_EmptySet, Zenon
    <2> QED BY <2>1, <2>2
  <1>4. TypeOK' /\ ProcessesInv'
    BY <1>1, <1>2, <1>3 DEF IInv, TypeOK, ProcessesInv
  <1>5. SessionsInv' /\ WatchersInv' /\ Covers(watchers, sessions)'
    BY <1>1 DEF SessionsInv, WatchersInv, Covers
  <1>6. RecoveryInv'
    BY <1>1, <1>2 DEF RecoveryInv, ScanGood, EntryGood
  <1> QED BY <1>4, <1>5, <1>6 DEF IInv

LEMMA StutterKeeps ==
    ASSUME IInv, UNCHANGED vars
    PROVE  IInv'
  BY DEF vars, IInv, TypeOK, ProcessesInv, SessionsInv, WatchersInv, WatcherGood, RecoveryInv,
         ScanGood, EntryGood, Good, Covers, Same

LEMMA NextKeeps ==
    ASSUME IInv, [Next]_vars
    PROVE  IInv'
  <1>1. CASE Processes
    <2>1. ASSUME NEW p \in Pids, Unrelated(p) PROVE IInv'
      BY <2>1, NamesKeeps DEF Unrelated
    <2>2. ASSUME NEW p \in Pids, Exec(p) \/ Exit(p) PROVE IInv'
      BY <2>2, RoleKeeps
    <2>3. ASSUME NEW p \in Pids, Fail(p) PROVE IInv'
      BY <2>3, FailKeeps
    <2>4. ASSUME NEW p \in Pids, NEW l \in Launches, Launch(p, l) PROVE IInv'
      BY <2>4, NamesKeeps DEF Launch
    <2>5. ASSUME NEW p \in Pids, NEW q \in Pids, Fork(p, q) PROVE IInv'
      <3>1. LaunchOf(p) \in Launches \cup {Nobody}
        BY <2>5 DEF Fork, LaunchOf, IInv, TypeOK, ProcessesInv
      <3> QED BY <2>5, <3>1, NamesKeeps DEF Fork
    <2> QED BY <1>1, <2>1, <2>2, <2>3, <2>4, <2>5 DEF Processes
  <1>2. CASE Requests
    BY <1>2, RequestsKeep, WatchLifetimeKeeps, RecoveryKeeps DEF Requests
  <1>3. ASSUME NEW w \in watchers, WatcherStep(w) PROVE IInv'
    BY <1>3, ExitSeenKeeps, HandoffScansKeeps, HandoffRegistersKeeps, RemoveKeeps DEF WatcherStep
  <1>4. CASE RecoveryStep
    BY <1>4, RecoveryKeeps
  <1>5. CASE Crash
    BY <1>5, CrashKeeps
  <1>6. CASE UNCHANGED vars
    BY <1>6, StutterKeeps
  <1> QED BY <1>1, <1>2, <1>3, <1>4, <1>5, <1>6 DEF Next

\* However processes start, fork, exec, exit and reuse pids, and however
\* registrations, handoffs, recoveries and restarts interleave: no session is
\* left without the thread that removes it (register_with_fd), and none watches
\* a process of another launch.
THEOREM SessionsSafe == Spec => [](TypeOK /\ RecordsAreWatched /\ SessionIsItsProcess)
  <1>1. IInv => TypeOK /\ RecordsAreWatched /\ SessionIsItsProcess
    BY DEF IInv, SessionsInv, Covers, Good, RecordsAreWatched, SessionIsItsProcess, Registered
  <1> QED BY <1>1, Initially, NextKeeps, PTL DEF Spec

\* However registrations, lost files and restarts interleave, every record of a session
\* has the watcher that will remove it when its process ends (register_with_fd, recover).
THEOREM SessionsAreWatched == Spec => []RecordsAreWatched
BY SessionsSafe, PTL

-----------------------------------------------------------------------------
(***************************************************************************)
(* A handle and its launch. While pids are not reused, no process forks    *)
(* as /proc is read for its launch and the registry has room, the registry *)
(* implements LaunchLifetime; section 3 of the README has what happens to  *)
(* a launch otherwise.                                                     *)
(***************************************************************************)
Undisturbed ==
    MaxRuns = 1 /\ ForksDuringScan = FALSE /\ Cardinality(Pids) < MaxSessions

\* The process that p names is of launch l.
Of(p, l) == Len(runs[p]) = 1 /\ runs[p][1] = l

Tracked(q, l) == sessions[q] # NoSession /\ sessions[q].id = l

OneRun == \A p \in Pids : Len(runs[p]) <= 1

\* A wrapper that has not become its game is alone in its launch.
Lone == \A p, q \in Pids, l \in Launches : Of(p, l) /\ Of(q, l) /\ role[p] # "game" => p = q

FailedInv == \A p \in Registered : sessions[p].failed => role[p] = "failing"

\* A launch's session has one thread, which reads /proc once its process is gone.
Threads(ws) ==
    \A w \in ws :
        /\ w.scan # Waiting => ~alive[w.pid]
        /\ w.id # Nobody => /\ Tracked(w.pid, w.id)
                            /\ \A v \in ws : v.pid = w.pid /\ v.id = w.id => v = w

\* What a thread has read so far, and what it has yet to read, holds every living
\* process of its launch.
Found(w) ==
    \A q \in Pids : alive[q] /\ Of(q, w.id) =>
        \/ Tracked(q, w.id)
        \/ q \in w.scan.left
        \/ w.scan.entry # NoEntry /\ w.scan.entry.pid = q

FoundInv == \A w \in watchers : w.id # Nobody /\ w.scan # Waiting => Found(w)

LifeInv == OneRun /\ Lone /\ FailedInv /\ Threads(watchers) /\ FoundInv

Begun == {l \in Launches : Launched(l)}
Living == {l \in Launches : Live(l)}

\* What a step shows to whoever watches launches.
LifeStep ==
    \/ \E l \in Launches : Lifetime!Begin(l) \/ Lifetime!End(l) \/ Lifetime!Give(l) \/ Lifetime!Close(l)
    \/ Lifetime!Restart
    \/ UNCHANGED <<Begun, Living, lifetimes, ended>>

LEMMA AtMostOne ==
    ASSUME NEW k \in Nat, k <= 1
    PROVE  k \in {0, 1} /\ (k > 0 => k = 1) /\ \A n \in 1..k : n = 1 /\ k = 1
OBVIOUS

LEMMA LengthOfRuns ==
    ASSUME TypeOK, OneRun, NEW p \in Pids
    PROVE  Len(runs[p]) \in Nat /\ Len(runs[p]) <= 1
  <1>1. runs[p] \in Seq(Launches \cup {Nobody})
    BY DEF TypeOK
  <1> QED BY <1>1 DEF OneRun

LEMMA GoodIsOf ==
    ASSUME IInv, OneRun, NEW p \in Pids, NEW n, NEW id \in Launches \cup {Nobody}, Good(p, n, id)
    PROVE  n = 1 /\ Len(runs[p]) = 1 /\ (id # Nobody => Of(p, id))
  <1>1. Len(runs[p]) \in Nat /\ Len(runs[p]) <= 1
    BY LengthOfRuns DEF IInv
  <1>2. n \in 1..Len(runs[p]) /\ (id # Nobody => runs[p][n] = id)
    BY DEF Good
  <1>3. n = 1 /\ Len(runs[p]) = 1
    BY <1>1, <1>2, AtMostOne
  <1> QED BY <1>2, <1>3 DEF Of

\* A process that is alive is the only one of its pid.
LEMMA AliveIsOf ==
    ASSUME IInv, OneRun, NEW p \in Pids, alive[p]
    PROVE  Len(runs[p]) = 1 /\ LaunchOf(p) = runs[p][1] /\ Of(p, LaunchOf(p))
  <1>1. Len(runs[p]) \in Nat /\ Len(runs[p]) <= 1
    BY LengthOfRuns DEF IInv
  <1>2. Len(runs[p]) > 0
    BY DEF IInv, ProcessesInv
  <1>3. Len(runs[p]) = 1
    BY <1>1, <1>2, AtMostOne
  <1> QED BY <1>3 DEF LaunchOf, Of

LEMMA BegunLiving ==
    ASSUME IInv, OneRun
    PROVE  /\ Begun = {l \in Launches : \E p \in Pids : Of(p, l)}
           /\ Living = {l \in Launches : \E p \in Pids : alive[p] /\ Of(p, l)}
  <1>1. \A p \in Pids : Len(runs[p]) \in {0, 1}
    BY LengthOfRuns, AtMostOne DEF IInv
  <1>2. ASSUME NEW l \in Launches PROVE Launched(l) <=> \E p \in Pids : Of(p, l)
    BY <1>1 DEF Launched, Of
  <1>3. ASSUME NEW l \in Launches PROVE Live(l) <=> \E p \in Pids : alive[p] /\ Of(p, l)
    BY AliveIsOf DEF Live, Of
  <1> QED BY <1>2, <1>3 DEF Begun, Living

LEMMA BegunLivingNext ==
    ASSUME IInv', OneRun'
    PROVE  /\ Begun' = {l \in Launches : \E p \in Pids : Of(p, l)'}
           /\ Living' = {l \in Launches : \E p \in Pids : alive'[p] /\ Of(p, l)'}
  <1>1. \A p \in Pids : Len(runs'[p]) \in {0, 1} /\ (alive'[p] => Len(runs'[p]) = 1)
    <2> SUFFICES ASSUME NEW p \in Pids
                 PROVE  Len(runs'[p]) \in {0, 1} /\ (alive'[p] => Len(runs'[p]) = 1)
      OBVIOUS
    <2>1. runs'[p] \in Seq(Launches \cup {Nobody})
      BY DEF IInv, TypeOK
    <2>2. Len(runs'[p]) \in Nat /\ Len(runs'[p]) <= 1
      BY <2>1 DEF OneRun
    <2>3. alive'[p] => Len(runs'[p]) > 0
      BY DEF IInv, ProcessesInv
    <2> QED BY <2>2, <2>3, AtMostOne
  <1>2. ASSUME NEW l \in Launches PROVE Launched(l)' <=> \E p \in Pids : Of(p, l)'
    BY <1>1 DEF Launched, Of
  <1>3. ASSUME NEW l \in Launches PROVE Live(l)' <=> \E p \in Pids : alive'[p] /\ Of(p, l)'
    BY <1>1 DEF Live, LaunchOf, Of
  <1> QED BY <1>2, <1>3 DEF Begun, Living

\* Whoever is watched or registered has been a process of the launch.
LEMMA KnownAreOf ==
    ASSUME IInv, OneRun
    PROVE  /\ \A p \in Registered : Len(runs[p]) = 1 /\ (sessions[p].id # Nobody => Of(p, sessions[p].id))
           /\ \A w \in watchers : /\ w.pid \in Pids /\ w.run = 1 /\ Len(runs[w.pid]) = 1
                                  /\ w.id \in Launches \cup {Nobody}
                                  /\ w.id # Nobody => Of(w.pid, w.id)
  <1>1. ASSUME NEW p \in Registered
        PROVE  Len(runs[p]) = 1 /\ (sessions[p].id # Nobody => Of(p, sessions[p].id))
    <2>1. p \in Pids /\ sessions[p] \in Session /\ Good(p, sessions[p].run, sessions[p].id)
      BY DEF Registered, IInv, TypeOK, SessionsInv
    <2> QED BY <2>1, GoodIsOf DEF Session
  <1>2. ASSUME NEW w \in watchers
        PROVE  /\ w.pid \in Pids /\ w.run = 1 /\ Len(runs[w.pid]) = 1
               /\ w.id \in Launches \cup {Nobody}
               /\ w.id # Nobody => Of(w.pid, w.id)
    <2>1. w \in Watcher /\ Good(w.pid, w.run, w.id)
      BY DEF IInv, TypeOK, WatchersInv, WatcherGood
    <2> QED BY <2>1, GoodIsOf DEF Watcher
  <1> QED BY <1>1, <1>2

-----------------------------------------------------------------------------
(* Processes. *)

\* A process starts: the first of its launch, or beside a game when no thread
\* reads /proc for it, or another program.
LEMMA NamesLife ==
    ASSUME IInv, IInv', LifeInv, Undisturbed,
           NEW p \in Pids, NEW l \in Launches \cup {Nobody}, NEW r, Names(p, l, r),
           \/ l = Nobody
           \/ \A q \in Pids : ~Of(q, l)
           \/ /\ r = "game" /\ \E q \in Pids : Of(q, l) /\ role[q] = "game"
              /\ \A w \in watchers : w.id = l => w.scan = Waiting
    PROVE  /\ LifeInv'
           /\ Begun' = Begun \cup ({l} \cap Launches)
           /\ Living' = Living \cup ({l} \cap Launches)
  <1>1. /\ Len(runs[p]) = 0 /\ runs[p] = <<>> /\ ~alive[p]
        /\ UNCHANGED <<serving, sessions, watchers, recovery, lifetimes, ended, crashes>>
    <2>1. Len(runs[p]) \in Nat /\ runs[p] \in Seq(Launches \cup {Nobody})
      BY DEF IInv, TypeOK
    <2> QED BY <2>1 DEF Names, Undisturbed
  <1>2. /\ runs' = [runs EXCEPT ![p] = <<l>>] /\ alive' = [alive EXCEPT ![p] = TRUE]
        /\ role' = [role EXCEPT ![p] = r]
    <2>1. Append(<<>>, l) = <<l>>
      OBVIOUS
    <2> QED BY <1>1, <2>1 DEF Names
  <1>3. \A q \in Pids : /\ q # p => runs'[q] = runs[q] /\ alive'[q] = alive[q] /\ role'[q] = role[q]
                        /\ q = p => runs'[q] = <<l>> /\ alive'[q] /\ role'[q] = r
    BY <1>2 DEF IInv, TypeOK
  <1>4. \A q \in Pids, m \in Launches : Of(q, m)' <=> Of(q, m) \/ (q = p /\ m = l)
    <2>1. \A m : ~Of(p, m)
      BY <1>1 DEF Of
    <2>2. Len(<<l>>) = 1 /\ <<l>>[1] = l
      OBVIOUS
    <2> QED BY <1>3, <2>1, <2>2 DEF Of
  <1>5. OneRun'
    <2>1. Len(<<l>>) = 1
      OBVIOUS
    <2> SUFFICES ASSUME NEW q \in Pids PROVE Len(runs'[q]) <= 1
      BY DEF OneRun
    <2>2. CASE q = p
      <3>1. Len(runs'[q]) = Len(<<l>>)
        BY <1>3, <2>2
      <3> QED BY <2>1, <3>1
    <2>3. CASE q # p
      BY <1>3, <2>3 DEF OneRun, LifeInv
    <2> QED BY <2>2, <2>3
  <1>6. Lone'
    <2> SUFFICES ASSUME NEW a \in Pids, NEW b \in Pids, NEW m \in Launches,
                        Of(a, m)', Of(b, m)', role'[a] # "game"
                 PROVE  a = b
      BY DEF Lone
    <2>1. CASE m # l
      <3>1. Of(a, m) /\ Of(b, m)
        BY <1>4, <2>1
      <3>2. a # p
        BY <1>1, <3>1 DEF Of
      <3> QED BY <1>3, <3>1, <3>2 DEF Lone, LifeInv
    <2>2. CASE m = l /\ \A q \in Pids : ~Of(q, l)
      BY <1>4, <2>2
    <2>3. CASE m = l /\ r = "game" /\ \E q \in Pids : Of(q, l) /\ role[q] = "game"
      <3>1. PICK q \in Pids : Of(q, l) /\ role[q] = "game"
        BY <2>3
      <3>2. a # p
        BY <1>3, <2>3
      <3>3. Of(a, m) /\ role[a] # "game"
        BY <1>3, <1>4, <3>2
      <3>4. a = q
        BY <2>3, <3>1, <3>3 DEF Lone, LifeInv
      <3> QED BY <3>1, <3>3, <3>4
    <2> QED BY <2>1, <2>2, <2>3
  <1>7. \A q \in Registered : q # p
    BY <1>1, KnownAreOf DEF LifeInv
  <1>8. \A w \in watchers : w.pid \in Pids /\ w.pid # p
    BY <1>1, KnownAreOf DEF LifeInv
  <1>9. FailedInv'
    <2>1. Registered' = Registered /\ Registered \subseteq Pids
      BY <1>1 DEF Registered
    <2> QED BY <1>1, <1>3, <1>7, <2>1 DEF FailedInv, LifeInv
  <1>10. Threads(watchers)'
    BY <1>1, <1>3, <1>8 DEF Threads, Tracked, LifeInv
  <1>11. FoundInv'
    <2> SUFFICES ASSUME NEW w \in watchers, w.id # Nobody, w.scan # Waiting,
                        NEW q \in Pids, alive'[q], Of(q, w.id)'
                 PROVE  \/ Tracked(q, w.id)' \/ q \in w.scan.left
                        \/ w.scan.entry # NoEntry /\ w.scan.entry.pid = q
      BY <1>1 DEF FoundInv, Found
    <2>1. w.id \in Launches /\ Of(w.pid, w.id)
      BY KnownAreOf DEF LifeInv
    <2>2. w.id # l
      BY <1>8, <2>1
    <2>3. Of(q, w.id) /\ q # p
      BY <1>1, <1>4, <2>1, <2>2 DEF Of
    <2>4. alive[q] /\ Found(w)
      BY <1>3, <2>3 DEF FoundInv, LifeInv
    <2> QED BY <1>1, <2>3, <2>4 DEF Found, Tracked
  <1>12. /\ Begun = {m \in Launches : \E q \in Pids : Of(q, m)}
         /\ Living = {m \in Launches : \E q \in Pids : alive[q] /\ Of(q, m)}
         /\ Begun' = {m \in Launches : \E q \in Pids : Of(q, m)'}
         /\ Living' = {m \in Launches : \E q \in Pids : alive'[q] /\ Of(q, m)'}
    BY <1>5, BegunLiving, BegunLivingNext DEF LifeInv
  <1>13. Begun' = Begun \cup ({l} \cap Launches)
    BY <1>4, <1>12
  <1>14. Living' = Living \cup ({l} \cap Launches)
    <2>1. \A q \in Pids, m \in Launches :
             alive'[q] /\ Of(q, m)' <=> (alive[q] /\ Of(q, m)) \/ (q = p /\ m = l)
      BY <1>1, <1>3, <1>4 DEF Of
    <2> QED BY <1>12, <2>1
  <1> QED BY <1>5, <1>6, <1>9, <1>10, <1>11, <1>13, <1>14 DEF LifeInv

LEMMA StartsLife ==
    ASSUME IInv, IInv', LifeInv, Undisturbed,
           \/ \E p \in Pids : Unrelated(p)
           \/ \E p \in Pids, l \in Launches : Launch(p, l)
           \/ \E p, q \in Pids : Fork(p, q)
    PROVE  LifeInv' /\ LifeStep
  <1>1. ASSUME NEW p \in Pids, Unrelated(p) PROVE LifeInv' /\ LifeStep
    <2>1. Names(p, Nobody, "game") /\ UNCHANGED <<lifetimes, ended>>
      BY <1>1 DEF Unrelated, Names
    <2>2. LifeInv' /\ Begun' = Begun /\ Living' = Living
      BY <2>1, NamesLife
    <2> QED BY <2>1, <2>2 DEF LifeStep
  <1>2. ASSUME NEW p \in Pids, NEW l \in Launches, Launch(p, l) PROVE LifeInv' /\ LifeStep
    <2>1. Names(p, l, "wrapper") /\ UNCHANGED <<lifetimes, ended>> /\ ~Launched(l)
      BY <1>2 DEF Launch, Names
    <2>2. l \notin Begun /\ \A q \in Pids : ~Of(q, l)
      BY <2>1, BegunLiving DEF Begun, LifeInv
    <2>3. LifeInv' /\ Begun' = Begun \cup {l} /\ Living' = Living \cup {l}
      BY <2>1, <2>2, NamesLife
    <2>4. Lifetime!Begin(l)
      BY <2>1, <2>2, <2>3 DEF Lifetime!Begin, Begun, Living
    <2> QED BY <2>3, <2>4 DEF LifeStep
  <1>3. ASSUME NEW p \in Pids, NEW q \in Pids, Fork(p, q) PROVE LifeInv' /\ LifeStep
    <2> DEFINE l == LaunchOf(p)
    <2>1. /\ Names(q, l, "game") /\ UNCHANGED <<lifetimes, ended>>
          /\ alive[p] /\ role[p] = "game" /\ l # Nobody
          /\ \A w \in watchers : w.id = l => w.scan = Waiting
      BY <1>3 DEF Fork, Names, Undisturbed, ScannedFor
    <2>2. Of(p, l) /\ l \in Launches
      <3>1. Of(p, l)
        BY <2>1, AliveIsOf DEF LifeInv
      <3>2. runs[p] \in Seq(Launches \cup {Nobody}) /\ Len(runs[p]) = 1 /\ runs[p][1] = l
        BY <3>1 DEF Of, IInv, TypeOK
      <3> QED BY <2>1, <3>1, <3>2
    <2> HIDE DEF l
    <2>3. LifeInv' /\ Begun' = Begun \cup {l} /\ Living' = Living \cup {l}
      BY <2>1, <2>2, NamesLife
    <2>4. l \in Begun /\ l \in Living
      BY <2>1, <2>2, BegunLiving DEF LifeInv
    <2> QED BY <2>1, <2>3, <2>4 DEF LifeStep
  <1> QED BY <1>1, <1>2, <1>3

LEMMA ExitLife ==
    ASSUME IInv, IInv', LifeInv, NEW p \in Pids, Exit(p)
    PROVE  LifeInv' /\ LifeStep
  <1>1. /\ alive[p] /\ alive' = [alive EXCEPT ![p] = FALSE]
        /\ UNCHANGED <<runs, role, sessions, watchers, lifetimes, ended>>
    BY DEF Exit
  <1>2. \A q \in Pids : alive'[q] => alive[q] /\ q # p
    BY <1>1 DEF IInv, TypeOK
  <1>3. \A q \in Pids : alive[q] /\ q # p => alive'[q]
    BY <1>1 DEF IInv, TypeOK
  <1>4. \A q \in Pids : \A l : (Of(q, l)' <=> Of(q, l)) /\ (Tracked(q, l)' <=> Tracked(q, l))
    BY <1>1 DEF Of, Tracked
  <1>5. OneRun' /\ Lone' /\ FailedInv'
    BY <1>1, <1>4 DEF LifeInv, OneRun, Lone, FailedInv, Registered
  <1>6. \A w \in watchers : w.pid \in Pids
    BY KnownAreOf DEF LifeInv
  <1>7. Threads(watchers)'
    BY <1>1, <1>2, <1>4, <1>6 DEF LifeInv, Threads
  <1>8. FoundInv'
    BY <1>1, <1>2, <1>4 DEF LifeInv, FoundInv, Found
  <1>9. /\ Begun = {m \in Launches : \E q \in Pids : Of(q, m)}
        /\ Living = {m \in Launches : \E q \in Pids : alive[q] /\ Of(q, m)}
        /\ Begun' = {m \in Launches : \E q \in Pids : Of(q, m)'}
        /\ Living' = {m \in Launches : \E q \in Pids : alive'[q] /\ Of(q, m)'}
    BY <1>5, BegunLiving, BegunLivingNext DEF LifeInv
  <1> DEFINE l == LaunchOf(p)
  <1>10. Of(p, l) /\ \A m : Of(p, m) => m = l
    BY <1>1, AliveIsOf DEF LifeInv, Of
  <1> HIDE DEF l
  <1>11. Begun' = Begun
    BY <1>4, <1>9
  <1>12. Living' \subseteq Living /\ Living \subseteq Living' \cup {l}
    BY <1>2, <1>3, <1>4, <1>9, <1>10
  <1>13. LifeStep
    <2>1. CASE Living' = Living
      BY <1>1, <1>11, <2>1 DEF LifeStep
    <2>2. CASE Living' # Living
      <3>1. l \in Living /\ Living' = Living \ {l} /\ l \in Launches
        BY <1>9, <1>12, <2>2
      <3>2. Lifetime!End(l)
        BY <1>1, <1>11, <3>1 DEF Lifetime!End, Begun, Living
      <3> QED BY <3>1, <3>2 DEF LifeStep
    <2> QED BY <2>1, <2>2
  <1> QED BY <1>5, <1>7, <1>8, <1>13 DEF LifeInv

\* The wrapper becomes the game, or fails to.
LEMMA ExecFailLife ==
    ASSUME IInv, LifeInv, NEW p \in Pids, Exec(p) \/ Fail(p)
    PROVE  LifeInv' /\ LifeStep
  <1>1. /\ role[p] = "wrapper" /\ UNCHANGED <<runs, alive, watchers, lifetimes, ended>>
        /\ \A q \in Pids : q # p => role'[q] = role[q]
    BY DEF Exec, Fail, IInv, TypeOK
  <1>2. \A q \in Pids : /\ (sessions'[q] # NoSession) <=> (sessions[q] # NoSession)
                        /\ sessions[q] # NoSession => sessions'[q].id = sessions[q].id
                        /\ q # p => sessions'[q] = sessions[q]
    <2>1. CASE sessions' = sessions
      BY <2>1
    <2>2. CASE sessions[p] # NoSession /\ sessions' = [sessions EXCEPT ![p].failed = TRUE]
      <3>1. sessions[p] \in Session
        BY <2>2 DEF IInv, TypeOK
      <3> DEFINE s == [sessions[p] EXCEPT !.failed = TRUE]
      <3>2. s \in Session /\ s.id = sessions[p].id
        BY <3>1 DEF Session
      <3>3. sessions' = [sessions EXCEPT ![p] = s]
        BY <2>2
      <3> HIDE DEF s
      <3>4. \A q \in Pids : sessions'[q] = IF q = p THEN s ELSE sessions[q]
        BY <3>3 DEF IInv, TypeOK
      <3> QED BY <2>2, <3>2, <3>4
    <2> QED BY <2>1, <2>2 DEF Exec, Fail
  <1>3. \A q \in Pids : \A l : (Of(q, l)' <=> Of(q, l)) /\ (Tracked(q, l)' <=> Tracked(q, l))
    BY <1>1, <1>2 DEF Of, Tracked
  <1>4. OneRun'
    BY <1>1 DEF LifeInv, OneRun
  <1>5. Lone'
    <2>1. \A q \in Pids : role'[q] # "game" => role[q] # "game"
      BY <1>1
    <2> QED BY <1>3, <2>1 DEF LifeInv, Lone
  <1>6. FailedInv'
    <2> SUFFICES ASSUME NEW q \in Registered', sessions'[q].failed PROVE role'[q] = "failing"
      BY DEF FailedInv
    <2>1. q \in Pids /\ q \in Registered
      BY <1>2 DEF Registered
    <2>2. CASE q # p
      BY <1>1, <1>2, <2>1, <2>2 DEF LifeInv, FailedInv
    <2>3. CASE q = p /\ Fail(p)
      BY <2>3 DEF Fail, IInv, TypeOK
    <2>4. CASE q = p /\ Exec(p)
      BY <1>1, <2>1, <2>4 DEF Exec, LifeInv, FailedInv
    <2> QED BY <2>2, <2>3, <2>4
  <1>7. \A w \in watchers : w.pid \in Pids
    BY KnownAreOf DEF LifeInv
  <1>8. Threads(watchers)'
    BY <1>1, <1>3, <1>7 DEF LifeInv, Threads
  <1>9. FoundInv'
    BY <1>1, <1>3 DEF LifeInv, FoundInv, Found
  <1>10. Begun' = Begun /\ Living' = Living
    BY <1>1 DEF Begun, Living, Launched, Live, LaunchOf
  <1> QED BY <1>1, <1>4, <1>5, <1>6, <1>8, <1>9, <1>10 DEF LifeInv, LifeStep

-----------------------------------------------------------------------------
(* The registry. *)

LEMMA SameProcessesLife ==
    ASSUME UNCHANGED processes
    PROVE  /\ Begun' = Begun /\ Living' = Living
           /\ OneRun => OneRun'
           /\ Lone => Lone'
           /\ \A q, l : Of(q, l)' <=> Of(q, l)
BY DEF processes, Begun, Living, Launched, Live, LaunchOf, OneRun, Lone, Of

\* Steps that leave the registry as it is.
LEMMA QuietLife ==
    ASSUME LifeInv, UNCHANGED <<processes, sessions, watchers>>
    PROVE  LifeInv' /\ Begun' = Begun /\ Living' = Living
  <1>1. FailedInv' /\ Threads(watchers)' /\ FoundInv'
    BY DEF LifeInv, processes, FailedInv, Registered, Threads, Tracked, FoundInv, Found, Of
  <1> QED BY <1>1, SameProcessesLife DEF LifeInv

LEMMA WatchLifetimeLife ==
    ASSUME IInv, LifeInv, NEW p \in Pids, WatchLifetime(p)
    PROVE  LifeInv' /\ LifeStep
  <1> DEFINE l == sessions[p].id
  <1>1. /\ l # Nobody /\ p \in Registered /\ lifetimes' = lifetimes \cup {l} /\ ended' = ended
        /\ UNCHANGED <<processes, sessions, watchers>>
    BY DEF WatchLifetime, Registered
  <1>2. l \in Launches
    BY <1>1 DEF IInv, TypeOK, Session, Registered
  <1>3. Of(p, l)
    BY <1>1, KnownAreOf DEF LifeInv
  <1> HIDE DEF l
  <1>4. l \in Begun
    BY <1>2, <1>3, BegunLiving DEF LifeInv
  <1>5. LifeInv' /\ Begun' = Begun /\ Living' = Living
    BY <1>1, QuietLife
  <1>6. Lifetime!Give(l)
    BY <1>1, <1>4, <1>5 DEF Lifetime!Give, Begun, Living
  <1> QED BY <1>2, <1>5, <1>6 DEF LifeStep

\* A registration, with the threads that were there before in others.
LEMMA AdmitLife ==
    ASSUME IInv, LifeInv, UNCHANGED processes,
           NEW p \in Pids, NEW n, NEW id \in Launches \cup {Nobody}, Good(p, n, id),
           NEW others \in SUBSET Watcher, Threads(others),
           Admit(p, n, id, others)
    PROVE  /\ FailedInv' /\ Threads(watchers)'
           /\ \A w \in watchers' : w \in others \/ w.scan = Waiting
           /\ \A q \in Pids, l \in Launches : Tracked(q, l) => Tracked(q, l)'
           /\ sessions' = sessions \/ (id # Nobody => Tracked(p, id)')
  <1>1. CASE ~Admissible(p, n, id)
    <2>1. sessions' = sessions /\ watchers' = others
      BY <1>1 DEF Admit
    <2>2. FailedInv' /\ Threads(watchers)'
      BY <2>1 DEF LifeInv, FailedInv, Registered, processes, Threads, Tracked
    <2> QED BY <2>1, <2>2 DEF Tracked
  <1>2. CASE Admissible(p, n, id)
    <2> DEFINE s == NewSession(n, id)
               v == Watching(p, n, id)
    <2>1. /\ sessions' = [sessions EXCEPT ![p] = s] /\ watchers' = others \cup {v}
          /\ sessions[p] # NoSession => sessions[p].id = Nobody
      BY <1>2 DEF Admit, Admissible
    <2>2. s \in Session /\ s.id = id /\ s.failed = FALSE
      <3>1. n \in Nat
        BY GoodIsOf DEF LifeInv
      <3> QED BY <3>1 DEF NewSession, Session
    <2>3. v.pid = p /\ v.id = id /\ v.scan = Waiting
      BY DEF Watching
    <2> HIDE DEF s, v
    <2>4. \A q \in Pids : sessions'[q] = IF q = p THEN s ELSE sessions[q]
      BY <2>1 DEF IInv, TypeOK
    <2>5. Tracked(p, id)' /\ \A q \in Pids : \A l : Tracked(q, l) /\ q # p => Tracked(q, l)'
      BY <2>2, <2>4 DEF Tracked
    <2>6. \A l \in Launches : ~Tracked(p, l)
      BY <2>1 DEF Tracked
    <2>7. FailedInv'
      <3> SUFFICES ASSUME NEW q \in Registered', sessions'[q].failed PROVE role'[q] = "failing"
        BY DEF FailedInv
      <3>1. q # p /\ q \in Registered /\ sessions'[q] = sessions[q]
        BY <2>2, <2>4 DEF Registered
      <3> QED BY <3>1 DEF LifeInv, FailedInv, processes
    <2>8. \A w \in others : w.pid \in Pids /\ (w.id # Nobody => w.id \in Launches)
      BY DEF Watcher
    <2>9. \A w \in others : w.id # Nobody => w.pid # p
      BY <2>6, <2>8 DEF Threads
    <2>10. Threads(watchers)'
      <3> SUFFICES ASSUME NEW w \in watchers'
                   PROVE  /\ w.scan # Waiting => ~alive[w.pid]
                          /\ w.id # Nobody =>
                                /\ Tracked(w.pid, w.id)'
                                /\ \A u \in watchers' : u.pid = w.pid /\ u.id = w.id => u = w
        BY DEF Threads, processes
      <3>1. CASE w = v
        BY <2>1, <2>3, <2>5, <2>9, <3>1
      <3>2. CASE w # v
        <4>1. w \in others /\ (w.scan # Waiting => ~alive[w.pid])
          BY <2>1, <3>2 DEF Threads
        <4>2. ASSUME w.id # Nobody
              PROVE  /\ Tracked(w.pid, w.id)'
                     /\ \A u \in watchers' : u.pid = w.pid /\ u.id = w.id => u = w
          <5>1. w.pid # p /\ Tracked(w.pid, w.id)
            BY <2>9, <4>1, <4>2 DEF Threads
          <5>2. \A u \in others : u.pid = w.pid /\ u.id = w.id => u = w
            BY <4>1, <4>2 DEF Threads
          <5> QED BY <2>1, <2>3, <2>5, <2>8, <4>1, <5>1, <5>2
        <4> QED BY <4>1, <4>2
      <3> QED BY <3>1, <3>2
    <2>11. \A w \in watchers' : w \in others \/ w.scan = Waiting
      BY <2>1, <2>3
    <2> QED BY <2>5, <2>6, <2>7, <2>10, <2>11
  <1> QED BY <1>1, <1>2

\* There is room, so that a process of a launch is registered, or was.
LEMMA AdmitTracks ==
    ASSUME IInv, LifeInv, Undisturbed, UNCHANGED processes,
           NEW p \in Pids, NEW n, NEW id \in Launches, Good(p, n, id),
           NEW others \in SUBSET Watcher, Threads(others),
           Admit(p, n, id, others)
    PROVE  Tracked(p, id)'
  <1>1. Cardinality(Registered) < MaxSessions
    <2> DEFINE c == Cardinality(Registered)
               d == Cardinality(Pids)
    <2>1. Registered \in SUBSET Pids
      BY DEF Registered
    <2>2. IsFiniteSet(Registered) /\ c <= d
      BY <2>1, FS_Subset
    <2>3. c \in Nat /\ d \in Nat
      BY <2>2, FS_CardinalityType
    <2>4. d < MaxSessions
      BY DEF Undisturbed
    <2> HIDE DEF c, d
    <2>5. c < MaxSessions
      BY <2>2, <2>3, <2>4
    <2> QED BY <2>5 DEF c
  <1>2. id # Nobody
    OBVIOUS
  <1>3. CASE sessions' = sessions
    <2>1. CASE Admissible(p, n, id)
      <3>1. sessions'[p] = NewSession(n, id)
        BY <2>1 DEF Admit, IInv, TypeOK
      <3>2. NewSession(n, id) \in Session /\ NewSession(n, id).id = id
        <4>1. n \in Nat
          BY GoodIsOf DEF LifeInv
        <4> QED BY <4>1 DEF NewSession, Session
      <3> QED BY <3>1, <3>2 DEF Tracked
    <2>2. CASE ~Admissible(p, n, id)
      <3>1. sessions[p] # NoSession /\ (Same(sessions[p], id, n) \/ sessions[p].id # Nobody)
        BY <1>1, <2>2 DEF Admissible
      <3>2. CASE Same(sessions[p], id, n)
        BY <1>3, <3>1, <3>2 DEF Same, Tracked
      <3>3. CASE sessions[p].id # Nobody
        <4>1. Of(p, sessions[p].id)
          BY <3>1, <3>3, KnownAreOf DEF Registered, LifeInv
        <4>2. Of(p, id)
          BY <1>2, GoodIsOf DEF LifeInv
        <4> QED BY <1>3, <3>1, <4>1, <4>2 DEF Of, Tracked
      <3> QED BY <3>1, <3>2, <3>3
    <2> QED BY <2>1, <2>2
  <1>4. CASE sessions' # sessions
    BY <1>2, <1>4, AdmitLife
  <1> QED BY <1>3, <1>4

\* A registration beside the threads as they are.
LEMMA RegistersLife ==
    ASSUME IInv, LifeInv, UNCHANGED <<processes, lifetimes, ended>>,
           NEW p \in Pids, NEW n, NEW id \in Launches \cup {Nobody}, Good(p, n, id),
           Admit(p, n, id, watchers)
    PROVE  LifeInv' /\ LifeStep
  <1>1. watchers \in SUBSET Watcher /\ Threads(watchers) /\ UNCHANGED processes
    BY DEF IInv, TypeOK, LifeInv
  <1>2. /\ FailedInv' /\ Threads(watchers)'
        /\ \A w \in watchers' : w \in watchers \/ w.scan = Waiting
        /\ \A q \in Pids, l \in Launches : Tracked(q, l) => Tracked(q, l)'
    BY <1>1, AdmitLife
  <1>3. /\ OneRun' /\ Lone' /\ Begun' = Begun /\ Living' = Living
        /\ \A q, l : Of(q, l)' <=> Of(q, l)
    BY <1>1, SameProcessesLife DEF LifeInv
  <1>4. FoundInv'
    <2> SUFFICES ASSUME NEW w \in watchers', w.id # Nobody, w.scan # Waiting,
                        NEW q \in Pids, alive'[q], Of(q, w.id)'
                 PROVE  \/ Tracked(q, w.id)' \/ q \in w.scan.left
                        \/ w.scan.entry # NoEntry /\ w.scan.entry.pid = q
      BY DEF FoundInv, Found
    <2>1. w \in watchers /\ w.id \in Launches
      BY <1>2, KnownAreOf DEF LifeInv
    <2>2. Found(w) /\ alive[q] /\ Of(q, w.id)
      BY <1>3, <2>1 DEF FoundInv, LifeInv, processes
    <2> QED BY <1>2, <2>1, <2>2 DEF Found
  <1> QED BY <1>2, <1>3, <1>4 DEF LifeInv, LifeStep

LEMMA RequestsLife ==
    ASSUME IInv, LifeInv, NEW p \in Pids, Register(p) \/ Observe(p)
    PROVE  LifeInv' /\ LifeStep
  <1>1. alive[p] /\ UNCHANGED <<processes, lifetimes, ended>>
    BY DEF Register, Observe
  <1>2. Len(runs[p]) = 1 /\ LaunchOf(p) = runs[p][1]
    BY <1>1, AliveIsOf DEF LifeInv
  <1>3. Good(p, Len(runs[p]), Nobody) /\ Good(p, Len(runs[p]), LaunchOf(p))
    BY <1>2 DEF Good
  <1>4. LaunchOf(p) \in Launches \cup {Nobody}
    <2>1. runs[p] \in Seq(Launches \cup {Nobody})
      BY DEF IInv, TypeOK
    <2>2. 1 \in 1..Len(runs[p])
      BY <1>2
    <2>3. runs[p][1] \in Launches \cup {Nobody}
      BY <2>1, <2>2
    <2> QED BY <1>2, <2>3
  <1> QED BY <1>1, <1>3, <1>4, RegistersLife DEF Register, Observe

LEMMA RecoveryLife ==
    ASSUME IInv, LifeInv, Reconcile \/ RecoveryStep
    PROVE  LifeInv' /\ LifeStep
  <1>1. CASE RecoveryRegisters
    <2> DEFINE e == recovery.entry
    <2>1. recovery \in Scan /\ e # NoEntry /\ e.stage = "ready" /\ ScanGood(recovery, Launches)
      BY <1>1 DEF RecoveryRegisters, Ready, IInv, TypeOK, RecoveryInv
    <2>2. e \in Entry /\ e.pid \in Pids /\ e.run \in Nat /\ e.id \in Launches \cup {Nobody}
      BY <2>1 DEF Scan, Entry
    <2>3. Good(e.pid, e.run, e.id)
      BY <2>1 DEF ScanGood, EntryGood, Good
    <2>4. Admit(e.pid, e.run, e.id, watchers) /\ UNCHANGED <<processes, lifetimes, ended>>
      BY <1>1 DEF RecoveryRegisters
    <2> HIDE DEF e
    <2> QED BY <2>2, <2>3, <2>4, RegistersLife
  <1>2. CASE ~RecoveryRegisters
    <2>1. UNCHANGED <<processes, sessions, watchers, lifetimes, ended>>
      BY <1>2 DEF RecoveryStep, Reconcile, RecoveryScans, RecoveryEnds
    <2>2. LifeInv' /\ Begun' = Begun /\ Living' = Living
      BY <2>1, QuietLife
    <2> QED BY <2>1, <2>2 DEF LifeStep
  <1> QED BY <1>1, <1>2

-----------------------------------------------------------------------------
(* The threads. *)

LEMMA SwapThreads ==
    ASSUME NEW ws, Threads(ws), NEW w \in ws, NEW v, v.pid = w.pid, v.id = w.id,
           v.scan # Waiting => ~alive[w.pid]
    PROVE  Threads((ws \ {w}) \cup {v})
BY DEF Threads

\* A reading that is to see every living process of a launch not yet tracked.
ReadsAll(l, sc) ==
    l # Nobody =>
        \A q \in Pids :
            (alive[q] /\ Of(q, l)) =>
                (Tracked(q, l) \/ q \in sc.left \/ (sc.entry # NoEntry /\ sc.entry.pid = q))

\* A thread that goes on reading, having read what it should.
LEMMA ScanOnLife ==
    ASSUME IInv, LifeInv, NEW w \in watchers, NEW sc, ~alive[w.pid],
           watchers' = (watchers \ {w}) \cup {[w EXCEPT !.scan = sc]},
           ReadsAll(w.id, sc),
           UNCHANGED <<processes, sessions, lifetimes, ended>>
    PROVE  LifeInv' /\ LifeStep
  <1> DEFINE v == [w EXCEPT !.scan = sc]
  <1>1. w \in Watcher
    BY DEF IInv, TypeOK
  <1>2. v.pid = w.pid /\ v.id = w.id /\ v.scan = sc
    BY <1>1 DEF Watcher
  <1> HIDE DEF v
  <1>3. watchers' = (watchers \ {w}) \cup {v}
    BY DEF v
  <1>4. Threads(watchers')
    BY <1>2, <1>3, SwapThreads DEF LifeInv
  <1>5. Threads(watchers)' /\ FailedInv'
    BY <1>4 DEF Threads, Tracked, processes, LifeInv, FailedInv, Registered
  <1>6. /\ OneRun' /\ Lone' /\ Begun' = Begun /\ Living' = Living
        /\ \A q, l : Of(q, l)' <=> Of(q, l)
    BY SameProcessesLife DEF LifeInv
  <1>7. FoundInv'
    <2> SUFFICES ASSUME NEW u \in watchers', u.id # Nobody, u.scan # Waiting,
                        NEW q \in Pids, alive'[q], Of(q, u.id)'
                 PROVE  \/ Tracked(q, u.id)' \/ q \in u.scan.left
                        \/ u.scan.entry # NoEntry /\ u.scan.entry.pid = q
      BY DEF FoundInv, Found
    <2>1. alive[q] /\ Of(q, u.id) /\ (Tracked(q, u.id) => Tracked(q, u.id)')
      BY <1>6 DEF processes, Tracked
    <2>2. CASE u = v
      BY <1>2, <2>1, <2>2 DEF ReadsAll
    <2>3. CASE u # v
      BY <1>3, <2>1, <2>3 DEF LifeInv, FoundInv, Found
    <2> QED BY <2>2, <2>3
  <1> QED BY <1>5, <1>6, <1>7 DEF LifeInv, LifeStep

\* The exit is seen: a wrapper that failed leaves nobody, and any other process
\* the living ones that are listed.
LEMMA ExitSeenLife ==
    ASSUME IInv, LifeInv, NEW w \in watchers, ExitSeen(w)
    PROVE  LifeInv' /\ LifeStep
  <1> DEFINE sc == Handoff(w)
  <1>1. /\ ~Alive(w.pid, w.run)
        /\ watchers' = (watchers \ {w}) \cup {[w EXCEPT !.scan = sc]}
        /\ UNCHANGED <<processes, sessions, lifetimes, ended>>
    BY DEF ExitSeen
  <1>2. /\ w.pid \in Pids /\ w.run = 1 /\ Len(runs[w.pid]) = 1
        /\ w.id \in Launches \cup {Nobody} /\ (w.id # Nobody => Of(w.pid, w.id))
    BY KnownAreOf DEF LifeInv
  <1>3. ~alive[w.pid]
    BY <1>1, <1>2 DEF Alive
  <1>4. ASSUME w.id # Nobody, NEW q \in Pids, alive[q], Of(q, w.id)
        PROVE  q \in sc.left
    <2>1. Tracked(w.pid, w.id)
      BY <1>4 DEF LifeInv, Threads
    <2>2. CASE sessions[w.pid].failed
      <3>1. role[w.pid] = "failing"
        BY <1>2, <2>1, <2>2 DEF LifeInv, FailedInv, Registered, Tracked
      <3>2. w.pid = q
        BY <1>2, <1>4, <3>1 DEF LifeInv, Lone
      <3> QED BY <1>3, <1>4, <3>2
    <2>3. CASE ~sessions[w.pid].failed
      <3>1. sc = [Listing EXCEPT !.left = @ \ {w.pid}]
        BY <1>4, <2>1, <2>3 DEF Handoff, Same, Tracked
      <3>2. sc.left = {p \in Pids : alive[p]} \ {w.pid}
        BY <3>1 DEF Listing
      <3> QED BY <1>3, <1>4, <3>2
    <2> QED BY <2>2, <2>3
  <1> HIDE DEF sc
  <1>5. ReadsAll(w.id, sc)
    BY <1>4 DEF ReadsAll
  <1> QED BY <1>1, <1>3, <1>5, ScanOnLife

\* A step of the reading loses no process of the launch: another one than the
\* wrapper is a game, so that its environment names the launch.
LEMMA ScanFinds ==
    ASSUME IInv, LifeInv, NEW w \in watchers, w.id # Nobody, w.scan # Waiting,
           NEW new \in ScanSteps(w.scan, {w.id}),
           NEW q \in Pids, alive[q], Of(q, w.id)
    PROVE  Tracked(q, w.id) \/ q \in new.left \/ (new.entry # NoEntry /\ new.entry.pid = q)
  <1> DEFINE sc == w.scan
  <1>1. /\ sc \in Scan /\ WatcherGood(w) /\ ScanGood(sc, {w.id})
        /\ Tracked(q, w.id) \/ q \in sc.left \/ (sc.entry # NoEntry /\ sc.entry.pid = q)
    BY DEF IInv, TypeOK, Watcher, WatchersInv, WatcherGood, LifeInv, FoundInv, Found
  <1>2. ~alive[w.pid] /\ w.pid \in Pids /\ Of(w.pid, w.id) /\ w.id \in Launches
    BY KnownAreOf DEF LifeInv, Threads
  <1>3. role[q] = "game"
    BY <1>2 DEF LifeInv, Lone
  <1>4. Len(runs[q]) = 1 /\ LaunchOf(q) = w.id
    BY DEF Of, LaunchOf
  <1> HIDE DEF sc
  <1>5. CASE sc.entry = NoEntry
    <2>1. PICK p \in sc.left : new = OpenEntry(sc, p)
      BY <1>5 DEF ScanSteps, sc
    <2>2. CASE q = p
      <3> DEFINE e == [pid |-> p, run |-> Len(runs[p]), id |-> Nobody, stage |-> "opened"]
      <3>1. new.entry = e
        BY <2>1, <2>2 DEF OpenEntry
      <3>2. e \in Entry /\ e.pid = q
        BY <1>4, <2>2 DEF Entry
      <3> HIDE DEF e
      <3> QED BY <3>1, <3>2
    <2>3. CASE q # p
      <3>1. new.left = sc.left \ {p}
        BY <2>1 DEF OpenEntry
      <3> QED BY <1>1, <1>5, <2>3, <3>1
    <2> QED BY <2>2, <2>3
  <1>6. CASE sc.entry # NoEntry
    <2> DEFINE e == sc.entry
    <2>1. e \in Entry /\ sc = [left |-> sc.left, entry |-> e] /\ EntryGood(e)
      BY <1>1, <1>6 DEF Scan, ScanGood
    <2>2. e = [pid |-> e.pid, run |-> e.run, id |-> e.id, stage |-> e.stage]
          /\ e.stage \in {"opened", "read", "ready"}
      BY <2>1 DEF Entry
    <2>3. new \in {ReadEnviron(sc, {w.id}), Readiness(sc)}
      BY <1>6, <2>2 DEF ScanSteps, sc
    <2>4. new.left = sc.left
      BY <2>1, <2>3 DEF ReadEnviron, Readiness
    <2>5. CASE e.pid = q /\ e.stage = "opened"
      <3> DEFINE f == [pid |-> q, run |-> e.run, id |-> w.id, stage |-> "read"]
      <3>1. new = ReadEnviron(sc, {w.id})
        BY <1>6, <2>5 DEF ScanSteps, sc
      <3>2. new = [sc EXCEPT !.entry.id = w.id, !.entry.stage = "read"]
        BY <1>3, <1>4, <2>5, <3>1 DEF ReadEnviron
      <3>3. new.entry = f
        BY <2>1, <2>2, <2>5, <3>2
      <3>4. f \in Entry /\ f.pid = q
        BY <1>2, <2>1 DEF Entry
      <3> HIDE DEF f
      <3> QED BY <3>3, <3>4
    <2>6. CASE e.pid = q /\ e.stage = "read"
      <3> DEFINE f == [pid |-> q, run |-> e.run, id |-> e.id, stage |-> "ready"]
      <3>1. new = Readiness(sc)
        BY <1>6, <2>6 DEF ScanSteps, sc
      <3>2. e.run = 1
        <4>1. e.run \in 1..Len(runs[q])
          BY <2>1, <2>6 DEF EntryGood
        <4>2. e.run \in 1..1
          BY <1>4, <4>1
        <4> QED BY <4>2
      <3>3. new = [sc EXCEPT !.entry.stage = "ready"]
        BY <1>4, <2>6, <3>1, <3>2 DEF Readiness, Alive
      <3>4. new.entry = f
        BY <2>1, <2>2, <2>6, <3>3
      <3>5. f \in Entry /\ f.pid = q
        BY <2>1 DEF Entry
      <3> HIDE DEF f
      <3> QED BY <3>4, <3>5
    <2>7. CASE e.stage = "ready"
      BY <1>6, <2>7 DEF ScanSteps, sc
    <2> QED BY <1>1, <2>2, <2>4, <2>5, <2>6, <2>7
  <1> QED BY <1>5, <1>6

LEMMA HandoffScansLife ==
    ASSUME IInv, LifeInv, NEW w \in watchers, HandoffScans(w)
    PROVE  LifeInv' /\ LifeStep
  <1>1. /\ w.scan # Waiting /\ UNCHANGED <<processes, sessions, lifetimes, ended>>
        /\ \E new \in ScanSteps(w.scan, {w.id}) :
              watchers' = (watchers \ {w}) \cup {[w EXCEPT !.scan = new]}
    BY DEF HandoffScans
  <1>2. PICK new \in ScanSteps(w.scan, {w.id}) :
           watchers' = (watchers \ {w}) \cup {[w EXCEPT !.scan = new]}
    BY <1>1
  <1>3. ~alive[w.pid]
    BY <1>1 DEF LifeInv, Threads
  <1>4. ReadsAll(w.id, new)
    BY <1>1, ScanFinds DEF ReadsAll
  <1> QED BY <1>1, <1>2, <1>3, <1>4, ScanOnLife

LEMMA HandoffRegistersLife ==
    ASSUME IInv, LifeInv, Undisturbed, NEW w \in watchers, HandoffRegisters(w)
    PROVE  LifeInv' /\ LifeStep
  <1> DEFINE e == w.scan.entry
             v == [w EXCEPT !.scan.entry = NoEntry]
             others == (watchers \ {w}) \cup {v}
  <1>1. w \in Watcher /\ WatcherGood(w) /\ w.scan \in Scan /\ e # NoEntry /\ e.stage = "ready"
        /\ w.scan # Waiting
    BY DEF IInv, TypeOK, Watcher, WatchersInv, HandoffRegisters, Ready
  <1>2. e \in Entry /\ e.pid \in Pids /\ e.run \in Nat /\ EntryGood(e) /\ e.id \in {w.id}
    BY <1>1 DEF Scan, Entry, WatcherGood, ScanGood
  <1>3. Good(e.pid, e.run, w.id) /\ w.id \in Launches \cup {Nobody}
    BY <1>1, <1>2 DEF EntryGood, Good, Watcher
  <1>4. [w.scan EXCEPT !.entry = NoEntry] = [left |-> w.scan.left, entry |-> NoEntry]
        /\ w.scan.left \in SUBSET Pids
    BY <1>1 DEF Scan
  <1>5. /\ v \in Watcher /\ v.pid = w.pid /\ v.id = w.id
        /\ v.scan.left = w.scan.left
    <2>1. v = [w EXCEPT !.scan = [left |-> w.scan.left, entry |-> NoEntry]]
      BY <1>1, <1>4 DEF Watcher
    <2> QED BY <1>1, <1>4, <2>1, ListingGood DEF Watcher
  <1>6. Admit(e.pid, e.run, w.id, others) /\ UNCHANGED <<processes, lifetimes, ended>>
    BY DEF HandoffRegisters
  <1>7. ~alive[w.pid] /\ (w.id # Nobody => Found(w))
    BY <1>1 DEF LifeInv, Threads, FoundInv
  <1> HIDE DEF v
  <1>8. others \in SUBSET Watcher
    BY <1>5 DEF IInv, TypeOK
  <1>9. Threads(others)
    BY <1>5, <1>7, SwapThreads DEF LifeInv
  <1>10. e \in Entry /\ e.pid = w.scan.entry.pid
    BY <1>2
  <1>11. \A u \in others : u = v \/ u \in watchers
    OBVIOUS
  <1> HIDE DEF others, e
  <1>12. /\ FailedInv' /\ Threads(watchers)'
         /\ \A u \in watchers' : u \in others \/ u.scan = Waiting
         /\ \A q \in Pids, l \in Launches : Tracked(q, l) => Tracked(q, l)'
    BY <1>2, <1>3, <1>6, <1>8, <1>9, AdmitLife
  <1>13. w.id # Nobody => Tracked(e.pid, w.id)'
    BY <1>2, <1>3, <1>6, <1>8, <1>9, AdmitTracks
  <1>14. /\ OneRun' /\ Lone' /\ Begun' = Begun /\ Living' = Living
         /\ \A q, l : Of(q, l)' <=> Of(q, l)
    BY <1>6, SameProcessesLife DEF LifeInv
  <1>15. FoundInv'
    <2> SUFFICES ASSUME NEW u \in watchers', u.id # Nobody, u.scan # Waiting,
                        NEW q \in Pids, alive'[q], Of(q, u.id)'
                 PROVE  \/ Tracked(q, u.id)' \/ q \in u.scan.left
                        \/ u.scan.entry # NoEntry /\ u.scan.entry.pid = q
      BY DEF FoundInv, Found
    <2>1. alive[q] /\ Of(q, u.id)
      BY <1>6, <1>14 DEF processes
    <2>2. u = v \/ u \in watchers
      BY <1>11, <1>12
    <2>3. CASE u = v
      <3>1. w.id # Nobody /\ w.id \in Launches /\ Of(q, w.id)
        BY <1>3, <1>5, <2>1, <2>3
      <3>2. Tracked(q, w.id) \/ q \in w.scan.left \/ q = e.pid
        BY <1>7, <1>10, <2>1, <3>1 DEF Found
      <3> QED BY <1>5, <1>12, <1>13, <2>3, <3>1, <3>2
    <2>4. CASE u \in watchers
      <3>1. u.id \in Launches /\ Found(u)
        BY <2>4, KnownAreOf DEF LifeInv, FoundInv
      <3> QED BY <1>12, <2>1, <3>1 DEF Found
    <2> QED BY <2>2, <2>3, <2>4
  <1> QED BY <1>6, <1>12, <1>14, <1>15 DEF LifeInv, LifeStep

\* The last session of a launch goes: its thread has found nobody else.
LEMMA RemoveLife ==
    ASSUME IInv, LifeInv, NEW w \in watchers, Remove(w)
    PROVE  LifeInv' /\ LifeStep
  <1>1. w.scan = Scanned /\ w.scan # Waiting /\ watchers' = watchers \ {w} /\ UNCHANGED processes
    BY ListingGood DEF Remove, Scanned
  <1>2. /\ w.pid \in Pids /\ w.id \in Launches \cup {Nobody} /\ ~alive[w.pid]
        /\ w.id # Nobody => Tracked(w.pid, w.id) /\ Found(w)
    BY <1>1, KnownAreOf DEF LifeInv, Threads, FoundInv
  <1>3. \A q \in Pids : \/ sessions'[q] = sessions[q]
                        \/ /\ q = w.pid /\ sessions[q] # NoSession /\ sessions[q].id = w.id
                           /\ sessions'[q] = NoSession
    BY <1>2 DEF Remove, Same, IInv, TypeOK
  <1>4. \A q \in Pids : \A l : Tracked(q, l) /\ (q # w.pid \/ l # w.id) => Tracked(q, l)'
    BY <1>3 DEF Tracked
  <1>5. /\ OneRun' /\ Lone' /\ Begun' = Begun /\ Living' = Living
        /\ \A q, l : Of(q, l)' <=> Of(q, l)
    BY <1>1, SameProcessesLife DEF LifeInv
  <1>6. FailedInv'
    BY <1>1, <1>3 DEF LifeInv, FailedInv, Registered, processes
  <1>7. Threads(watchers)'
    <2> SUFFICES ASSUME NEW u \in watchers, u # w
                 PROVE  /\ u.scan # Waiting => ~alive[u.pid]
                        /\ u.id # Nobody =>
                              /\ Tracked(u.pid, u.id)'
                              /\ \A v \in watchers : v.pid = u.pid /\ v.id = u.id => v = u
      BY <1>1 DEF Threads, processes
    <2>1. /\ u.scan # Waiting => ~alive[u.pid]
          /\ u.id # Nobody => /\ Tracked(u.pid, u.id)
                              /\ \A v \in watchers : v.pid = u.pid /\ v.id = u.id => v = u
      BY DEF LifeInv, Threads
    <2>2. u.id # Nobody => u.pid # w.pid \/ u.id # w.id
      BY <2>1
    <2>3. u.pid \in Pids
      BY KnownAreOf DEF LifeInv
    <2> QED BY <1>4, <2>1, <2>2, <2>3
  <1>8. FoundInv'
    <2> SUFFICES ASSUME NEW u \in watchers, u # w, u.id # Nobody, u.scan # Waiting,
                        NEW q \in Pids, alive[q], Of(q, u.id)
                 PROVE  \/ Tracked(q, u.id)' \/ q \in u.scan.left
                        \/ u.scan.entry # NoEntry /\ u.scan.entry.pid = q
      BY <1>1, <1>5 DEF FoundInv, Found, processes
    <2>1. Found(u) /\ q # w.pid
      BY <1>2 DEF LifeInv, FoundInv
    <2> QED BY <1>4, <2>1 DEF Found
  <1>9. LifeStep
    <2> DEFINE last == \A q \in Registered \ {w.pid} : sessions[q].id # w.id
    <2>1. \/ lifetimes' = lifetimes /\ ended' = ended
          \/ /\ last /\ lifetimes' = lifetimes \ {w.id}
             /\ ended' = ended \cup ({w.id} \cap lifetimes)
      BY DEF Remove
    <2>2. CASE lifetimes' = lifetimes /\ ended' = ended
      BY <1>5, <2>2 DEF LifeStep
    <2>3. CASE w.id \notin lifetimes /\ lifetimes' = lifetimes \ {w.id}
               /\ ended' = ended \cup ({w.id} \cap lifetimes)
      <3>1. lifetimes' = lifetimes /\ ended' = ended
        BY <2>3
      <3> QED BY <1>5, <3>1 DEF LifeStep
    <2>4. CASE w.id \in lifetimes /\ last /\ lifetimes' = lifetimes \ {w.id}
               /\ ended' = ended \cup ({w.id} \cap lifetimes)
      <3>1. w.id \in Launches /\ w.id # Nobody
        BY <2>4 DEF IInv, TypeOK
      <3>2. w.scan.left = {} /\ w.scan.entry = NoEntry
        BY <1>1 DEF Scanned
      <3>3. ASSUME NEW q \in Pids, alive[q], Of(q, w.id) PROVE FALSE
        <4>1. Tracked(q, w.id)
          BY <1>2, <3>1, <3>2, <3>3 DEF Found
        <4>2. q \in Registered \ {w.pid} /\ sessions[q].id = w.id
          BY <1>2, <3>3, <4>1 DEF Tracked, Registered
        <4> QED BY <2>4, <4>2
      <3>4. w.id \notin Living
        BY <3>3, BegunLiving DEF LifeInv
      <3>5. ended' = ended \cup {w.id}
        BY <2>4
      <3>6. Lifetime!Close(w.id)
        BY <1>5, <2>4, <3>4, <3>5 DEF Lifetime!Close, Begun, Living
      <3> QED BY <3>1, <3>6 DEF LifeStep
    <2> HIDE DEF last
    <2> QED BY <2>1, <2>2, <2>3, <2>4
  <1> QED BY <1>5, <1>6, <1>7, <1>8, <1>9 DEF LifeInv

LEMMA CrashLife ==
    ASSUME LifeInv, Crash
    PROVE  LifeInv' /\ LifeStep
  <1>1. /\ UNCHANGED processes /\ watchers' = {} /\ lifetimes' = {} /\ ended' = {}
        /\ sessions' = [p \in Pids |-> NoSession]
    BY DEF Crash
  <1>2. FailedInv' /\ Threads(watchers)' /\ FoundInv'
    BY <1>1 DEF FailedInv, Registered, Threads, FoundInv
  <1>3. OneRun' /\ Lone' /\ Begun' = Begun /\ Living' = Living
    BY <1>1, SameProcessesLife DEF LifeInv
  <1>4. Lifetime!Restart
    BY <1>1, <1>3 DEF Lifetime!Restart, Begun, Living
  <1> QED BY <1>2, <1>3, <1>4 DEF LifeInv, LifeStep

LEMMA NextLife ==
    ASSUME IInv, LifeInv, Undisturbed, [Next]_vars
    PROVE  LifeInv' /\ LifeStep
  <1>1. IInv'
    BY NextKeeps
  <1>2. CASE Processes
    BY <1>1, <1>2, StartsLife, ExitLife, ExecFailLife DEF Processes
  <1>3. CASE Requests
    BY <1>3, RequestsLife, WatchLifetimeLife, RecoveryLife DEF Requests
  <1>4. ASSUME NEW w \in watchers, WatcherStep(w) PROVE LifeInv' /\ LifeStep
    BY <1>4, ExitSeenLife, HandoffScansLife, HandoffRegistersLife, RemoveLife DEF WatcherStep
  <1>5. CASE RecoveryStep
    BY <1>5, RecoveryLife
  <1>6. CASE Crash
    BY <1>6, CrashLife
  <1>7. CASE UNCHANGED vars
    <2>1. UNCHANGED <<processes, sessions, watchers, lifetimes, ended>>
      BY <1>7 DEF vars, processes
    <2> QED BY <2>1, QuietLife DEF LifeStep
  <1> QED BY <1>2, <1>3, <1>4, <1>5, <1>6, <1>7 DEF Next

\* The handles. For any number of launches, processes and restarts, with every
\* scan of /proc in single steps: a handle that a game watch holds is closed only
\* when no process of its launch lives. (That it is then closed is the fairness
\* part of ImplementsLifetime.)
THEOREM HandlesFollowLaunches ==
    ASSUME Undisturbed
    PROVE  Spec => Lifetime!Init /\ [][Lifetime!Next]_(Lifetime!vars)
  <1> DEFINE Inv == IInv /\ LifeInv
  <1>1. Init => Inv /\ Lifetime!Init
    <2> SUFFICES ASSUME Init PROVE Inv /\ Lifetime!Init
      OBVIOUS
    <2>1. IInv
      BY Initially
    <2>2. \A p \in Pids : Len(runs[p]) = 0
      BY DEF Init
    <2>3. LifeInv
      BY <2>2 DEF Init, LifeInv, OneRun, Lone, Of, FailedInv, Registered, Threads, FoundInv
    <2>4. Begun = {} /\ Living = {}
      BY <2>1, <2>2, <2>3, BegunLiving DEF LifeInv, Of
    <2> QED BY <2>1, <2>3, <2>4 DEF Init, Lifetime!Init, Begun, Living
  <1>2. Inv /\ [Next]_vars => Inv' /\ [Lifetime!Next]_(Lifetime!vars)
    <2> SUFFICES ASSUME Inv, [Next]_vars PROVE Inv' /\ [Lifetime!Next]_(Lifetime!vars)
      OBVIOUS
    <2>1. IInv' /\ LifeInv' /\ LifeStep
      BY NextKeeps, NextLife
    <2> QED BY <2>1 DEF LifeStep, Lifetime!Next, Lifetime!vars, Begun, Living
  <1> HIDE DEF Inv
  <1> QED BY <1>1, <1>2, PTL DEF Spec

=============================================================================
