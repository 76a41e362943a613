----------------------------- MODULE MCSessions -----------------------------
(***************************************************************************)
(* Instances of Sessions: which processes there are is up to the system,   *)
(* so each run restricts it to the ones its question needs.                *)
(***************************************************************************)
EXTENDS Sessions

\* Processes of launches only.
LaunchProcesses ==
    \/ \E p \in Pids : Exec(p) \/ Fail(p) \/ Exit(p)
    \/ \E p \in Pids, l \in Launches : Launch(p, l)
    \/ \E p, q \in Pids : Fork(p, q)

\* A scan that a client asks for comes before a third process does.
EarlyReconcile == Cardinality({p \in Pids : runs[p] # <<>>}) <= 2 /\ Reconcile

LaunchNext ==
    \/ LaunchProcesses
    \/ \E p \in Pids : Register(p) \/ Observe(p) \/ WatchLifetime(p)
    \/ EarlyReconcile
    \/ \E w \in watchers : WatcherStep(w)
    \/ RecoveryStep
    \/ Crash

LaunchSpec == Init /\ [][LaunchNext]_vars /\ Scheduled
=============================================================================
