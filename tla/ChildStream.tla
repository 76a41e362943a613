---------------------------- MODULE ChildStream ----------------------------
(***************************************************************************)
(* How a running Auto-UV scan is told to stop: burnerd/src/scan.rs streams *)
(* the output of the child to the client that started it, a stop request   *)
(* writes a marker file and sends SIGINT, and so does the streaming thread *)
(* once it notices that its client is gone, before it hands the child to a *)
(* monitor that kills it if need be. The marker is one file for all scans; *)
(* the child clears it when it starts, polls it while it probes, and reads *)
(* from it whether to offer the candidates found so far.                   *)
(*                                                                         *)
(* The engines that begin_child stops and finish_child brings back are in  *)
(* Supervisor; profile verification streams alike, with its own marker.    *)
(***************************************************************************)
EXTENDS Naturals

CONSTANTS
    MaxChildren,  \* scans started
    NoMarker

Children == 1..MaxChildren

Marker == [for : Children, abort : BOOLEAN]

ASSUME ChildStreamAssumption ==
    MaxChildren \in Nat /\ NoMarker \notin Marker

VARIABLES
    slot,      \* the generation that the supervisor holds, or 0
    begun,     \* the last generation handed out
    stop,      \* the stop request that has the lock: its child (or 0) and progress
    marker,    \* the stop marker: for whom it was meant and its reason, or NoMarker
    child,     \* what each child is doing
    signals,   \* the signals it has yet to notice
    left,      \* the children whose client has gone
    stream     \* what the thread that looks after each child is doing

vars == <<slot, begun, stop, marker, child, signals, left, stream>>

\* Types, that a child exists once its generation was handed out, and that a
\* stop request keeps its child in the slot.
TypeOK ==
    /\ begun \in 0..MaxChildren
    /\ slot \in 0..begun
    /\ stop \in [to : {0, slot}, marked : BOOLEAN]
    /\ marker \in Marker \cup {NoMarker}
    /\ child \in [Children -> {"none", "starting", "searching", "choosing", "hung", "gone"}]
    /\ signals \in [Children -> SUBSET {"INT", "TERM", "KILL"}]
    /\ left \subseteq Children
    /\ stream \in [Children -> {"none", "started", "streaming", "leaving", "marking",
                                "interrupting", "waiting", "terminated", "killed",
                                "finishing", "done"}]
    /\ \A g \in Children : child[g] = "none" <=> g > begun

NoStop == [to |-> 0, marked |-> FALSE]

Init ==
    /\ slot = 0 /\ begun = 0 /\ stop = NoStop
    /\ marker = NoMarker
    /\ child = [g \in Children |-> "none"]
    /\ signals = [g \in Children |-> {}]
    /\ left = {}
    /\ stream = [g \in Children |-> "none"]

Runs(g) == child[g] \in {"starting", "searching", "choosing", "hung"}

\* ChildProc::signal: a child that was reaped is never signalled.
Signalled(g, sig) ==
    IF Runs(g) THEN [signals EXCEPT ![g] = @ \cup {sig}] ELSE signals

\* Mutant: stop_child gives the lock up before it writes and signals.
BugLockFree == TRUE

\* Nobody is between two steps with the supervisor's lock.
LockFree == stop = NoStop

-----------------------------------------------------------------------------
(* Requests. *)

\* begin_child: a child that has exited does not refuse the next one.
Begin ==
    /\ LockFree
    /\ slot # 0 => ~Runs(slot)
    /\ begun < MaxChildren
    /\ begun' = begun + 1
    /\ slot' = begun'
    /\ marker' = NoMarker
    /\ child' = [child EXCEPT ![begun'] = "starting"]
    /\ stream' = [stream EXCEPT ![begun'] = "started"]
    /\ UNCHANGED <<stop, signals, left>>

\* stop_child takes the lock and finds the child running.
Stop ==
    /\ LockFree
    /\ slot # 0 /\ Runs(slot)
    /\ stop' = [to |-> slot, marked |-> FALSE]
    /\ UNCHANGED <<slot, begun, marker, child, signals, left, stream>>

\* It writes the marker that lets the scan offer what it has.
StopMarks ==
    /\ stop.to # 0 /\ ~stop.marked
    /\ stop' = [stop EXCEPT !.marked = TRUE]
    /\ marker' = [for |-> stop.to, abort |-> FALSE]
    /\ UNCHANGED <<slot, begun, child, signals, left, stream>>

\* Mutant: the marker alone is trusted, and nothing is sent.
BugStopSignals ==
    /\ stop.marked
    /\ stop' = NoStop
    /\ UNCHANGED <<slot, begun, marker, child, signals, left, stream>>

\* It sends SIGINT and gives the lock up.
StopSignals ==
    /\ stop.marked
    /\ stop' = NoStop
    /\ signals' = Signalled(stop.to, "INT")
    /\ UNCHANGED <<slot, begun, marker, child, left, stream>>

-----------------------------------------------------------------------------
(* The child: auto_uv, as a process. *)

Child(g, does) ==
    /\ child' = [child EXCEPT ![g] = does]
    /\ UNCHANGED <<slot, begun, stop, left, stream>>

\* The scan clears the marker before it begins to probe.
Starts(g) ==
    /\ child[g] = "starting"
    /\ marker' = NoMarker
    /\ UNCHANGED signals
    /\ Child(g, "searching")

\* The search is over: the user chooses, and the choice is verified.
Searched(g) ==
    /\ child[g] = "searching"
    /\ UNCHANGED <<marker, signals>>
    /\ Child(g, "choosing")

\* SIGINT, noticed at any time, or the marker, noticed by a poll. Only a search
\* that is not told to abort, and was started to end in a choice, offers one.
Interrupted(g) ==
    /\ Runs(g) /\ child[g] # "hung"
    /\ \/ "INT" \in signals[g] /\ signals' = [signals EXCEPT ![g] = @ \ {"INT"}]
       \/ child[g] # "starting" /\ marker # NoMarker /\ UNCHANGED signals
    /\ \/ child[g] = "searching" /\ (marker # NoMarker => ~marker.abort)
          /\ marker' = NoMarker /\ Child(g, "choosing")
       \/ child[g] = "searching" /\ marker' = NoMarker /\ Child(g, "gone")
       \/ UNCHANGED marker /\ Child(g, "gone")

\* It is caught in a driver call that does not return: only a kill ends it.
Hangs(g) ==
    /\ Runs(g) /\ child[g] # "hung"
    /\ UNCHANGED <<marker, signals>>
    /\ Child(g, "hung")

\* The scan ends by itself or dies.
Ends(g) ==
    /\ Runs(g)
    /\ UNCHANGED <<marker, signals>>
    /\ Child(g, "gone")

Killed(g) ==
    /\ Runs(g) /\ "KILL" \in signals[g]
    /\ UNCHANGED <<marker, signals>>
    /\ Child(g, "gone")

-----------------------------------------------------------------------------
(* The thread that looks after the child, and the monitor it leaves behind. *)

Leave(g) ==
    /\ stream[g] \in {"started", "streaming"} /\ g \notin left
    /\ left' = left \cup {g}
    /\ UNCHANGED <<slot, begun, stop, marker, child, signals, stream>>

Thread(g, from, to) ==
    /\ stream[g] = from
    /\ stream' = [stream EXCEPT ![g] = to]
    /\ UNCHANGED <<slot, begun, stop, child, left>>

\* run_child announces the child; a client already gone is a disconnect.
Announce(g) ==
    /\ Thread(g, "started", IF g \in left THEN "marking" ELSE "streaming")
    /\ UNCHANGED <<marker, signals>>

\* stream_stdout cannot write a line to a client that has gone ...
Relay(g) ==
    /\ g \in left
    /\ Thread(g, "streaming", "leaving")
    /\ UNCHANGED <<marker, signals>>

\* ... or reads to the end, which it reaches once the child has gone.
EndOfOutput(g) ==
    /\ ~Runs(g)
    /\ Thread(g, "streaming", "finishing")
    /\ UNCHANGED <<marker, signals>>

\* With the client gone it polls the child: gone as well, or to be ended.
Poll(g) ==
    /\ Thread(g, "leaving", IF Runs(g) THEN "marking" ELSE "finishing")
    /\ UNCHANGED <<marker, signals>>

\* disconnect_cleanup writes the marker, without the supervisor's lock, ...
Mark(g) ==
    /\ Thread(g, "marking", "interrupting")
    /\ marker' = [for |-> g, abort |-> TRUE]
    /\ UNCHANGED signals

\* ... sends SIGINT and starts the monitor.
Interrupt(g) ==
    /\ Thread(g, "interrupting", "waiting")
    /\ signals' = Signalled(g, "INT")
    /\ UNCHANGED marker

\* wait_for_detached_child: no exit in kill_after, SIGTERM; none in term_grace,
\* SIGKILL.
Terminate(g) ==
    /\ Runs(g)
    /\ Thread(g, "waiting", "terminated")
    /\ signals' = Signalled(g, "TERM")
    /\ UNCHANGED marker

\* Mutant: the ladder has no last rung.
BugKill(g) ==
    /\ Runs(g)
    /\ Thread(g, "terminated", "killed")
    /\ UNCHANGED <<marker, signals>>

Kill(g) ==
    /\ Runs(g)
    /\ Thread(g, "terminated", "killed")
    /\ signals' = Signalled(g, "KILL")
    /\ UNCHANGED marker

\* Mutant: once kill_grace is over the monitor no longer waits for the exit.
BugReap(g) ==
    /\ \/ ~Runs(g) /\ \E on \in {"waiting", "terminated"} : Thread(g, on, "finishing")
       \/ Thread(g, "killed", "finishing")
    /\ UNCHANGED <<marker, signals>>

\* The monitor sees the child's exit, on whichever rung it is.
Reap(g) ==
    /\ ~Runs(g)
    /\ \E on \in {"waiting", "terminated", "killed"} : Thread(g, on, "finishing")
    /\ UNCHANGED <<marker, signals>>

\* finish_child clears the slot if it still holds this child.
Finish(g) ==
    /\ LockFree
    /\ stream[g] = "finishing"
    /\ stream' = [stream EXCEPT ![g] = "done"]
    /\ slot' = IF slot = g THEN 0 ELSE slot
    /\ UNCHANGED <<begun, stop, marker, child, signals, left>>

-----------------------------------------------------------------------------

Requests == Begin \/ Stop \/ StopMarks \/ StopSignals

ChildStep(g) ==
    Starts(g) \/ Searched(g) \/ Interrupted(g) \/ Hangs(g) \/ Ends(g) \/ Killed(g)

Monitor(g) == Mark(g) \/ Interrupt(g) \/ Terminate(g) \/ Kill(g) \/ Reap(g) \/ Finish(g)

Next ==
    \/ Requests
    \/ \E g \in Children :
          ChildStep(g) \/ Leave(g) \/ Announce(g) \/ Relay(g) \/ EndOfOutput(g)
             \/ Poll(g) \/ Monitor(g)

\* The daemon's threads run on, the kernel ends a killed process, and a child
\* that does not hang gets past its start and notices that it is to stop.
Fairness ==
    /\ WF_vars(StopMarks \/ StopSignals)
    /\ \A g \in Children :
          /\ WF_vars(Monitor(g)) /\ SF_vars(Finish(g)) /\ WF_vars(Killed(g))
          /\ WF_vars(Starts(g)) /\ WF_vars(Interrupted(g))

Spec == Init /\ [][Next]_vars /\ Fairness

-----------------------------------------------------------------------------
(* Properties. *)

\* A child that runs is the one that the supervisor knows, so there is never a
\* second one: the slot is not given up while a child that was killed lingers
\* (wait_for_detached_child), and engines are not started next to it.
OneChild == \A g \in Children : Runs(g) => slot = g

\* A stop request is never heard by a scan that it was not made for: the marker
\* that a scan can find while it probes was written for it, or by the cleanup
\* after a client that left (disconnect_cleanup writes without the lock).
NoStray ==
    \A g \in Children :
        child[g] \in {"searching", "choosing"} /\ marker # NoMarker =>
            marker.for = g \/ (marker.abort /\ marker.for \in left)

\* A scan that is asked to stop leaves its search unless it hangs, also when the
\* request comes before the scan has cleared the marker.
StopIsHeard ==
    \A g \in Children : stop.to = g ~> child[g] \in {"choosing", "hung", "gone"}

\* When the daemon notices that the client has gone the scan ends and gives the
\* GPU back, whatever the child does.
LeaverEnds == \A g \in Children : stream[g] = "marking" ~> slot # g /\ ~Runs(g)
=============================================================================
