------------------------- MODULE ChildStream_proofs -------------------------
(***************************************************************************)
(* For any number of scans: the slot holds the child that runs, and the    *)
(* marker of a stop request is never found by another scan than its own.   *)
(***************************************************************************)
EXTENDS ChildStream, TLAPS

\* The thread of a child exists with it, and finish_child is reached only once
\* the child has gone.
Threads ==
    \A g \in Children :
        /\ stream[g] = "none" <=> child[g] = "none"
        /\ stream[g] \in {"finishing", "done"} => child[g] = "gone"

\* Only the cleanup after a client that left writes a marker that aborts.
Aborts ==
    /\ \A g \in Children : stream[g] \in {"leaving", "marking"} => g \in left
    /\ marker # NoMarker /\ marker.abort => marker.for \in left

IInv == TypeOK /\ OneChild /\ Threads /\ Aborts /\ NoStray

LEMMA InitIInv == Init => IInv
  BY ChildStreamAssumption
     DEF Init, IInv, TypeOK, OneChild, Threads, Aborts, NoStray, Children, NoStop, Runs

\* A step of the child leaves the slot and the threads alone; it can only touch
\* the marker by clearing it.
LEMMA ChildKeepsIInv ==
  ASSUME IInv, NEW g \in Children, ChildStep(g)
  PROVE  IInv'
<1>1. PICK does \in {"searching", "choosing", "hung", "gone"} : Child(g, does)
  BY DEF ChildStep, Starts, Searched, Interrupted, Hangs, Ends, Killed
<1>2. child[g] \in {"starting", "searching", "choosing", "hung"}
  BY DEF ChildStep, Starts, Searched, Interrupted, Hangs, Ends, Killed, Runs
<1>3. marker' \in {marker, NoMarker}
  BY DEF ChildStep, Starts, Searched, Interrupted, Hangs, Ends, Killed
<1>4. signals' \in [Children -> SUBSET {"INT", "TERM", "KILL"}]
  BY DEF ChildStep, Starts, Searched, Interrupted, Hangs, Ends, Killed, IInv, TypeOK
<1>5. child' = [child EXCEPT ![g] = does] /\ UNCHANGED <<slot, begun, stop, left, stream>>
  BY <1>1 DEF Child
<1>6. TypeOK'
  BY <1>2, <1>3, <1>4, <1>5 DEF IInv, TypeOK, Children
<1>7. OneChild'
  BY <1>2, <1>5 DEF IInv, TypeOK, OneChild, Runs
<1>8. Threads'
  BY <1>2, <1>5 DEF IInv, TypeOK, Threads
<1>9. Aborts'
  BY <1>3, <1>5 DEF IInv, Aborts
<1>10. NoStray'
  <2>1. does \in {"searching", "choosing"} =>
           marker' = NoMarker \/ child[g] \in {"searching", "choosing"}
    BY <1>5 DEF ChildStep, Starts, Searched, Interrupted, Hangs, Ends, Killed, Child, IInv, TypeOK
  <2> QED
    BY <2>1, <1>3, <1>5 DEF IInv, TypeOK, NoStray
<1> QED
  BY <1>6, <1>7, <1>8, <1>9, <1>10 DEF IInv

\* The requests: Begin needs that nothing runs, and a marker written by a stop
\* request is for the child in the slot.
LEMMA RequestKeepsIInv ==
  ASSUME IInv, Requests
  PROVE  IInv'
<1>1. CASE Begin
  <2>1. begun + 1 \in Children /\ child[begun + 1] = "none"
    BY <1>1, ChildStreamAssumption DEF Begin, IInv, TypeOK, Children
  <2>2. \A g \in Children : ~Runs(g)
    BY <1>1 DEF Begin, IInv, OneChild, Runs, TypeOK, Children
  <2>3. TypeOK'
    BY <1>1, <2>1, ChildStreamAssumption
       DEF Begin, IInv, TypeOK, LockFree, NoStop, Children
  <2>4. OneChild'
    BY <1>1, <2>1, <2>2 DEF Begin, IInv, TypeOK, OneChild, Runs
  <2>5. Threads'
    BY <1>1, <2>1 DEF Begin, IInv, TypeOK, Threads
  <2>6. Aborts' /\ NoStray'
    BY <1>1, <2>1 DEF Begin, IInv, TypeOK, Aborts, NoStray
  <2> QED
    BY <2>3, <2>4, <2>5, <2>6 DEF IInv
<1>2. CASE Stop
  BY <1>2 DEF Stop, IInv, TypeOK, OneChild, Threads, Aborts, NoStray, Runs, Children
<1>3. CASE StopMarks
  <2>1. stop.to = slot /\ slot \in Children
    BY <1>3, ChildStreamAssumption DEF StopMarks, IInv, TypeOK, Children
  <2>2. marker' = [for |-> slot, abort |-> FALSE]
    BY <1>3, <2>1 DEF StopMarks
  <2>3. TypeOK'
    <3>1. marker' \in Marker
      BY <2>1, <2>2 DEF Marker
    <3>2. stop' \in [to : {0, slot'}, marked : BOOLEAN]
      BY <1>3, <2>1 DEF StopMarks, IInv, TypeOK
    <3> QED
      BY <1>3, <3>1, <3>2 DEF StopMarks, IInv, TypeOK
  <2>4. OneChild' /\ Threads'
    BY <1>3 DEF StopMarks, IInv, OneChild, Threads, Runs
  <2>5. Aborts' /\ NoStray'
    BY <1>3, <2>2 DEF StopMarks, IInv, OneChild, Aborts, NoStray, Runs
  <2> QED
    BY <2>3, <2>4, <2>5 DEF IInv
<1>4. CASE StopSignals
  <2>1. signals' \in [Children -> SUBSET {"INT", "TERM", "KILL"}]
    BY <1>4 DEF StopSignals, Signalled, IInv, TypeOK
  <2> QED
    BY <1>4, <2>1
       DEF StopSignals, NoStop, IInv, TypeOK, OneChild, Threads, Aborts, NoStray, Runs
<1> QED
  BY <1>1, <1>2, <1>3, <1>4 DEF Requests

\* A thread that neither marks nor finishes only moves on, and signals.
LEMMA ThreadKeepsIInv ==
  ASSUME IInv, NEW g \in Children,
         NEW from \in {"started", "streaming", "leaving", "interrupting", "waiting",
                       "terminated", "killed"},
         NEW to \in {"streaming", "leaving", "marking", "interrupting", "waiting",
                     "terminated", "killed", "finishing"},
         Thread(g, from, to),
         UNCHANGED marker,
         signals' = signals \/ \E sig \in {"INT", "TERM", "KILL"} : signals' = Signalled(g, sig),
         to = "finishing" => ~Runs(g),
         to \in {"leaving", "marking"} => g \in left
  PROVE  IInv'
<1>1. /\ stream[g] = from
      /\ stream' = [stream EXCEPT ![g] = to]
      /\ UNCHANGED <<slot, begun, stop, child, left, marker>>
  BY DEF Thread
<1>2. signals' \in [Children -> SUBSET {"INT", "TERM", "KILL"}]
  BY DEF Signalled, IInv, TypeOK
<1>3. child[g] # "none" /\ (to = "finishing" => child[g] = "gone")
  BY <1>1 DEF IInv, TypeOK, Threads, Runs
<1>4. TypeOK'
  BY <1>1, <1>2 DEF IInv, TypeOK
<1>5. OneChild'
  BY <1>1 DEF IInv, OneChild, Runs
<1>6. Threads'
  BY <1>1, <1>3 DEF IInv, TypeOK, Threads
<1>7. Aborts' /\ NoStray'
  BY <1>1 DEF IInv, TypeOK, Aborts, NoStray
<1> QED
  BY <1>4, <1>5, <1>6, <1>7 DEF IInv

LEMMA StepKeepsIInv == IInv /\ [Next]_vars => IInv'
<1> SUFFICES ASSUME IInv, [Next]_vars PROVE IInv'
  OBVIOUS
<1>1. CASE Requests
  BY <1>1, RequestKeepsIInv
<1>2. ASSUME NEW g \in Children, ChildStep(g) PROVE IInv'
  BY <1>2, ChildKeepsIInv
<1>3. ASSUME NEW g \in Children, Leave(g) PROVE IInv'
  BY <1>3
     DEF Leave, IInv, TypeOK, OneChild, Threads, Aborts, NoStray, Runs
<1>4. ASSUME NEW g \in Children, Announce(g) PROVE IInv'
  BY <1>4, ThreadKeepsIInv DEF Announce
<1>5. ASSUME NEW g \in Children, Relay(g) PROVE IInv'
  BY <1>5, ThreadKeepsIInv DEF Relay
<1>6. ASSUME NEW g \in Children, EndOfOutput(g) PROVE IInv'
  BY <1>6, ThreadKeepsIInv DEF EndOfOutput
<1>7. ASSUME NEW g \in Children, Poll(g) PROVE IInv'
  <2>1. g \in left
    BY <1>7 DEF Poll, Thread, IInv, Aborts
  <2> QED
    BY <1>7, <2>1, ThreadKeepsIInv DEF Poll
<1>8. ASSUME NEW g \in Children, Mark(g) PROVE IInv'
  <2>1. g \in left
    BY <1>8 DEF Mark, Thread, IInv, Aborts
  <2>2. TypeOK'
    BY <1>8 DEF Mark, Thread, IInv, TypeOK, Marker
  <2>3. OneChild' /\ Threads'
    BY <1>8 DEF Mark, Thread, IInv, TypeOK, OneChild, Threads, Runs
  <2>4. Aborts' /\ NoStray'
    BY <1>8, <2>1 DEF Mark, Thread, IInv, TypeOK, Aborts, NoStray
  <2> QED
    BY <2>2, <2>3, <2>4 DEF IInv
<1>9. ASSUME NEW g \in Children, Interrupt(g) \/ Terminate(g) \/ Kill(g) PROVE IInv'
  <2>1. CASE Interrupt(g)
    BY <2>1, ThreadKeepsIInv DEF Interrupt
  <2>2. CASE Terminate(g)
    BY <2>2, ThreadKeepsIInv DEF Terminate
  <2>3. CASE Kill(g)
    BY <2>3, ThreadKeepsIInv DEF Kill
  <2> QED
    BY <1>9, <2>1, <2>2, <2>3
<1>10. ASSUME NEW g \in Children, Reap(g) PROVE IInv'
  BY <1>10, ThreadKeepsIInv DEF Reap
<1>11. ASSUME NEW g \in Children, Finish(g) PROVE IInv'
  <2>1. child[g] = "gone" /\ stop = NoStop
    BY <1>11 DEF Finish, LockFree, IInv, Threads
  <2>2. slot' \in 0..begun /\ (slot = g \/ slot' = slot)
    BY <1>11 DEF Finish, IInv, TypeOK
  <2>3. TypeOK'
    BY <1>11, <2>1, <2>2 DEF Finish, IInv, TypeOK, NoStop
  <2>4. OneChild' /\ Threads'
    BY <1>11, <2>1, <2>2 DEF Finish, IInv, TypeOK, OneChild, Threads, Runs
  <2>5. Aborts' /\ NoStray'
    BY <1>11 DEF Finish, IInv, TypeOK, Aborts, NoStray
  <2> QED
    BY <2>3, <2>4, <2>5 DEF IInv
<1>12. CASE UNCHANGED vars
  BY <1>12 DEF vars, IInv, TypeOK, OneChild, Threads, Aborts, NoStray, Runs
<1> QED
  BY <1>1, <1>2, <1>3, <1>4, <1>5, <1>6, <1>7, <1>8, <1>9, <1>10, <1>11, <1>12
     DEF Next, Monitor

\* However many scans are started, stopped and abandoned, a child that runs is
\* the one the supervisor knows (wait_for_detached_child reaps before
\* finish_child frees the slot).
THEOREM OneChildAlways == Spec => [](TypeOK /\ OneChild)
<1>1. IInv => TypeOK /\ OneChild
  BY DEF IInv
<1> QED
  BY InitIInv, StepKeepsIInv, <1>1, PTL DEF Spec

\* However requests, scans and departing clients interleave, a scan that probes
\* finds no marker of a stop request made for another: begin_child and stop_child
\* share the lock, and only disconnect_cleanup writes without it.
THEOREM NoStrayAlways == Spec => []NoStray
<1>1. IInv => NoStray
  BY DEF IInv
<1> QED
  BY InitIInv, StepKeepsIInv, <1>1, PTL DEF Spec
=============================================================================
