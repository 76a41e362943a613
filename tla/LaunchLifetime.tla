--------------------------- MODULE LaunchLifetime ---------------------------
(***************************************************************************)
(* What the session registry promises whoever watches a launch: the handle *)
(* it gives out stays open while any process of the launch lives, and is   *)
(* closed once none does.                                                  *)
(***************************************************************************)
CONSTANT Launches

VARIABLES begun,  \* the launches that have started at some time
          live,   \* the launches with a living process
          open,   \* the launches with an open handle
          closed  \* the launches of which a handle has been closed

vars == <<begun, live, open, closed>>

Init ==
    /\ begun = {} /\ live = {}
    /\ open = {} /\ closed = {}

Begin(l) ==
    /\ l \notin begun
    /\ begun' = begun \cup {l}
    /\ live' = live \cup {l}
    /\ UNCHANGED <<open, closed>>

End(l) ==
    /\ l \in live
    /\ live' = live \ {l}
    /\ UNCHANGED <<begun, open, closed>>

Give(l) ==
    /\ l \in begun
    /\ open' = open \cup {l}
    /\ UNCHANGED <<begun, live, closed>>

Close(l) ==
    /\ l \in open \ live
    /\ open' = open \ {l}
    /\ closed' = closed \cup {l}
    /\ UNCHANGED <<begun, live>>

\* The daemon goes, and its handles with it.
Restart ==
    /\ open' = {} /\ closed' = {}
    /\ UNCHANGED <<begun, live>>

Next ==
    \/ \E l \in Launches : Begin(l) \/ End(l) \/ Give(l) \/ Close(l)
    \/ Restart

Spec == Init /\ [][Next]_vars /\ \A l \in Launches : WF_vars(Close(l))
=============================================================================
