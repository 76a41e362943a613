----------------------------- MODULE ProbeLedger -----------------------------
(***************************************************************************)
(* What the crash marker and the blacklist of an Auto-UV scan promise      *)
(* together: one point is on trial at a time, a trial is written down      *)
(* before it begins, and a trial that the process did not survive is       *)
(* condemned before anything else is tried. Nothing is ever acquitted.     *)
(***************************************************************************)
CONSTANTS
    Points,  \* what can be put on trial
    None     \* no point

VARIABLES
    trial,      \* the point on trial
    fate,       \* of the trial: none, open, settled, or dead with its process
    condemned   \* the points that may not be tried

vars == <<trial, fate, condemned>>

Init == trial = None /\ fate = "none" /\ condemned \subseteq Points

Begin == fate = "none" /\ trial' \in Points /\ fate' = "open" /\ UNCHANGED condemned

\* The outcome is known, and what it condemns is on record.
Settle ==
    /\ fate = "open" /\ fate' = "settled"
    /\ condemned \subseteq condemned' /\ condemned' \subseteq Points
    /\ UNCHANGED trial

Close == fate = "settled" /\ fate' = "none" /\ trial' = None /\ UNCHANGED condemned

\* The process, or the machine, is gone; or the record could not be written.
Die == fate \in {"open", "settled"} /\ fate' = "dead" /\ UNCHANGED <<trial, condemned>>

\* A user's stop ends an open trial without a verdict.
Stop == fate = "open" /\ fate' = "none" /\ trial' = None /\ UNCHANGED condemned

Condemn ==
    /\ fate = "dead" /\ fate' = "settled"
    /\ condemned \cup {trial} \subseteq condemned' /\ condemned' \subseteq Points
    /\ UNCHANGED trial

Next == Begin \/ Settle \/ Close \/ Die \/ Stop \/ Condemn

Spec == Init /\ [][Next]_vars
=============================================================================
