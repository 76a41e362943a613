----------------------------- MODULE BootIntent -----------------------------
(***************************************************************************)
(* What the boot-runtime methods promise their callers: a map from GPU to  *)
(* saved spec and a selection, changed one whole request at a time, and    *)
(* never lost to a concurrent request, a failed write or a crash.          *)
(***************************************************************************)
CONSTANTS Gpus, Specs, NoGpu

VARIABLES saved,   \* GPU -> spec, on the GPUs that have one
          active,  \* the GPU whose spec gets the engine after a boot
          main     \* the GPU the user pinned as active, or NoGpu

vars == <<saved, active, main>>

SavedMaps == UNION {[G -> Specs] : G \in SUBSET Gpus}

\* Nothing is selected that is not saved, and a pinned GPU is the active one.
Coherent ==
    /\ active \in DOMAIN saved \cup {NoGpu}
    /\ DOMAIN saved # {} => active # NoGpu
    /\ main # NoGpu => main = active

Init ==
    /\ saved \in SavedMaps
    /\ main = NoGpu
    /\ active \in Gpus \cup {NoGpu}
    /\ Coherent

Save(g, s) ==
    /\ saved' = [h \in DOMAIN saved \cup {g} |-> IF h = g THEN s ELSE saved[h]]
    /\ active' = IF main = NoGpu THEN g ELSE active
    /\ UNCHANGED main

Pin(g) ==
    /\ g \in DOMAIN saved
    /\ main' = g
    /\ active' = g
    /\ UNCHANGED saved

Unpin ==
    /\ main' = NoGpu
    /\ UNCHANGED <<saved, active>>

Forget(g) ==
    /\ g \in DOMAIN saved
    /\ saved' = [h \in DOMAIN saved \ {g} |-> saved[h]]
    /\ main' = IF main = g THEN NoGpu ELSE main
    /\ \/ active # g /\ active' = active
       \/ active = g /\ active' \in DOMAIN saved'
       \/ DOMAIN saved' = {} /\ active' = NoGpu

ForgetAll ==
    /\ saved' = [h \in {} |-> NoGpu]
    /\ active' = NoGpu
    /\ main' = NoGpu

Next ==
    \/ \E g \in Gpus, s \in Specs : Save(g, s)
    \/ \E g \in Gpus : Pin(g) \/ Forget(g)
    \/ Unpin
    \/ ForgetAll

Spec == Init /\ [][Next]_vars
=============================================================================
