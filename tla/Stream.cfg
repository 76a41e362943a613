\* Two scans: stopped, abandoned by their clients, and hanging.
SPECIFICATION Spec
CONSTANTS
    MaxChildren = 2
    NoMarker = NoMarker
CHECK_DEADLOCK FALSE
INVARIANTS OneChild NoStray
PROPERTIES StopIsHeard LeaverEnds
