--------------------------- MODULE CameraUpstream ---------------------------
(***************************************************************************)
(* What the camera fan-out promises to a printer that serves one camera    *)
(* connection at a time: a connection is opened only when none is left,    *)
(* unless the wait for the last one to close has been given up.            *)
(***************************************************************************)
CONSTANT Connections    \* the connections ever made

VARIABLES
    held,       \* the connections that the printer sees
    givenUp     \* some wait for a connection to close was given up

vars == <<held, givenUp>>

Init == held = {} /\ givenUp = FALSE

Open(c) ==
    /\ c \notin held
    /\ held = {} \/ givenUp'
    /\ held' = held \cup {c}
    /\ givenUp' \in {givenUp, TRUE}

Close(c) ==
    /\ c \in held
    /\ held' = held \ {c}
    /\ UNCHANGED givenUp

GiveUp ==
    /\ givenUp' = TRUE
    /\ UNCHANGED held

Next == GiveUp \/ \E c \in Connections : Open(c) \/ Close(c)

Spec == Init /\ [][Next]_vars
=============================================================================
