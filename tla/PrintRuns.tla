----------------------------- MODULE PrintRuns ------------------------------
(***************************************************************************)
(* What the print queue promises about the prints it runs, whatever its    *)
(* users, passes, workers, watchdogs and callbacks do to a row meanwhile:  *)
(* a printer runs one row at a time, a row runs on one printer and stays   *)
(* there, and each run that never started uses up one attempt of the row,  *)
(* which is not run again when all are used.                               *)
(***************************************************************************)
EXTENDS Naturals

CONSTANTS Items, Printers, MaxAttempts

VARIABLES
    running,    \* the runs: pairs of a row and the printer it runs on
    attempts    \* runs of a row that were taken back

vars == <<running, attempts>>

Init == running = {} /\ attempts = [i \in Items |-> 0]

Begin(i, p) ==
    /\ \A run \in running : run[1] # i /\ run[2] # p
    /\ attempts[i] < MaxAttempts
    /\ running' = running \cup {<<i, p>>}
    /\ UNCHANGED attempts

\* The print has ended, was stopped or was refused.
End(i, p) ==
    /\ <<i, p>> \in running /\ running' = running \ {<<i, p>>}
    /\ UNCHANGED attempts

TakeBack(i, p) ==
    /\ <<i, p>> \in running /\ running' = running \ {<<i, p>>}
    /\ attempts' = [attempts EXCEPT ![i] = @ + 1]

\* A row that is deleted takes its attempts along.
Forget(i) ==
    /\ \A run \in running : run[1] # i
    /\ attempts' = [attempts EXCEPT ![i] = 0]
    /\ UNCHANGED running

Next ==
    \E i \in Items :
        \/ Forget(i)
        \/ \E p \in Printers : Begin(i, p) \/ End(i, p) \/ TakeBack(i, p)

Spec == Init /\ [][Next]_vars
=============================================================================
