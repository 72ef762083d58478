---------------------------- MODULE PrintEvents -----------------------------
(***************************************************************************)
(* What one run of a printer's MQTT client promises to the callbacks of    *)
(* the backend: prints are reported in the order in which the printer      *)
(* takes them on, each begins at most once and completes at most once, and *)
(* nothing is reported of a print that is over.                            *)
(***************************************************************************)
EXTENDS Integers, Sequences

CONSTANT Jobs      \* the prints of the printer, numbered as it takes them on

VARIABLE log       \* the callbacks this client has fired

\* "observed" is a print found running when the backend starts.
Event == [kind : {"start", "observed", "complete"}, job : Jobs]

Rank(e) == 2 * e.job + (IF e.kind = "complete" THEN 1 ELSE 0)

Init == log = <<>>

Report(e) ==
    /\ log = <<>> \/ Rank(log[Len(log)]) < Rank(e)
    /\ log' = Append(log, e)

\* A restart of the backend makes a new client.
NewClient == log' = <<>>

Next == (\E e \in Event : Report(e)) \/ NewClient

Spec == Init /\ [][Next]_log
=============================================================================
