-------------------------- MODULE PrintQueueProofs --------------------------
(***************************************************************************)
(* Proofs about PrintQueue, for every number of rows and printers, every   *)
(* retry budget and every upload limit.                                    *)
(***************************************************************************)
EXTENDS PrintQueue, TLAPS

-----------------------------------------------------------------------------
(* The inductive invariant of the queue, whatever the environment does *)

\* A row has a worker exactly while it is in the upload pool.
PoolAgrees == \A i \in Items : wpc[i] = "none" <=> inflight[i] = NoPrinter

\* The pass works on rows without a worker, and knows the printers it picked.
PassRows ==
    /\ ~passing => todo = {} /\ picked = {}
    /\ \A i \in todo \cup picked : wpc[i] = "none"
    /\ \A i \in picked : snap[i] \in Printers

\* A worker that uploads knows its printer.
WorkerPrinter ==
    \A i \in Items : wpc[i] \in {"uploading", "committed", "refused"} => wprinter[i] \in Printers

\* Between the commit of a worker and its end nobody puts its row back.
CommittedRow ==
    \A i \in Items : wpc[i] \in {"committed", "refused"} => status[i] \notin {"pending", "skipped"}

\* A row is out of the queue, of the pass and of the pool: no worker of it
\* will write to it again.
AtRest(i) ==
    /\ status[i] \notin {"pending", "skipped"}
    /\ i \notin todo \cup picked
    /\ wpc[i] \in {"none", "clearing"}

\* The row that used its last attempt is at rest.
SpentRows ==
    \A i \in Items :
        /\ status[i] = "absent" => attempts[i] = 0
        /\ attempts[i] = MaxAttempts => AtRest(i) /\ status[i] # "printing"

\* The row of a live watchdog is at rest, and has no other watchdog.
WatchedRows ==
    \A w \in watch :
        /\ AtRest(w.item)
        /\ \A x \in watch : x.item = w.item => x = w

Discipline ==
    /\ PoolAgrees
    /\ PassRows
    /\ WorkerPrinter
    /\ CommittedRow
    /\ SpentRows
    /\ WatchedRows

QueueInv == TypeOK /\ Discipline

\* What the discipline is about: a step that leaves it alone keeps it.
queueVars == <<status, attempts, passing, todo, picked, snap, poolVars, watch>>

-----------------------------------------------------------------------------
(* Type correctness *)

\* What a print schedules fits its type.
LEMMA CompletesType ==
    ASSUME callbacks \subseteq Callback, NEW p \in Printers, NEW o \in Outcome, Completes(p, o)
    PROVE  callbacks' \subseteq Callback
<1>1. [printer |-> p, outcome |-> o, raised |-> FALSE] \in Callback
  BY DEF Callback
<1> QED
  BY <1>1 DEF Completes

\* So does what the client caches of a printer that moves.
LEMMA PrinterMovesType ==
    ASSUME TypeOK, NEW p \in Printers, NEW s \in {"IDLE", "FINISH", "RUNNING"}, PrinterMoves(p, s)
    PROVE  /\ act' \in [Printers -> GcodeState \ {"unknown"}]
           /\ gcode' \in [Printers -> GcodeState]
           /\ moved' \in [Printers -> BOOLEAN]
<1> USE DEF TypeOK, GcodeState, IdleStates
<1>1. act' \in [Printers -> GcodeState \ {"unknown"}]
  BY DEF PrinterMoves
<1>2. CASE conn[p]
  <2>1. gcode' \in [Printers -> GcodeState]
    BY <1>2 DEF PrinterMoves
  <2>2. moved' \in [Printers -> BOOLEAN]
    BY <1>2 DEF PrinterMoves, MarkMoved
  <2> QED
    BY <1>1, <2>1, <2>2
<1>3. CASE ~conn[p]
  BY <1>1, <1>3 DEF PrinterMoves
<1> QED
  BY <1>2, <1>3

\* Every step keeps the types. The retry counter needs SpentRows, the command
\* of a worker WorkerPrinter, the pool PassRows.
LEMMA TypeStep ==
    ASSUME QueueInv, [Next]_vars
    PROVE  TypeOK'
<1> USE ConstantsAssumption DEF QueueInv, TypeOK, Assignment, Status, WorkerStep,
        Command, Watchdog, Callback, Request, GcodeState, IdleStates, EnvFeatures,
        tableVars, passVars, poolVars, holdVars, printerVars
<1>1. ASSUME NEW i \in Items, NEW a \in Assignment, NEW m \in BOOLEAN, AddItem(i, a, m)
      PROVE  TypeOK'
  BY <1>1 DEF AddItem, SetStatus
<1>2. ASSUME NEW i \in Items, DeleteItem(i) PROVE TypeOK'
  BY <1>2 DEF DeleteItem, SetStatus
<1>3. ASSUME NEW i \in Items, CancelItem(i) PROVE TypeOK'
  BY <1>3 DEF CancelItem, Withdraw, OverwriteStatus, SetStatus
<1>4. ASSUME NEW i \in Items, NEW a \in Assignment, EditItem(i, a) PROVE TypeOK'
  BY <1>4 DEF EditItem, MayEdit
<1>5. ASSUME NEW i \in Items, StartItem(i) PROVE TypeOK'
  BY <1>5 DEF StartItem
<1>6. ASSUME NEW i \in Items, StopItem(i) PROVE TypeOK'
  BY <1>6 DEF StopItem, SetStatus
<1>7. ASSUME NEW r \in Request, RequestChecks(r) PROVE TypeOK'
  BY <1>7 DEF RequestChecks, MayEdit
<1>8. ASSUME NEW r \in Request, RequestCommits(r) PROVE TypeOK'
  BY <1>8 DEF RequestCommits, Withdraw, OverwriteStatus, SetStatus
<1>9. ASSUME NEW p \in Printers, ResumePrinter(p) PROVE TypeOK'
  BY <1>9 DEF ResumePrinter, Restorable
<1>10. ASSUME NEW p \in Printers, ClearPlate(p) PROVE TypeOK'
  BY <1>10 DEF ClearPlate, SetAwaiting
<1>11. ASSUME CheckQueueBegins PROVE TypeOK'
  BY <1>11 DEF CheckQueueBegins, Selectable, BusySeed, HeldPrinters, PrintingPrinters,
         InFlight
<1>12. ASSUME NEW i \in Items, LeaveItem(i) PROVE TypeOK'
  BY <1>12 DEF LeaveItem, Considered
<1>13. ASSUME NEW i \in Items, LeaveItemAndPrinter(i) PROVE TypeOK'
  BY <1>13 DEF LeaveItemAndPrinter, Considered
<1>14. ASSUME NEW i \in Items, SkipItem(i) PROVE TypeOK'
  BY <1>14 DEF SkipItem, Considered, SetStatus
<1>15. ASSUME NEW i \in Items, NEW p \in Printers, BlockOnFilamentDeficit(i, p) PROVE TypeOK'
  BY <1>15 DEF BlockOnFilamentDeficit, Considered, Candidate, Assign
<1>16. ASSUME NEW i \in Items, NEW p \in Printers, SelectItem(i, p) PROVE TypeOK'
  BY <1>16 DEF SelectItem, Considered, Candidate, Assign
<1>17. ASSUME CheckQueueRaises PROVE TypeOK'
  BY <1>17 DEF CheckQueueRaises, PassEnds
<1>18. ASSUME LaunchUploads PROVE TypeOK'
  <2>1. PICK launch \in SUBSET picked :
            /\ inflight' = [i \in Items |-> IF i \in launch THEN snap[i] ELSE inflight[i]]
            /\ wpc' = [i \in Items |-> IF i \in launch THEN "launched" ELSE wpc[i]]
    BY <1>18 DEF LaunchUploads
  <2>2. inflight' \in [Items -> Printers \cup {NoPrinter}]
    BY <2>1 DEF Discipline, PassRows
  <2>3. wpc' \in [Items -> WorkerStep]
    BY <2>1
  <2> QED
    BY <1>18, <2>2, <2>3 DEF LaunchUploads, PassEnds
<1>19. ASSUME NEW i \in Items, ClaimForDispatch(i) PROVE TypeOK'
  <2>1. CASE status[i] = "pending" /\ ~claimed[i]
    <3>1. claimed' \in [Items -> BOOLEAN]
      BY <1>19, <2>1 DEF ClaimForDispatch
    <3>2. wpc' \in [Items -> WorkerStep]
      BY <1>19, <2>1 DEF ClaimForDispatch, WorkerGoes
    <3> QED
      BY <1>19, <2>1, <3>1, <3>2 DEF ClaimForDispatch
  <2>2. CASE ~(status[i] = "pending" /\ ~claimed[i])
    BY <1>19, <2>2 DEF ClaimForDispatch, WorkerGoes, WorkerEnds
  <2> QED
    BY <2>1, <2>2
<1>20. ASSUME NEW i \in Items, CheckBeforeUpload(i) PROVE TypeOK'
  BY <1>20 DEF CheckBeforeUpload, WorkerAt, WorkerGoes, WorkerWrites, OverwriteStatus,
         SetStatus, IsConnected
<1>21. ASSUME NEW i \in Items, UploadFails(i) PROVE TypeOK'
  BY <1>21 DEF UploadFails, WorkerAt, WorkerGoes, WorkerWrites, OverwriteStatus,
         SetStatus
<1>22. ASSUME NEW i \in Items, CommitPrinting(i) PROVE TypeOK'
  BY <1>22 DEF CommitPrinting, WorkerAt, WorkerGoes, StillPending, SetStatus
<1>23. ASSUME NEW i \in Items, SendStart(i) PROVE TypeOK'
  <2> DEFINE p == wprinter[i]
  <2>1. p \in Printers
    BY <1>23 DEF SendStart, WorkerAt, Discipline, WorkerPrinter
  <2>2. awaiting' \in [Printers -> BOOLEAN]
    <3>1. awaiting' = [awaiting EXCEPT ![p] = FALSE]
      BY <1>23 DEF SendStart, SetAwaiting
    <3> QED
      BY <3>1, <2>1
  <2>3. CASE MayPublish(p)
    <3>1. [item |-> i, printer |-> p, st |-> "wire"] \in Command
      BY <2>1
    <3>2. [item |-> i, printer |-> p, phase |-> "A"] \in Watchdog
      BY <2>1
    <3>3. /\ hold' \in [Printers -> {"none", "fresh", "cooled"}]
          /\ moved' \in [Printers -> BOOLEAN]
      <4>1. hold' = [hold EXCEPT ![p] = "fresh"] /\ moved' = [moved EXCEPT ![p] = FALSE]
        BY <1>23, <2>3 DEF SendStart
      <4> QED
        BY <4>1, <2>1
    <3>4. wpc' \in [Items -> WorkerStep]
      BY <1>23, <2>3 DEF SendStart, WorkerGoes
    <3> QED
      BY <1>23, <2>2, <2>3, <3>1, <3>2, <3>3, <3>4 DEF SendStart
  <2>4. CASE ~MayPublish(p)
    BY <1>23, <2>2, <2>4 DEF SendStart, WorkerGoes
  <2> QED
    BY <2>3, <2>4
<1>24. ASSUME NEW i \in Items, RefusalSettles(i) PROVE TypeOK'
  BY <1>24 DEF RefusalSettles, WorkerAt, WorkerGoes, WorkerWrites, OverwriteStatus,
         SetStatus
<1>25. ASSUME NEW i \in Items, ClearDispatchClaim(i) PROVE TypeOK'
  BY <1>25 DEF ClearDispatchClaim, WorkerAt, WorkerEnds, WorkerGoes
<1>26. ASSUME NEW p \in Printers, HoldAges(p) PROVE TypeOK'
  BY <1>26 DEF HoldAges
<1>27. ASSUME NEW w \in watch, WatchdogSeesActive(w) PROVE TypeOK'
  BY <1>27 DEF WatchdogSeesActive, ReleaseDispatchHold
<1>28. ASSUME NEW w \in watch, WatchdogTimesOut(w) PROVE TypeOK'
  <2>1. /\ status' \in [Items -> Status]
        /\ attempts' \in [Items -> 0..MaxAttempts]
    <3>1. CASE Revert(w.item) /\ status[w.item] = "printing"
      <4>1. attempts[w.item] + 1 \in 0..MaxAttempts
        <5>1. w.item \in Items /\ attempts[w.item] \in 0..MaxAttempts
          OBVIOUS
        <5>2. attempts[w.item] # MaxAttempts
          BY <3>1, <5>1 DEF Discipline, SpentRows
        <5> QED
          BY <5>1, <5>2, ConstantsAssumption DEF ConstantsAssumption
      <4> QED
        BY <3>1, <4>1 DEF Revert, SetStatus
    <3>2. CASE Revert(w.item) /\ status[w.item] # "printing"
      BY <3>2 DEF Revert
    <3>3. CASE UNCHANGED <<attempts, status>>
      BY <3>3
    <3> QED
      BY <1>28, <3>1, <3>2, <3>3 DEF WatchdogTimesOut
  <2>2. conn' \in [Printers -> BOOLEAN]
    BY <1>28 DEF WatchdogTimesOut
  <2> QED
    BY <1>28, <2>1, <2>2 DEF WatchdogTimesOut, ReleaseDispatchHold
<1>29. ASSUME NEW c \in cmds, PrinterTakes(c) PROVE TypeOK'
  BY <1>29 DEF PrinterTakes, MarkMoved, Taken, InPhaseB
<1>30. ASSUME NEW c \in cmds, CommandLost(c) PROVE TypeOK'
  BY <1>30 DEF CommandLost
<1>31. ASSUME NEW c \in cmds, PrinterBegins(c) PROVE TypeOK'
  <2>1. /\ act' \in [Printers -> GcodeState \ {"unknown"}]
        /\ gcode' \in [Printers -> GcodeState]
        /\ moved' \in [Printers -> BOOLEAN]
    BY <1>31, PrinterMovesType DEF PrinterBegins
  <2> QED
    BY <1>31, <2>1 DEF PrinterBegins, PrinterMoves
<1>32. ASSUME NEW p \in Printers, ForeignPrintBegins(p) PROVE TypeOK'
  <2>1. /\ act' \in [Printers -> GcodeState \ {"unknown"}]
        /\ gcode' \in [Printers -> GcodeState]
        /\ moved' \in [Printers -> BOOLEAN]
    BY <1>32, PrinterMovesType DEF ForeignPrintBegins
  <2> QED
    BY <1>32, <2>1 DEF ForeignPrintBegins, PrinterMoves
<1>33. ASSUME NEW p \in Printers, PrinterDismisses(p) PROVE TypeOK'
  <2>1. /\ act' \in [Printers -> GcodeState \ {"unknown"}]
        /\ gcode' \in [Printers -> GcodeState]
        /\ moved' \in [Printers -> BOOLEAN]
    BY <1>33, PrinterMovesType DEF PrinterDismisses
  <2> QED
    BY <1>33, <2>1 DEF PrinterDismisses, PrinterMoves
<1>34. ASSUME NEW p \in Printers, Disconnect(p) PROVE TypeOK'
  BY <1>34 DEF Disconnect
<1>35. ASSUME NEW p \in Printers, NEW o \in Outcome, PrinterEnds(p, o) PROVE TypeOK'
  <2>1. /\ act' \in [Printers -> GcodeState \ {"unknown"}]
        /\ gcode' \in [Printers -> GcodeState]
        /\ moved' \in [Printers -> BOOLEAN]
    BY <1>35, PrinterMovesType DEF PrinterEnds
  <2>2. callbacks' \subseteq Callback
    BY <1>35, CompletesType DEF PrinterEnds
  <2> QED
    BY <1>35, <2>1, <2>2 DEF PrinterEnds, PrinterMoves
<1>36. ASSUME NEW p \in Printers, NEW o \in Outcome, Reconnect(p, o) PROVE TypeOK'
  <2>1. moved' \in [Printers -> BOOLEAN]
    <3>1. moved' = moved \/ MarkMoved(p)
      BY <1>36 DEF Reconnect
    <3> QED
      BY <3>1 DEF MarkMoved
  <2>2. callbacks' \subseteq Callback
    BY <1>36, CompletesType DEF Reconnect
  <2>3. /\ conn' \in [Printers -> BOOLEAN]
        /\ gcode' \in [Printers -> GcodeState]
    BY <1>36 DEF Reconnect
  <2> QED
    BY <1>36, <2>1, <2>2, <2>3 DEF Reconnect
<1>37. ASSUME NEW c \in callbacks, RaisePlateGate(c) PROVE TypeOK'
  <2>1. awaiting' \in [Printers -> BOOLEAN]
    BY <1>37 DEF RaisePlateGate, SetAwaiting
  <2>2. GateRaised(c) \in Callback
    BY DEF GateRaised
  <2> QED
    BY <1>37, <2>1, <2>2 DEF RaisePlateGate
<1>38. ASSUME NEW c \in callbacks, UpdateQueueStatus(c) PROVE TypeOK'
  <2>1. status' \in [Items -> Status]
    <3>1. c.outcome \in Status
      BY <1>38 DEF UpdateQueueStatus
    <3> QED
      BY <1>38, <3>1 DEF UpdateQueueStatus, SetStatus
  <2> QED
    BY <1>38, <2>1 DEF UpdateQueueStatus
<1>39. ASSUME Restart PROVE TypeOK'
  BY <1>39 DEF Restart, PassEnds, ClaimsAtStartup
<1> HIDE DEF QueueInv, TypeOK, Request, Assignment, Status, WorkerStep, Command,
             Watchdog, Callback, GcodeState
<1>40. CASE UNCHANGED vars
  BY <1>40 DEF vars, TypeOK, QueueInv
<1> QED
  BY <1>1, <1>2, <1>3, <1>4, <1>5, <1>6, <1>7, <1>8, <1>9, <1>10, <1>11, <1>12, <1>13,
     <1>14, <1>15, <1>16, <1>17, <1>18, <1>19, <1>20, <1>21, <1>22, <1>23, <1>24, <1>25,
     <1>26, <1>27, <1>28, <1>29, <1>30, <1>31, <1>32, <1>33, <1>34, <1>35, <1>36, <1>37,
     <1>38, <1>39, <1>40
     DEF Next, RouteStep, SchedulerStep, WorkerStepOf, WatchdogStep, PrinterStep,
         CallbackStep

-----------------------------------------------------------------------------
(* The discipline of pass, pool and watchdogs *)

coreVars == <<status, printer, claimed, attempts, passVars, poolVars, watch, req, withdrawn>>

\* Steps of printers, holds and users that do not touch rows and workers.
Bystander ==
    \/ \E i \in Items : StartItem(i)
    \/ \E p \in Printers : \/ ClearPlate(p) \/ HoldAges(p)
                           \/ ForeignPrintBegins(p) \/ PrinterDismisses(p) \/ Disconnect(p)
                           \/ \E o \in Outcome : PrinterEnds(p, o) \/ Reconnect(p, o)
    \/ \E c \in cmds : CommandLost(c) \/ PrinterBegins(c)
    \/ \E c \in callbacks : RaisePlateGate(c)

\* They leave the state of rows, pass, pool and watchdogs alone.
LEMMA BystanderStep ==
    ASSUME Bystander \/ UNCHANGED vars
    PROVE  UNCHANGED coreVars
BY DEF Bystander, coreVars, vars, tableVars, passVars, poolVars, holdVars, printerVars,
       StartItem, ClearPlate, HoldAges, ForeignPrintBegins, PrinterDismisses, Disconnect,
       PrinterEnds, Reconnect, CommandLost, PrinterBegins, PrinterMoves, RaisePlateGate

\* A step that leaves the queue's part of the state alone keeps the discipline.
LEMMA QueueFrame ==
    ASSUME QueueInv, UNCHANGED queueVars
    PROVE  Discipline'
BY DEF QueueInv, Discipline, queueVars, poolVars, PoolAgrees, PassRows, WorkerPrinter,
       CommittedRow, SpentRows, WatchedRows, AtRest

\* Every step keeps the discipline.
LEMMA DisciplineStep ==
    ASSUME QueueInv, [Next]_vars
    PROVE  Discipline'
<1> USE ConstantsAssumption DEF QueueInv, TypeOK, Discipline, PoolAgrees, PassRows,
        WorkerPrinter, CommittedRow, SpentRows, WatchedRows, AtRest, Command, Watchdog,
        Assignment, WorkerStep, tableVars, passVars, poolVars, holdVars, printerVars
<1>1. ASSUME NEW i \in Items, NEW a \in Assignment, NEW m \in BOOLEAN, AddItem(i, a, m)
      PROVE  Discipline'
  BY <1>1 DEF AddItem, SetStatus
<1>2. ASSUME NEW i \in Items, DeleteItem(i) PROVE Discipline'
  BY <1>2 DEF DeleteItem, SetStatus
<1>3. ASSUME NEW i \in Items, CancelItem(i) PROVE Discipline'
  BY <1>3 DEF CancelItem, Withdraw, OverwriteStatus, SetStatus
<1>4. ASSUME NEW i \in Items, StopItem(i) PROVE Discipline'
  BY <1>4 DEF StopItem, SetStatus
<1>5. ASSUME NEW r \in Request, RequestCommits(r) PROVE Discipline'
  BY <1>5 DEF RequestCommits, Withdraw, OverwriteStatus, SetStatus
<1>6. ASSUME NEW p \in Printers, ResumePrinter(p) PROVE Discipline'
  BY <1>6 DEF ResumePrinter, Restorable
<1>7. ASSUME CheckQueueBegins PROVE Discipline'
  BY <1>7 DEF CheckQueueBegins, Selectable, BusySeed, HeldPrinters, PrintingPrinters,
         InFlight
<1>8. ASSUME NEW i \in Items, LeaveItem(i) PROVE Discipline'
  BY <1>8 DEF LeaveItem, Considered
<1>9. ASSUME NEW i \in Items, LeaveItemAndPrinter(i) PROVE Discipline'
  BY <1>9 DEF LeaveItemAndPrinter, Considered
<1>10. ASSUME NEW i \in Items, SkipItem(i) PROVE Discipline'
  BY <1>10 DEF SkipItem, Considered, SetStatus
<1>11. ASSUME NEW i \in Items, NEW p \in Printers, BlockOnFilamentDeficit(i, p)
      PROVE  Discipline'
  BY <1>11 DEF BlockOnFilamentDeficit, Considered, Candidate, Assign
<1>12. ASSUME NEW i \in Items, NEW p \in Printers, SelectItem(i, p) PROVE Discipline'
  BY <1>12 DEF SelectItem, Considered, Candidate, Assign
<1>13. ASSUME CheckQueueRaises PROVE Discipline'
  BY <1>13 DEF CheckQueueRaises, PassEnds
<1>14. ASSUME LaunchUploads PROVE Discipline'
  BY <1>14 DEF LaunchUploads, PassEnds
<1>15. ASSUME NEW i \in Items, ClaimForDispatch(i) PROVE Discipline'
  BY <1>15 DEF ClaimForDispatch, WorkerAt, WorkerGoes, WorkerEnds
<1>16. ASSUME NEW i \in Items, CheckBeforeUpload(i) PROVE Discipline'
  BY <1>16 DEF CheckBeforeUpload, WorkerAt, WorkerGoes, WorkerWrites, OverwriteStatus,
         SetStatus, IsConnected
<1>17. ASSUME NEW i \in Items, UploadFails(i) PROVE Discipline'
  BY <1>17 DEF UploadFails, WorkerAt, WorkerGoes, WorkerWrites, OverwriteStatus,
         SetStatus
<1>18. ASSUME NEW i \in Items, CommitPrinting(i) PROVE Discipline'
  BY <1>18 DEF CommitPrinting, WorkerAt, WorkerGoes, StillPending, SetStatus
<1>19. ASSUME NEW i \in Items, SendStart(i) PROVE Discipline'
  BY <1>19 DEF SendStart, WorkerAt, WorkerGoes, SetAwaiting, MayPublish
<1>20. ASSUME NEW i \in Items, RefusalSettles(i) PROVE Discipline'
  BY <1>20 DEF RefusalSettles, WorkerAt, WorkerGoes, WorkerWrites, OverwriteStatus,
         SetStatus
<1>21. ASSUME NEW i \in Items, ClearDispatchClaim(i) PROVE Discipline'
  BY <1>21 DEF ClearDispatchClaim, WorkerAt, WorkerEnds, WorkerGoes
<1>22. ASSUME NEW w \in watch, WatchdogSeesActive(w) PROVE Discipline'
  BY <1>22 DEF WatchdogSeesActive, ReleaseDispatchHold
<1>23. ASSUME NEW w \in watch, WatchdogTimesOut(w) PROVE Discipline'
  BY <1>23 DEF WatchdogTimesOut, ReleaseDispatchHold, Revert, BudgetSpent, SetStatus
<1>24. ASSUME NEW c \in cmds, PrinterTakes(c) PROVE Discipline'
  BY <1>24 DEF PrinterTakes, MarkMoved, Taken, InPhaseB
<1>25. ASSUME NEW c \in callbacks, UpdateQueueStatus(c) PROVE Discipline'
  <2>1. c.outcome \in {"completed", "failed", "cancelled"}
    BY <1>25 DEF UpdateQueueStatus, Callback
  <2> QED
    BY <1>25, <2>1 DEF UpdateQueueStatus, PrintingOn, SetStatus
<1>26. ASSUME Restart PROVE Discipline'
  BY <1>26 DEF Restart, PassEnds, ClaimsAtStartup
<1> HIDE DEF QueueInv, TypeOK, Discipline, Command, Watchdog, Assignment
<1>27. ASSUME NEW i \in Items, NEW a \in Assignment, EditItem(i, a) PROVE Discipline'
  BY <1>27, QueueFrame DEF queueVars, EditItem
<1>28. ASSUME NEW r \in Request, RequestChecks(r) PROVE Discipline'
  BY <1>28, QueueFrame DEF queueVars, RequestChecks
<1>29. CASE Bystander \/ UNCHANGED vars
  BY <1>29, BystanderStep, QueueFrame DEF queueVars, coreVars
<1> QED
  BY <1>1, <1>2, <1>3, <1>4, <1>5, <1>6, <1>7, <1>8, <1>9, <1>10, <1>11, <1>12, <1>13,
     <1>14, <1>15, <1>16, <1>17, <1>18, <1>19, <1>20, <1>21, <1>22, <1>23, <1>24, <1>25,
     <1>26, <1>27, <1>28, <1>29
     DEF Next, RouteStep, SchedulerStep, WorkerStepOf, WatchdogStep, PrinterStep,
         CallbackStep, Bystander

\* QueueInv is an invariant of the queue, whatever the environment does.
LEMMA QueueInvariant == Spec => []QueueInv
<1>1. Init => QueueInv
  <2> SUFFICES ASSUME Init PROVE QueueInv
    OBVIOUS
  <2>1. TypeOK
    <3> USE ConstantsAssumption DEF Init
    <3>1. /\ status \in [Items -> Status] /\ printer \in [Items -> Assignment]
          /\ claimed \in [Items -> BOOLEAN] /\ attempts \in [Items -> 0..MaxAttempts]
          /\ manual \in [Items -> BOOLEAN] /\ acked \subseteq Items
      BY DEF Status
    <3>2. /\ passing \in BOOLEAN /\ todo \subseteq Items /\ picked \subseteq Items
          /\ snap \in [Items -> Assignment] /\ busy \subseteq Printers
          /\ inflight \in [Items -> Printers \cup {NoPrinter}]
          /\ wpc \in [Items -> WorkerStep] /\ wprinter \in [Items -> Assignment]
      BY DEF Assignment, WorkerStep
    <3>3. /\ hold \in [Printers -> {"none", "fresh", "cooled"}] /\ moved \in [Printers -> BOOLEAN]
          /\ watch \subseteq Watchdog /\ req \subseteq Request
      OBVIOUS
    <3>4. /\ conn \in [Printers -> BOOLEAN] /\ gcode \in [Printers -> GcodeState]
          /\ act \in [Printers -> GcodeState \ {"unknown"}] /\ cmds \subseteq Command
          /\ awaiting \in [Printers -> BOOLEAN] /\ callbacks \subseteq Callback
          /\ withdrawn \subseteq Items
      BY DEF GcodeState, IdleStates
    <3> QED
      BY <3>1, <3>2, <3>3, <3>4 DEF TypeOK
  <2>2. Discipline
    BY ConstantsAssumption
       DEF Init, Discipline, PoolAgrees, PassRows, WorkerPrinter, CommittedRow, SpentRows,
           WatchedRows, AtRest
  <2> QED
    BY <2>1, <2>2 DEF QueueInv
<1>2. QueueInv /\ [Next]_vars => QueueInv'
  BY TypeStep, DisciplineStep DEF QueueInv
<1> QED
  BY <1>1, <1>2, PTL DEF Spec

\* The state keeps its types, the retry counter its range included.
THEOREM TypeCorrect == Spec => []TypeOK
<1>1. QueueInv => TypeOK
  BY DEF QueueInv
<1> QED
  BY <1>1, QueueInvariant, PTL

\* A row that used its last attempt is never up for another dispatch (#2555).
THEOREM BudgetIsKept == Spec => []RetryBudget
<1>1. QueueInv => RetryBudget
  BY ConstantsAssumption DEF QueueInv, TypeOK, Discipline, SpentRows, AtRest, RetryBudget
<1> QED
  BY <1>1, QueueInvariant, PTL

\* A watchdog never takes back a dispatch other than its own.
THEOREM WatchdogOwnsItsRow == Spec => []WatchdogOwnsRetry
<1>1. QueueInv => WatchdogOwnsRetry
  BY DEF QueueInv, Discipline, WatchedRows, AtRest, WatchdogOwnsRetry
<1> QED
  BY <1>1, QueueInvariant, PTL

-----------------------------------------------------------------------------
(* The dispatch claim *)

claimVars == <<status, claimed, wpc>>

\* A step that leaves statuses, claims and workers alone keeps the claims.
LEMMA ClaimFrame ==
    ASSUME ClaimDiscipline, UNCHANGED claimVars
    PROVE  ClaimDiscipline'
BY DEF ClaimDiscipline, ActiveWorker, claimVars

\* Every step keeps the claims.
LEMMA ClaimStep ==
    ASSUME QueueInv, ClaimDiscipline, [Next]_vars
    PROVE  ClaimDiscipline'
<1> USE ConstantsAssumption DEF QueueInv, TypeOK, Discipline, PoolAgrees, PassRows,
        ClaimDiscipline, ActiveWorker, WorkerStep, Watchdog, tableVars, passVars,
        poolVars, holdVars, printerVars
<1>1. ASSUME NEW i \in Items, NEW a \in Assignment, NEW m \in BOOLEAN, AddItem(i, a, m)
      PROVE  ClaimDiscipline'
  BY <1>1 DEF AddItem, SetStatus
<1>2. ASSUME NEW i \in Items, DeleteItem(i) PROVE ClaimDiscipline'
  BY <1>2 DEF DeleteItem, SetStatus
<1>3. ASSUME NEW i \in Items, CancelItem(i) PROVE ClaimDiscipline'
  BY <1>3 DEF CancelItem, Withdraw, OverwriteStatus, SetStatus
<1>4. ASSUME NEW i \in Items, StopItem(i) PROVE ClaimDiscipline'
  BY <1>4 DEF StopItem, SetStatus
<1>5. ASSUME NEW r \in Request, RequestCommits(r) PROVE ClaimDiscipline'
  BY <1>5 DEF RequestCommits, Withdraw, OverwriteStatus, SetStatus
<1>6. ASSUME NEW p \in Printers, ResumePrinter(p) PROVE ClaimDiscipline'
  BY <1>6 DEF ResumePrinter, Restorable
<1>7. ASSUME NEW i \in Items, SkipItem(i) PROVE ClaimDiscipline'
  BY <1>7 DEF SkipItem, Considered, SetStatus
<1>8. ASSUME LaunchUploads PROVE ClaimDiscipline'
  BY <1>8 DEF LaunchUploads, PassEnds
<1>9. ASSUME NEW i \in Items, ClaimForDispatch(i) PROVE ClaimDiscipline'
  BY <1>9 DEF ClaimForDispatch, WorkerAt, WorkerGoes, WorkerEnds
<1>10. ASSUME NEW i \in Items, CheckBeforeUpload(i) PROVE ClaimDiscipline'
  BY <1>10 DEF CheckBeforeUpload, WorkerAt, WorkerGoes, WorkerWrites, OverwriteStatus,
         SetStatus, IsConnected
<1>11. ASSUME NEW i \in Items, UploadFails(i) PROVE ClaimDiscipline'
  BY <1>11 DEF UploadFails, WorkerAt, WorkerGoes, WorkerWrites, OverwriteStatus,
         SetStatus
<1>12. ASSUME NEW i \in Items, CommitPrinting(i) PROVE ClaimDiscipline'
  BY <1>12 DEF CommitPrinting, WorkerAt, WorkerGoes, StillPending, SetStatus
<1>13. ASSUME NEW i \in Items, SendStart(i) PROVE ClaimDiscipline'
  BY <1>13 DEF SendStart, WorkerAt, WorkerGoes, SetAwaiting, MayPublish
<1>14. ASSUME NEW i \in Items, RefusalSettles(i) PROVE ClaimDiscipline'
  BY <1>14 DEF RefusalSettles, WorkerAt, WorkerGoes, WorkerWrites, OverwriteStatus,
         SetStatus
<1>15. ASSUME NEW i \in Items, ClearDispatchClaim(i) PROVE ClaimDiscipline'
  BY <1>15 DEF ClearDispatchClaim, WorkerAt, WorkerEnds, WorkerGoes
<1>16. ASSUME NEW w \in watch, WatchdogTimesOut(w) PROVE ClaimDiscipline'
  BY <1>16 DEF WatchdogTimesOut, ReleaseDispatchHold, Revert, BudgetSpent, SetStatus
<1>17. ASSUME NEW c \in callbacks, UpdateQueueStatus(c) PROVE ClaimDiscipline'
  BY <1>17 DEF UpdateQueueStatus, PrintingOn, SetStatus, Callback
<1>18. ASSUME Restart PROVE ClaimDiscipline'
  BY <1>18 DEF Restart, PassEnds, ClaimsAtStartup
<1> HIDE DEF QueueInv, TypeOK, Discipline, ClaimDiscipline
<1>19. ASSUME NEW i \in Items, NEW a \in Assignment, EditItem(i, a) PROVE ClaimDiscipline'
  BY <1>19, ClaimFrame DEF claimVars, EditItem
<1>20. ASSUME NEW r \in Request, RequestChecks(r) PROVE ClaimDiscipline'
  BY <1>20, ClaimFrame DEF claimVars, RequestChecks
<1>21. ASSUME CheckQueueBegins PROVE ClaimDiscipline'
  BY <1>21, ClaimFrame DEF claimVars, CheckQueueBegins
<1>22. ASSUME NEW i \in Items, LeaveItem(i) PROVE ClaimDiscipline'
  BY <1>22, ClaimFrame DEF claimVars, LeaveItem
<1>23. ASSUME NEW i \in Items, LeaveItemAndPrinter(i) PROVE ClaimDiscipline'
  BY <1>23, ClaimFrame DEF claimVars, LeaveItemAndPrinter
<1>24. ASSUME NEW i \in Items, NEW p \in Printers, BlockOnFilamentDeficit(i, p)
      PROVE  ClaimDiscipline'
  BY <1>24, ClaimFrame DEF claimVars, BlockOnFilamentDeficit
<1>25. ASSUME NEW i \in Items, NEW p \in Printers, SelectItem(i, p) PROVE ClaimDiscipline'
  BY <1>25, ClaimFrame DEF claimVars, SelectItem
<1>26. ASSUME CheckQueueRaises PROVE ClaimDiscipline'
  BY <1>26, ClaimFrame DEF claimVars, CheckQueueRaises
<1>27. ASSUME NEW w \in watch, WatchdogSeesActive(w) PROVE ClaimDiscipline'
  BY <1>27, ClaimFrame DEF claimVars, WatchdogSeesActive
<1>28. ASSUME NEW c \in cmds, PrinterTakes(c) PROVE ClaimDiscipline'
  BY <1>28, ClaimFrame DEF claimVars, PrinterTakes
<1>29. CASE Bystander \/ UNCHANGED vars
  BY <1>29, BystanderStep, ClaimFrame DEF claimVars, coreVars
<1> QED
  BY <1>1, <1>2, <1>3, <1>4, <1>5, <1>6, <1>7, <1>8, <1>9, <1>10, <1>11, <1>12, <1>13,
     <1>14, <1>15, <1>16, <1>17, <1>18, <1>19, <1>20, <1>21, <1>22, <1>23, <1>24, <1>25,
     <1>26, <1>27, <1>28, <1>29
     DEF Next, RouteStep, SchedulerStep, WorkerStepOf, WatchdogStep, PrinterStep,
         CallbackStep, Bystander

\* A row carries the dispatch claim exactly while a live worker has it (#2615).
THEOREM ClaimsAreHeld == Spec => []ClaimDiscipline
<1>1. Init => ClaimDiscipline
  BY DEF Init, ClaimDiscipline, ActiveWorker
<1>2. QueueInv /\ ClaimDiscipline /\ [Next]_vars => ClaimDiscipline'
  BY ClaimStep
<1> QED
  BY <1>1, <1>2, QueueInvariant, PTL DEF Spec

-----------------------------------------------------------------------------
(* Without requests that lag behind their checks *)

\* No request is between its check and its commit; rows follow their workers.
RowInv == req = {} /\ RowFollowsDispatch

rowVars == <<status, printer, poolVars, req>>

\* A step that leaves rows and workers alone keeps them together.
LEMMA RowFrame ==
    ASSUME RowInv, UNCHANGED rowVars
    PROVE  RowInv'
BY DEF RowInv, RowFollowsDispatch, rowVars, poolVars

\* An edit needs an unclaimed row, and a row of a worker is claimed.
LEMMA RowStep ==
    ASSUME "lag" \notin Env, QueueInv, ClaimDiscipline, RowInv, [Next]_vars
    PROVE  RowInv'
<1> USE ConstantsAssumption DEF QueueInv, TypeOK, Discipline, PoolAgrees, PassRows,
        ClaimDiscipline, ActiveWorker, RowInv, RowFollowsDispatch, WorkerStep,
        Assignment, tableVars, passVars, poolVars, holdVars, printerVars
<1>1. ASSUME NEW i \in Items, NEW a \in Assignment, NEW m \in BOOLEAN, AddItem(i, a, m)
      PROVE  RowInv'
  BY <1>1 DEF AddItem, SetStatus
<1>2. ASSUME NEW i \in Items, DeleteItem(i) PROVE RowInv'
  BY <1>2 DEF DeleteItem, SetStatus
<1>3. ASSUME NEW i \in Items, CancelItem(i) PROVE RowInv'
  BY <1>3 DEF CancelItem, Withdraw, OverwriteStatus, SetStatus
<1>4. ASSUME NEW i \in Items, NEW a \in Assignment, EditItem(i, a) PROVE RowInv'
  BY <1>4 DEF EditItem, MayEdit
<1>5. ASSUME NEW i \in Items, StopItem(i) PROVE RowInv'
  BY <1>5 DEF StopItem, SetStatus
<1>6. ASSUME NEW r \in Request, RequestChecks(r) PROVE RowInv'
  BY <1>6 DEF RequestChecks, MayEdit
<1>7. ASSUME NEW r \in Request, RequestCommits(r) PROVE RowInv'
  BY <1>7 DEF RequestCommits, Withdraw, OverwriteStatus, SetStatus
<1>8. ASSUME NEW p \in Printers, ResumePrinter(p) PROVE RowInv'
  BY <1>8 DEF ResumePrinter, Restorable
<1>9. ASSUME NEW i \in Items, SkipItem(i) PROVE RowInv'
  BY <1>9 DEF SkipItem, Considered, SetStatus
<1>10. ASSUME NEW i \in Items, NEW p \in Printers, BlockOnFilamentDeficit(i, p) PROVE RowInv'
  BY <1>10 DEF BlockOnFilamentDeficit, Considered, Candidate, Assign
<1>11. ASSUME NEW i \in Items, NEW p \in Printers, SelectItem(i, p) PROVE RowInv'
  BY <1>11 DEF SelectItem, Considered, Candidate, Assign
<1>12. ASSUME LaunchUploads PROVE RowInv'
  BY <1>12 DEF LaunchUploads, PassEnds
<1>13. ASSUME NEW i \in Items, ClaimForDispatch(i) PROVE RowInv'
  BY <1>13 DEF ClaimForDispatch, WorkerAt, WorkerGoes, WorkerEnds
<1>14. ASSUME NEW i \in Items, CheckBeforeUpload(i) PROVE RowInv'
  BY <1>14 DEF CheckBeforeUpload, WorkerAt, WorkerGoes, WorkerWrites, OverwriteStatus,
         SetStatus, IsConnected
<1>15. ASSUME NEW i \in Items, UploadFails(i) PROVE RowInv'
  BY <1>15 DEF UploadFails, WorkerAt, WorkerGoes, WorkerWrites, OverwriteStatus,
         SetStatus
<1>16. ASSUME NEW i \in Items, CommitPrinting(i) PROVE RowInv'
  BY <1>16 DEF CommitPrinting, WorkerAt, WorkerGoes, StillPending, SetStatus
<1>17. ASSUME NEW i \in Items, SendStart(i) PROVE RowInv'
  BY <1>17 DEF SendStart, WorkerAt, WorkerGoes, SetAwaiting, MayPublish
<1>18. ASSUME NEW i \in Items, RefusalSettles(i) PROVE RowInv'
  BY <1>18 DEF RefusalSettles, WorkerAt, WorkerGoes, WorkerWrites, OverwriteStatus,
         SetStatus
<1>19. ASSUME NEW i \in Items, ClearDispatchClaim(i) PROVE RowInv'
  BY <1>19 DEF ClearDispatchClaim, WorkerAt, WorkerEnds, WorkerGoes
<1>20. ASSUME NEW w \in watch, WatchdogTimesOut(w) PROVE RowInv'
  BY <1>20 DEF WatchdogTimesOut, ReleaseDispatchHold, Revert, BudgetSpent, SetStatus
<1>21. ASSUME NEW c \in callbacks, UpdateQueueStatus(c) PROVE RowInv'
  BY <1>21 DEF UpdateQueueStatus, PrintingOn, SetStatus, Callback
<1>22. ASSUME Restart PROVE RowInv'
  BY <1>22 DEF Restart, PassEnds, ClaimsAtStartup
<1> HIDE DEF QueueInv, TypeOK, Discipline, ClaimDiscipline, RowInv
<1>23. ASSUME CheckQueueBegins PROVE RowInv'
  BY <1>23, RowFrame DEF rowVars, CheckQueueBegins
<1>24. ASSUME NEW i \in Items, LeaveItem(i) PROVE RowInv'
  BY <1>24, RowFrame DEF rowVars, LeaveItem
<1>25. ASSUME NEW i \in Items, LeaveItemAndPrinter(i) PROVE RowInv'
  BY <1>25, RowFrame DEF rowVars, LeaveItemAndPrinter
<1>26. ASSUME CheckQueueRaises PROVE RowInv'
  BY <1>26, RowFrame DEF rowVars, CheckQueueRaises
<1>27. ASSUME NEW w \in watch, WatchdogSeesActive(w) PROVE RowInv'
  BY <1>27, RowFrame DEF rowVars, WatchdogSeesActive
<1>28. ASSUME NEW c \in cmds, PrinterTakes(c) PROVE RowInv'
  BY <1>28, RowFrame DEF rowVars, PrinterTakes
<1>29. CASE Bystander \/ UNCHANGED vars
  BY <1>29, BystanderStep, RowFrame DEF rowVars, coreVars
<1> QED
  BY <1>1, <1>2, <1>3, <1>4, <1>5, <1>6, <1>7, <1>8, <1>9, <1>10, <1>11, <1>12, <1>13,
     <1>14, <1>15, <1>16, <1>17, <1>18, <1>19, <1>20, <1>21, <1>22, <1>23, <1>24, <1>25,
     <1>26, <1>27, <1>28, <1>29
     DEF Next, RouteStep, SchedulerStep, WorkerStepOf, WatchdogStep, PrinterStep,
         CallbackStep, Bystander

\* No edit splits a row from the print its worker starts (#2615).
THEOREM RowsFollowDispatch == ASSUME "lag" \notin Env PROVE Spec => []RowFollowsDispatch
<1>1. Init => RowInv
  BY DEF Init, RowInv, RowFollowsDispatch
<1>2. QueueInv /\ ClaimDiscipline /\ RowInv /\ [Next]_vars => RowInv'
  BY RowStep
<1>3. RowInv => RowFollowsDispatch
  BY DEF RowInv
<1> QED
  BY <1>1, <1>2, <1>3, QueueInvariant, ClaimsAreHeld, PTL DEF Spec

\* A withdrawn row is out of the queue and not about to be sent, but for a gated
\* one, over which a pass may have written.
WithdrawnRows ==
    /\ req = {}
    /\ \A i \in withdrawn \ Gated : /\ status[i] \notin {"pending", "printing", "skipped"}
                                    /\ wpc[i] \notin {"committed", "refused"}

withdrawnVars == <<status, wpc, req, withdrawn>>

\* A step that leaves statuses and workers alone keeps withdrawn rows out.
LEMMA WithdrawnFrame ==
    ASSUME WithdrawnRows, UNCHANGED withdrawnVars
    PROVE  WithdrawnRows'
BY DEF WithdrawnRows, withdrawnVars

\* So does every step: nothing writes "skipped" over a row that is not gated.
LEMMA WithdrawnStep ==
    ASSUME "lag" \notin Env, QueueInv, WithdrawnRows, [Next]_vars
    PROVE  WithdrawnRows'
<1> USE ConstantsAssumption DEF QueueInv, TypeOK, Discipline, PoolAgrees, PassRows,
        CommittedRow, WatchedRows, AtRest, WithdrawnRows, WorkerStep, Watchdog,
        tableVars, passVars, poolVars, holdVars, printerVars
<1>1. ASSUME NEW i \in Items, NEW a \in Assignment, NEW m \in BOOLEAN, AddItem(i, a, m)
      PROVE  WithdrawnRows'
  BY <1>1 DEF AddItem, SetStatus
<1>2. ASSUME NEW i \in Items, DeleteItem(i) PROVE WithdrawnRows'
  BY <1>2 DEF DeleteItem, SetStatus
<1>3. ASSUME NEW i \in Items, CancelItem(i) PROVE WithdrawnRows'
  BY <1>3 DEF CancelItem, Withdraw, OverwriteStatus, SetStatus
<1>4. ASSUME NEW i \in Items, StopItem(i) PROVE WithdrawnRows'
  BY <1>4 DEF StopItem, SetStatus
<1>5. ASSUME NEW r \in Request, RequestChecks(r) PROVE WithdrawnRows'
  BY <1>5 DEF RequestChecks, MayEdit
<1>6. ASSUME NEW r \in Request, RequestCommits(r) PROVE WithdrawnRows'
  BY <1>6 DEF RequestCommits, Withdraw, OverwriteStatus, SetStatus
<1>7. ASSUME NEW p \in Printers, ResumePrinter(p) PROVE WithdrawnRows'
  BY <1>7 DEF ResumePrinter, Restorable
<1>8. ASSUME NEW i \in Items, SkipItem(i) PROVE WithdrawnRows'
  BY <1>8 DEF SkipItem, Considered, SetStatus, PreviousMayBlock
<1>9. ASSUME LaunchUploads PROVE WithdrawnRows'
  BY <1>9 DEF LaunchUploads, PassEnds
<1>10. ASSUME NEW i \in Items, ClaimForDispatch(i) PROVE WithdrawnRows'
  BY <1>10 DEF ClaimForDispatch, WorkerAt, WorkerGoes, WorkerEnds
<1>11. ASSUME NEW i \in Items, CheckBeforeUpload(i) PROVE WithdrawnRows'
  BY <1>11 DEF CheckBeforeUpload, WorkerAt, WorkerGoes, WorkerWrites, OverwriteStatus,
         SetStatus, IsConnected
<1>12. ASSUME NEW i \in Items, UploadFails(i) PROVE WithdrawnRows'
  BY <1>12 DEF UploadFails, WorkerAt, WorkerGoes, WorkerWrites, OverwriteStatus,
         SetStatus
<1>13. ASSUME NEW i \in Items, CommitPrinting(i) PROVE WithdrawnRows'
  BY <1>13 DEF CommitPrinting, WorkerAt, WorkerGoes, StillPending, SetStatus
<1>14. ASSUME NEW i \in Items, SendStart(i) PROVE WithdrawnRows'
  BY <1>14 DEF SendStart, WorkerAt, WorkerGoes, SetAwaiting, MayPublish
<1>15. ASSUME NEW i \in Items, RefusalSettles(i) PROVE WithdrawnRows'
  BY <1>15 DEF RefusalSettles, WorkerAt, WorkerGoes, WorkerWrites, OverwriteStatus,
         SetStatus
<1>16. ASSUME NEW i \in Items, ClearDispatchClaim(i) PROVE WithdrawnRows'
  BY <1>16 DEF ClearDispatchClaim, WorkerAt, WorkerEnds, WorkerGoes
<1>17. ASSUME NEW w \in watch, WatchdogTimesOut(w) PROVE WithdrawnRows'
  BY <1>17 DEF WatchdogTimesOut, ReleaseDispatchHold, Revert, BudgetSpent, SetStatus
<1>18. ASSUME NEW c \in callbacks, UpdateQueueStatus(c) PROVE WithdrawnRows'
  BY <1>18 DEF UpdateQueueStatus, PrintingOn, SetStatus, Callback
<1>19. ASSUME Restart PROVE WithdrawnRows'
  BY <1>19 DEF Restart, PassEnds, ClaimsAtStartup
<1> HIDE DEF QueueInv, TypeOK, Discipline, WithdrawnRows
<1>20. ASSUME NEW i \in Items, NEW a \in Assignment, EditItem(i, a) PROVE WithdrawnRows'
  BY <1>20, WithdrawnFrame DEF withdrawnVars, EditItem
<1>21. ASSUME CheckQueueBegins PROVE WithdrawnRows'
  BY <1>21, WithdrawnFrame DEF withdrawnVars, CheckQueueBegins
<1>22. ASSUME NEW i \in Items, LeaveItem(i) PROVE WithdrawnRows'
  BY <1>22, WithdrawnFrame DEF withdrawnVars, LeaveItem
<1>23. ASSUME NEW i \in Items, LeaveItemAndPrinter(i) PROVE WithdrawnRows'
  BY <1>23, WithdrawnFrame DEF withdrawnVars, LeaveItemAndPrinter
<1>24. ASSUME NEW i \in Items, NEW p \in Printers, BlockOnFilamentDeficit(i, p)
      PROVE  WithdrawnRows'
  BY <1>24, WithdrawnFrame DEF withdrawnVars, BlockOnFilamentDeficit
<1>25. ASSUME NEW i \in Items, NEW p \in Printers, SelectItem(i, p) PROVE WithdrawnRows'
  BY <1>25, WithdrawnFrame DEF withdrawnVars, SelectItem
<1>26. ASSUME CheckQueueRaises PROVE WithdrawnRows'
  BY <1>26, WithdrawnFrame DEF withdrawnVars, CheckQueueRaises
<1>27. ASSUME NEW w \in watch, WatchdogSeesActive(w) PROVE WithdrawnRows'
  BY <1>27, WithdrawnFrame DEF withdrawnVars, WatchdogSeesActive
<1>28. ASSUME NEW c \in cmds, PrinterTakes(c) PROVE WithdrawnRows'
  BY <1>28, WithdrawnFrame DEF withdrawnVars, PrinterTakes
<1>29. CASE Bystander \/ UNCHANGED vars
  BY <1>29, BystanderStep, WithdrawnFrame DEF withdrawnVars, coreVars
<1> QED
  BY <1>1, <1>2, <1>3, <1>4, <1>5, <1>6, <1>7, <1>8, <1>9, <1>10, <1>11, <1>12, <1>13,
     <1>14, <1>15, <1>16, <1>17, <1>18, <1>19, <1>20, <1>21, <1>22, <1>23, <1>24, <1>25,
     <1>26, <1>27, <1>28, <1>29
     DEF Next, RouteStep, SchedulerStep, WorkerStepOf, WatchdogStep, PrinterStep,
         CallbackStep, Bystander

\* A cancel wins against the dispatch of the row (#1853).
THEOREM CancelWinsDispatch ==
    ASSUME "lag" \notin Env
    PROVE  Spec => []CancelWins
<1>1. Init => WithdrawnRows
  BY DEF Init, WithdrawnRows
<1>2. QueueInv /\ WithdrawnRows /\ [Next]_vars => WithdrawnRows'
  BY WithdrawnStep
<1>3. WithdrawnRows => CancelWins
  BY DEF WithdrawnRows, CancelWins
<1> QED
  BY <1>1, <1>2, <1>3, QueueInvariant, PTL DEF Spec

-----------------------------------------------------------------------------
(* Whatever the environment does, a row that has its outcome keeps out *)

Final == {"completed", "failed", "cancelled"}

\* What may become of the rows in a step.
OutcomesKept ==
    \A i \in Items \ Gated :
        status[i] \in Final /\ wpc[i] # "refused"
            => status'[i] \notin {"pending", "printing", "skipped"}

\* A step that puts no row into the queue keeps outcomes.
LEMMA NoRowReturns ==
    ASSUME \A i \in Items : \/ status'[i] \in Final \cup {"absent"}
                            \/ status'[i] = status[i]
                            \/ status[i] \notin Final
                            \/ wpc[i] = "refused"
                            \/ i \in Gated
    PROVE  OutcomesKept
BY DEF OutcomesKept, Final

\* Every step keeps them.
LEMMA OutcomeStep ==
    ASSUME QueueInv, [Next]_vars
    PROVE  OutcomesKept
<1>0. status \in [Items -> Status]
  BY DEF QueueInv, TypeOK
<1>1. ASSUME NEW i \in Items, NEW a \in Assignment, NEW m \in BOOLEAN, AddItem(i, a, m)
      PROVE  OutcomesKept
  BY <1>0, <1>1, NoRowReturns DEF AddItem, SetStatus, Final
<1>2. ASSUME NEW i \in Items, DeleteItem(i) PROVE OutcomesKept
  BY <1>0, <1>2, NoRowReturns DEF DeleteItem, SetStatus, Final
<1>3. ASSUME NEW i \in Items, CancelItem(i) \/ StopItem(i) PROVE OutcomesKept
  BY <1>0, <1>3, NoRowReturns DEF CancelItem, StopItem, Withdraw, OverwriteStatus, SetStatus, Final
<1>4. ASSUME NEW r \in Request, RequestCommits(r) PROVE OutcomesKept
  BY <1>0, <1>4, NoRowReturns DEF RequestCommits, Withdraw, OverwriteStatus, SetStatus, Final
<1>5. ASSUME NEW p \in Printers, ResumePrinter(p) PROVE OutcomesKept
  BY <1>0, <1>5, NoRowReturns DEF ResumePrinter, Restorable, Final
<1>6. ASSUME NEW i \in Items, SkipItem(i) PROVE OutcomesKept
  BY <1>0, <1>6, NoRowReturns DEF SkipItem, PreviousMayBlock, SetStatus, Final
<1>7. ASSUME NEW i \in Items, CheckBeforeUpload(i) \/ UploadFails(i) PROVE OutcomesKept
  BY <1>0, <1>7, NoRowReturns
     DEF CheckBeforeUpload, UploadFails, WorkerWrites, OverwriteStatus, SetStatus, Final
<1>8. ASSUME NEW i \in Items, CommitPrinting(i) PROVE OutcomesKept
  BY <1>0, <1>8, NoRowReturns DEF CommitPrinting, StillPending, SetStatus, Final
<1>9. ASSUME NEW i \in Items, RefusalSettles(i) PROVE OutcomesKept
  BY <1>0, <1>9, NoRowReturns DEF RefusalSettles, WorkerAt, WorkerWrites, OverwriteStatus, SetStatus
<1>10. ASSUME NEW w \in watch, WatchdogTimesOut(w) PROVE OutcomesKept
  BY <1>0, <1>10, NoRowReturns DEF WatchdogTimesOut, Revert, SetStatus, Final
<1>11. ASSUME NEW c \in callbacks, UpdateQueueStatus(c) PROVE OutcomesKept
  BY <1>0, <1>11, NoRowReturns DEF UpdateQueueStatus, PrintingOn, SetStatus, Final
<1>12. CASE UNCHANGED status
  BY <1>12, NoRowReturns
<1>13. ASSUME NEW i \in Items, NEW a \in Assignment, EditItem(i, a) PROVE OutcomesKept
  BY <1>12, <1>13 DEF EditItem
<1>14. ASSUME NEW r \in Request, RequestChecks(r) PROVE OutcomesKept
  BY <1>12, <1>14 DEF RequestChecks, tableVars
<1>15. ASSUME NEW i \in Items, NEW p \in Printers, BlockOnFilamentDeficit(i, p) \/ SelectItem(i, p)
       PROVE  OutcomesKept
  BY <1>12, <1>15 DEF BlockOnFilamentDeficit, SelectItem
<1>16. ASSUME NEW i \in Items, LeaveItem(i) \/ LeaveItemAndPrinter(i) PROVE OutcomesKept
  BY <1>12, <1>16 DEF LeaveItem, LeaveItemAndPrinter, tableVars
<1>17. ASSUME CheckQueueBegins \/ CheckQueueRaises \/ LaunchUploads PROVE OutcomesKept
  BY <1>12, <1>17 DEF CheckQueueBegins, CheckQueueRaises, LaunchUploads, tableVars
<1>18. ASSUME NEW i \in Items, ClaimForDispatch(i) \/ SendStart(i) \/ ClearDispatchClaim(i)
       PROVE  OutcomesKept
  BY <1>12, <1>18 DEF ClaimForDispatch, SendStart, ClearDispatchClaim, tableVars
<1>19. ASSUME NEW w \in watch, WatchdogSeesActive(w) PROVE OutcomesKept
  BY <1>12, <1>19 DEF WatchdogSeesActive, tableVars
<1>20. ASSUME NEW c \in cmds, PrinterTakes(c) PROVE OutcomesKept
  BY <1>12, <1>20 DEF PrinterTakes, tableVars
<1>21. ASSUME Restart PROVE OutcomesKept
  BY <1>12, <1>21 DEF Restart
<1>22. CASE Bystander \/ UNCHANGED vars
  BY <1>12, <1>22, BystanderStep DEF coreVars, tableVars
<1> QED
  BY <1>1, <1>2, <1>3, <1>4, <1>5, <1>6, <1>7, <1>8, <1>9, <1>10, <1>11, <1>13, <1>14,
     <1>15, <1>16, <1>17, <1>18, <1>19, <1>20, <1>21, <1>22
     DEF Next, RouteStep, SchedulerStep, WorkerStepOf, WatchdogStep, PrinterStep,
         CallbackStep, Bystander

\* A row that has its outcome is not printed again (#1853).
THEOREM OutcomesAreFinal == Spec => OutcomeIsFinal
<1>1. QueueInv /\ [Next]_vars => [OutcomesKept]_vars
  BY OutcomeStep
<1>2. [OutcomesKept]_vars =>
          [\A i \in Items \ Gated :
              status[i] \in {"completed", "failed", "cancelled"} /\ wpc[i] # "refused"
                  => status'[i] \notin {"pending", "printing", "skipped"}]_vars
  BY DEF OutcomesKept, Final
<1> QED
  BY <1>1, <1>2, QueueInvariant, PTL DEF Spec, OutcomeIsFinal

-----------------------------------------------------------------------------
(* Without edits: one printing row per printer *)

\* No edit is under way.
OnlyCancels == \A r \in req : r.kind = "cancel"

\* The row of a worker names the printer its slot is booked for.
WorkerRow ==
    \A i \in Items : wpc[i] # "none" /\ status[i] # "absent" => printer[i] = inflight[i]

\* Workers have different printers.
OneWorker ==
    \A i, j \in Items : inflight[i] # NoPrinter /\ inflight[i] = inflight[j] => i = j

\* Nothing else is printing where a worker is about to start its row.
NoRival ==
    \A i \in Items :
        status[i] = "printing" =>
            /\ printer[i] \in Printers
            /\ \A j \in Items : inflight[j] = printer[i] => i = j

\* The pass keeps off the printers in use.
PassAvoids ==
    passing => \A i \in Items :
        /\ inflight[i] # NoPrinter => inflight[i] \in busy
        /\ status[i] = "printing" => printer[i] \in busy

\* Its copies are up to date, unless the row is gone.
PassCopies ==
    \A i \in todo \cup picked :
        /\ status[i] # "printing"
        /\ status[i] = "absent" \/ printer[i] = snap[i]

\* The printers it picked are booked, unused and different.
PassPicks ==
    \A i \in picked :
        /\ snap[i] \in busy
        /\ \A j \in Items : /\ inflight[j] # snap[i]
                            /\ status[j] = "printing" => printer[j] # snap[i]
        /\ \A j \in picked : snap[j] = snap[i] => i = j

PrinterUse ==
    /\ OnlyCancels
    /\ WorkerRow
    /\ OneWorker
    /\ NoRival
    /\ OnePrintingRow
    /\ PassAvoids
    /\ PassCopies
    /\ PassPicks

useVars == <<status, printer, passVars, poolVars, req>>

\* A step that leaves rows, pass and workers alone keeps the use of printers.
LEMMA UseFrame ==
    ASSUME QueueInv, PrinterUse, UNCHANGED useVars
    PROVE  PrinterUse'
BY DEF QueueInv, PrinterUse, useVars, passVars, poolVars, OnlyCancels, WorkerRow, OneWorker,
       NoRival, OnePrintingRow, PassAvoids, PassCopies, PassPicks

\* Every step keeps it: a pass picks printers that nothing uses, a worker starts
\* its row where the pass booked it.
LEMMA PrinterUseStep ==
    ASSUME "reassign" \notin Env, QueueInv, PrinterUse, [Next]_vars
    PROVE  PrinterUse'
<1> USE ConstantsAssumption DEF QueueInv, TypeOK, Discipline, PoolAgrees, PassRows,
        PrinterUse, OnlyCancels, WorkerRow, OneWorker, NoRival, OnePrintingRow,
        PassAvoids, PassCopies, PassPicks, Assignment, WorkerStep, tableVars, passVars,
        poolVars, holdVars, printerVars
<1>1. ASSUME NEW i \in Items, NEW a \in Assignment, NEW m \in BOOLEAN, AddItem(i, a, m)
      PROVE  PrinterUse'
  BY <1>1 DEF AddItem, SetStatus
<1>2. ASSUME NEW i \in Items, DeleteItem(i) PROVE PrinterUse'
  BY <1>2 DEF DeleteItem, SetStatus
<1>3. ASSUME NEW i \in Items, CancelItem(i) PROVE PrinterUse'
  BY <1>3 DEF CancelItem, Withdraw, OverwriteStatus, SetStatus
<1>4. ASSUME NEW i \in Items, NEW a \in Assignment, EditItem(i, a) PROVE PrinterUse'
  BY <1>4 DEF EditItem, MayEdit
<1>5. ASSUME NEW i \in Items, StopItem(i) PROVE PrinterUse'
  BY <1>5 DEF StopItem, SetStatus
<1>6. ASSUME NEW r \in Request, RequestChecks(r) PROVE PrinterUse'
  BY <1>6 DEF RequestChecks, MayEdit, Request
<1>7. ASSUME NEW r \in Request, RequestCommits(r) PROVE PrinterUse'
  BY <1>7 DEF RequestCommits, Withdraw, OverwriteStatus, SetStatus, Request
<1>8. ASSUME NEW p \in Printers, ResumePrinter(p) PROVE PrinterUse'
  BY <1>8 DEF ResumePrinter, Restorable
<1>9. ASSUME CheckQueueBegins PROVE PrinterUse'
  BY <1>9 DEF CheckQueueBegins, Selectable, BusySeed, HeldPrinters, PrintingPrinters,
         InFlight, PrintingOn
<1>10. ASSUME NEW i \in Items, LeaveItem(i) PROVE PrinterUse'
  BY <1>10 DEF LeaveItem, Considered
<1>11. ASSUME NEW i \in Items, LeaveItemAndPrinter(i) PROVE PrinterUse'
  BY <1>11 DEF LeaveItemAndPrinter, Considered
<1>12. ASSUME NEW i \in Items, SkipItem(i) PROVE PrinterUse'
  BY <1>12 DEF SkipItem, Considered, SetStatus
<1>13. ASSUME NEW i \in Items, NEW p \in Printers, BlockOnFilamentDeficit(i, p)
      PROVE  PrinterUse'
  BY <1>13 DEF BlockOnFilamentDeficit, Considered, Candidate, Assign
<1>14. ASSUME NEW i \in Items, NEW p \in Printers, SelectItem(i, p) PROVE PrinterUse'
  BY <1>14 DEF SelectItem, Considered, Candidate, Assign
<1>15. ASSUME CheckQueueRaises PROVE PrinterUse'
  BY <1>15 DEF CheckQueueRaises, PassEnds
<1>16. ASSUME LaunchUploads PROVE PrinterUse'
  BY <1>16 DEF LaunchUploads, PassEnds
<1>17. ASSUME NEW i \in Items, ClaimForDispatch(i) PROVE PrinterUse'
  BY <1>17 DEF ClaimForDispatch, WorkerAt, WorkerGoes, WorkerEnds
<1>18. ASSUME NEW i \in Items, CheckBeforeUpload(i) PROVE PrinterUse'
  BY <1>18 DEF CheckBeforeUpload, WorkerAt, WorkerGoes, WorkerWrites, OverwriteStatus,
         SetStatus, IsConnected
<1>19. ASSUME NEW i \in Items, UploadFails(i) PROVE PrinterUse'
  BY <1>19 DEF UploadFails, WorkerAt, WorkerGoes, WorkerWrites, OverwriteStatus,
         SetStatus
<1>20. ASSUME NEW i \in Items, CommitPrinting(i) PROVE PrinterUse'
  BY <1>20 DEF CommitPrinting, WorkerAt, WorkerGoes, StillPending, SetStatus
<1>21. ASSUME NEW i \in Items, SendStart(i) PROVE PrinterUse'
  BY <1>21 DEF SendStart, WorkerAt, WorkerGoes, SetAwaiting, MayPublish
<1>22. ASSUME NEW i \in Items, RefusalSettles(i) PROVE PrinterUse'
  BY <1>22 DEF RefusalSettles, WorkerAt, WorkerGoes, WorkerWrites, OverwriteStatus,
         SetStatus
<1>23. ASSUME NEW i \in Items, ClearDispatchClaim(i) PROVE PrinterUse'
  BY <1>23 DEF ClearDispatchClaim, WorkerAt, WorkerEnds, WorkerGoes
<1>24. ASSUME NEW w \in watch, WatchdogTimesOut(w) PROVE PrinterUse'
  BY <1>24 DEF WatchdogTimesOut, ReleaseDispatchHold, Revert, BudgetSpent, SetStatus,
         Watchdog
<1>25. ASSUME NEW c \in callbacks, UpdateQueueStatus(c) PROVE PrinterUse'
  BY <1>25 DEF UpdateQueueStatus, PrintingOn, SetStatus, Callback
<1>26. ASSUME Restart PROVE PrinterUse'
  BY <1>26 DEF Restart, PassEnds, ClaimsAtStartup
<1> HIDE DEF QueueInv, TypeOK, Discipline, PrinterUse, Assignment
<1>27. ASSUME NEW w \in watch, WatchdogSeesActive(w) PROVE PrinterUse'
  BY <1>27, UseFrame DEF useVars, WatchdogSeesActive
<1>28. ASSUME NEW c \in cmds, PrinterTakes(c) PROVE PrinterUse'
  BY <1>28, UseFrame DEF useVars, PrinterTakes
<1>29. CASE Bystander \/ UNCHANGED vars
  BY <1>29, BystanderStep, UseFrame DEF useVars, coreVars
<1> QED
  BY <1>1, <1>2, <1>3, <1>4, <1>5, <1>6, <1>7, <1>8, <1>9, <1>10, <1>11, <1>12, <1>13,
     <1>14, <1>15, <1>16, <1>17, <1>18, <1>19, <1>20, <1>21, <1>22, <1>23, <1>24, <1>25,
     <1>26, <1>27, <1>28, <1>29
     DEF Next, RouteStep, SchedulerStep, WorkerStepOf, WatchdogStep, PrinterStep,
         CallbackStep, Bystander

\* PrinterUse is an invariant of a queue without edits.
LEMMA PrinterUseInvariant == ASSUME "reassign" \notin Env PROVE Spec => []PrinterUse
<1>1. Init => PrinterUse
  BY ConstantsAssumption
     DEF Init, PrinterUse, OnlyCancels, WorkerRow, OneWorker, NoRival, OnePrintingRow,
         PassAvoids, PassCopies, PassPicks
<1>2. QueueInv /\ PrinterUse /\ [Next]_vars => PrinterUse'
  BY PrinterUseStep
<1> QED
  BY <1>1, <1>2, QueueInvariant, PTL DEF Spec

\* At most one row per printer is printing, as long as rows stay on the printer
\* they were queued for (#2598, #2602).
THEOREM OneRowPerPrinter == ASSUME "reassign" \notin Env PROVE Spec => []OnePrintingRow
<1>1. PrinterUse => OnePrintingRow
  BY DEF PrinterUse
<1> QED
  BY <1>1, PrinterUseInvariant, PTL

-----------------------------------------------------------------------------
(* Without edits: the queue implements PrintRuns *)

Printing == {j \in Items : status[j] = "printing"}
Running == {<<i, printer[i]>> : i \in Printing}
RunStep == [Runs!Next]_(Runs!vars)

\* The rows that print, and where, stay as they are.
LEMMA RunsKept ==
    ASSUME Printing' = Printing, \A i \in Printing : printer'[i] = printer[i], UNCHANGED attempts
    PROVE  RunStep
<1>1. Running' = Running
  BY DEF Running
<1> QED
  BY <1>1 DEF RunStep, Runs!vars, Running, Printing

\* One row does not print any more.
LEMMA RunLeaves ==
    ASSUME NEW i \in Printing, Printing' = Printing \ {i}, UNCHANGED printer
    PROVE  <<i, printer[i]>> \in Running /\ Running' = Running \ {<<i, printer[i]>>}
<1>1. \A j \in Printing \ {i} : <<j, printer[j]>> # <<i, printer[i]>>
  OBVIOUS
<1>2. Running' = {<<j, printer[j]>> : j \in Printing \ {i}}
  BY DEF Running
<1> QED
  BY <1>1, <1>2 DEF Running

\* A row that may or may not have printed does not any more.
LEMMA RunEnds ==
    ASSUME PrinterUse, NEW i \in Items, Printing' = Printing \ {i}, UNCHANGED <<printer, attempts>>
    PROVE  RunStep
<1>1. CASE i \in Printing
  <2>1. PICK p \in Printers : p = printer[i]
    BY <1>1 DEF PrinterUse, NoRival, Printing
  <2>2. Runs!End(i, p)
    BY <1>1, <2>1, RunLeaves DEF Runs!End, Running, Printing
  <2> QED
    BY <2>2 DEF RunStep, Runs!Next
<1>2. CASE i \notin Printing
  <2>1. Printing' = Printing
    BY <1>2
  <2> QED
    BY <2>1, RunsKept
<1> QED
  BY <1>1, <1>2

\* A watchdog takes a dispatch back, or finds the row moved on.
LEMMA RevertTakesBack ==
    ASSUME QueueInv, PrinterUse, NEW i \in Items, Revert(i), UNCHANGED printer
    PROVE  RunStep
<1>1. CASE status[i] = "printing"
  <2>1. attempts' = [attempts EXCEPT ![i] = @ + 1]
    BY <1>1 DEF Revert
  <2>2. i \in Printing /\ Printing' = Printing \ {i}
    BY <1>1 DEF Revert, SetStatus, Printing, QueueInv, TypeOK
  <2>3. PICK p \in Printers : p = printer[i]
    BY <1>1 DEF PrinterUse, NoRival
  <2>4. Runs!TakeBack(i, p)
    BY <2>1, <2>2, <2>3, RunLeaves DEF Runs!TakeBack, Running, Printing
  <2> QED
    BY <2>4 DEF RunStep, Runs!Next
<1>2. CASE status[i] # "printing"
  <2>1. UNCHANGED <<status, attempts>>
    BY <1>2 DEF Revert
  <2> QED
    BY <2>1, RunsKept DEF Printing
<1> QED
  BY <1>1, <1>2

\* A worker commits its row: its printer runs nothing else, and the row has an
\* attempt left.
LEMMA CommitBegins ==
    ASSUME QueueInv, PrinterUse, PrinterUse', NEW i \in Items, CommitPrinting(i)
    PROVE  RunStep
<1>1. UNCHANGED <<printer, attempts>>
  BY DEF CommitPrinting
<1>2. CASE status[i] = "pending"
  <2>1. status' = [status EXCEPT ![i] = "printing"] /\ status \in [Items -> Status]
    BY <1>2 DEF CommitPrinting, StillPending, SetStatus, QueueInv, TypeOK
  <2>2. i \notin Printing /\ Printing' = Printing \cup {i}
    BY <1>2, <2>1 DEF Printing
  <2>3. PICK p \in Printers : p = printer[i] /\ \A j \in Printing : j # i /\ printer[j] # p
    BY <1>1, <2>1, <2>2 DEF PrinterUse, NoRival, OnePrintingRow, Printing
  <2>4. attempts[i] < MaxAttempts
    BY <1>2, ConstantsAssumption DEF QueueInv, TypeOK, Discipline, SpentRows, AtRest
  <2>5. Running' = Running \cup {<<i, p>>}
    BY <1>1, <2>2, <2>3 DEF Running
  <2>6. \A run \in Running : run[1] # i /\ run[2] # p
    BY <2>3 DEF Running
  <2>7. Runs!Begin(i, p)
    BY <1>1, <2>4, <2>5, <2>6 DEF Runs!Begin, Running, Printing
  <2> QED
    BY <2>7 DEF RunStep, Runs!Next
<1>3. CASE status[i] # "pending"
  <2>1. Printing' = Printing
    BY <1>3 DEF CommitPrinting, StillPending, Printing
  <2> QED
    BY <1>1, <2>1, RunsKept
<1> QED
  BY <1>2, <1>3

\* A deleted row takes its attempts along.
LEMMA DeleteForgets ==
    ASSUME QueueInv, NEW i \in Items, DeleteItem(i)
    PROVE  RunStep
<1>1. i \notin Printing /\ Printing' = Printing /\ \A j \in Printing : printer'[j] = printer[j]
  BY DEF DeleteItem, SetStatus, Printing, QueueInv, TypeOK
<1>2. Running' = Running
  BY <1>1 DEF Running
<1>3. \A run \in Running : run[1] # i
  BY <1>1 DEF Running
<1>4. Runs!Forget(i)
  BY <1>2, <1>3 DEF Runs!Forget, DeleteItem, Running, Printing
<1> QED
  BY <1>4 DEF RunStep, Runs!Next

\* Every step is a step of the contract, or a stutter.
LEMMA StepRuns ==
    ASSUME "reassign" \notin Env, QueueInv, PrinterUse, PrinterUse', [Next]_vars
    PROVE  RunStep
<1>0. status \in [Items -> Status] /\ printer \in [Items -> Assignment]
  BY DEF QueueInv, TypeOK
<1>1. ASSUME NEW i \in Items, NEW a \in Assignment, NEW m \in BOOLEAN, AddItem(i, a, m)
      PROVE  RunStep
  <2>1. Printing' = Printing /\ \A j \in Printing : printer'[j] = printer[j]
    BY <1>0, <1>1 DEF AddItem, SetStatus, Printing
  <2> QED
    BY <1>1, <2>1, RunsKept DEF AddItem
<1>2. ASSUME NEW i \in Items, DeleteItem(i) PROVE RunStep
  BY <1>2, DeleteForgets
<1>3. ASSUME NEW i \in Items, CancelItem(i) PROVE RunStep
  <2>1. Printing' = Printing \ {i}
    BY <1>0, <1>3 DEF CancelItem, Withdraw, OverwriteStatus, SetStatus, Printing
  <2> QED
    BY <1>3, <2>1, RunEnds DEF CancelItem
<1>4. ASSUME NEW i \in Items, NEW a \in Assignment, EditItem(i, a) PROVE RunStep
  BY <1>4 DEF EditItem
<1>5. ASSUME NEW i \in Items, StopItem(i) PROVE RunStep
  <2>1. Printing' = Printing \ {i}
    BY <1>0, <1>5 DEF StopItem, SetStatus, Printing
  <2> QED
    BY <1>5, <2>1, RunEnds DEF StopItem
<1>6. ASSUME NEW r \in Request, RequestCommits(r) PROVE RunStep
  <2>1. r.kind = "cancel"
    BY <1>6 DEF RequestCommits, PrinterUse, OnlyCancels
  <2>2. r.item \in Items
    BY <1>6 DEF Request
  <2>3. Printing' = Printing \ {r.item} \/ Printing' = Printing
    BY <1>0, <1>6, <2>1, <2>2 DEF RequestCommits, Withdraw, OverwriteStatus, SetStatus, Printing
  <2>4. UNCHANGED <<printer, attempts>>
    BY <1>6, <2>1 DEF RequestCommits
  <2> QED
    BY <2>2, <2>3, <2>4, RunEnds, RunsKept
<1>7. ASSUME NEW p \in Printers, ResumePrinter(p) PROVE RunStep
  <2>1. Printing' = Printing
    BY <1>0, <1>7 DEF ResumePrinter, Restorable, Printing
  <2> QED
    BY <1>7, <2>1, RunsKept DEF ResumePrinter
<1>8. ASSUME NEW i \in Items, SkipItem(i) PROVE RunStep
  <2>1. Printing' = Printing \ {i}
    BY <1>0, <1>8 DEF SkipItem, SetStatus, Printing
  <2> QED
    BY <1>8, <2>1, RunEnds DEF SkipItem
<1>9. ASSUME NEW i \in Items, NEW p \in Printers, BlockOnFilamentDeficit(i, p) \/ SelectItem(i, p)
      PROVE  RunStep
  <2>1. UNCHANGED <<status, attempts>> /\ i \in todo /\ Assign(i, p)
    BY <1>9 DEF BlockOnFilamentDeficit, SelectItem, Considered
  <2>2. status[i] # "printing"
    BY <2>1 DEF PrinterUse, PassCopies
  <2>3. Printing' = Printing /\ \A j \in Printing : printer'[j] = printer[j]
    BY <1>0, <2>1, <2>2 DEF Assign, Printing
  <2> QED
    BY <2>1, <2>3, RunsKept
<1>10. ASSUME NEW i \in Items, CommitPrinting(i) PROVE RunStep
  BY <1>10, CommitBegins
<1>11. ASSUME NEW i \in Items, CheckBeforeUpload(i) \/ UploadFails(i) \/ RefusalSettles(i)
       PROVE  RunStep
  <2>1. UNCHANGED <<printer, attempts>>
    BY <1>11 DEF CheckBeforeUpload, UploadFails, RefusalSettles
  <2>2. Printing' = Printing \ {i} \/ Printing' = Printing
    BY <1>0, <1>11
       DEF CheckBeforeUpload, UploadFails, RefusalSettles, WorkerWrites, OverwriteStatus,
           SetStatus, Printing
  <2> QED
    BY <2>1, <2>2, RunEnds, RunsKept
<1>12. ASSUME NEW w \in watch, WatchdogTimesOut(w) PROVE RunStep
  <2>1. w.item \in Items
    BY <1>12 DEF QueueInv, TypeOK, Watchdog
  <2>2. Revert(w.item) \/ UNCHANGED <<attempts, status>>
    BY <1>12 DEF WatchdogTimesOut
  <2>3. UNCHANGED printer
    BY <1>12 DEF WatchdogTimesOut
  <2> QED
    BY <2>1, <2>2, <2>3, RevertTakesBack, RunsKept DEF Printing
<1>13. ASSUME NEW c \in callbacks, UpdateQueueStatus(c) PROVE RunStep
  <2>1. c.outcome # "printing"
    BY <1>13, ConstantsAssumption DEF QueueInv, TypeOK, Callback
  <2>2. UNCHANGED <<printer, attempts>>
    BY <1>13 DEF UpdateQueueStatus
  <2>3. CASE UNCHANGED status
    BY <2>2, <2>3, RunsKept DEF Printing
  <2>4. ASSUME NEW i \in PrintingOn(c.printer), SetStatus(i, c.outcome) PROVE RunStep
    <3>1. i \in Items /\ Printing' = Printing \ {i}
      BY <1>0, <2>1, <2>4 DEF PrintingOn, SetStatus, Printing
    <3> QED
      BY <2>2, <3>1, RunEnds
  <2> QED
    BY <1>13, <2>3, <2>4 DEF UpdateQueueStatus
<1>14. CASE UNCHANGED <<status, printer, attempts>>
  BY <1>14, RunsKept DEF Printing
<1>15. ASSUME NEW i \in Items, LeaveItem(i) \/ LeaveItemAndPrinter(i) PROVE RunStep
  BY <1>14, <1>15 DEF LeaveItem, LeaveItemAndPrinter, tableVars
<1>16. ASSUME CheckQueueBegins \/ CheckQueueRaises \/ LaunchUploads PROVE RunStep
  BY <1>14, <1>16 DEF CheckQueueBegins, CheckQueueRaises, LaunchUploads, tableVars
<1>17. ASSUME NEW i \in Items, ClaimForDispatch(i) \/ SendStart(i) \/ ClearDispatchClaim(i)
       PROVE  RunStep
  BY <1>14, <1>17 DEF ClaimForDispatch, SendStart, ClearDispatchClaim, tableVars
<1>18. ASSUME NEW w \in watch, WatchdogSeesActive(w) PROVE RunStep
  BY <1>14, <1>18 DEF WatchdogSeesActive, tableVars
<1>19. ASSUME NEW c \in cmds, PrinterTakes(c) PROVE RunStep
  BY <1>14, <1>19 DEF PrinterTakes, tableVars
<1>20. ASSUME NEW r \in Request, RequestChecks(r) PROVE RunStep
  BY <1>14, <1>20 DEF RequestChecks, tableVars
<1>21. ASSUME Restart PROVE RunStep
  BY <1>14, <1>21 DEF Restart
<1>22. CASE Bystander \/ UNCHANGED vars
  BY <1>14, <1>22, BystanderStep DEF coreVars, tableVars
<1> QED
  BY <1>1, <1>2, <1>3, <1>4, <1>5, <1>6, <1>7, <1>8, <1>9, <1>10, <1>11, <1>12, <1>13,
     <1>15, <1>16, <1>17, <1>18, <1>19, <1>20, <1>21, <1>22
     DEF Next, RouteStep, SchedulerStep, WorkerStepOf, WatchdogStep, PrinterStep,
         CallbackStep, Bystander

\* The queue keeps the contract of the prints it runs, as long as users do not
\* move rows between printers (#2555, #2598, #2602).
THEOREM QueueImplementsRuns == ASSUME "reassign" \notin Env PROVE Spec => OneRunAtATime
<1>1. Init => Runs!Init
  <2>1. Init => Running = {} /\ attempts = [i \in Items |-> 0]
    BY DEF Init, Running, Printing
  <2> QED
    BY <2>1 DEF Runs!Init, Running, Printing
<1>2. QueueInv /\ PrinterUse /\ PrinterUse' /\ [Next]_vars => [Runs!Next]_(Runs!vars)
  BY StepRuns DEF RunStep
<1> QED
  BY <1>1, <1>2, QueueInvariant, PrinterUseInvariant, PTL DEF Spec, OneRunAtATime, Runs!Spec

-----------------------------------------------------------------------------
(* Without edits: a start command keeps other dispatches off its printer *)

\* A worker sends its command to the printer its slot is booked for.
BookedWorker ==
    \A i \in Items : wpc[i] \in {"uploading", "committed"} => wprinter[i] = inflight[i]

\* A cache of a session that is up is the state of the printer.
FreshCache == \A p \in Printers : conn[p] => gcode[p] = act[p]

\* The commands that have not reached their printer.
OnTheWire == {c \in cmds : c.st = "wire"}

\* Such a command is the only one on its way there, the hold is in force or
\* the printer runs, which it will not stop doing unseen ...
StartHolds ==
    \A c \in OnTheWire :
        /\ \A d \in OnTheWire : d.printer = c.printer => d = c
        /\ IsPrinterActive(c.printer) \/ (hold[c.printer] # "none" /\ ~moved[c.printer])
        /\ act[c.printer] = "RUNNING" \/ gcode[c.printer] = act[c.printer]

\* ... and nothing else is about to be sent there.
StartIsAlone ==
    \A c \in OnTheWire :
        /\ passing => c.printer \in busy \/ IsPrinterActive(c.printer)
        /\ \A i \in picked : snap[i] # c.printer
        /\ \A i \in Items : inflight[i] = c.printer => wpc[i] = "clearing"

StartInv == BookedWorker /\ FreshCache /\ StartHolds /\ StartIsAlone

startVars == <<passing, picked, snap, busy, poolVars, holdVars, printerVars, cmds>>

\* A step that leaves all of these alone keeps it.
LEMMA StartFrame ==
    ASSUME StartInv, UNCHANGED startVars
    PROVE  StartInv'
BY DEF startVars, passVars, poolVars, holdVars, printerVars, StartInv, BookedWorker,
       FreshCache, OnTheWire, StartHolds, StartIsAlone, IsPrinterActive

\* Every step keeps it where no print starts or is dismissed at the printer
\* itself, no restart forgets the holds and no timeout overtakes a command.
LEMMA StartStep ==
    ASSUME {"foreign", "late", "restart", "reassign"} \cap Env = {},
           QueueInv, PrinterUse, StartInv, [Next]_vars
    PROVE  StartInv'
<1> USE ConstantsAssumption DEF QueueInv, TypeOK, Discipline, PoolAgrees, PassRows,
        PrinterUse, StartInv, BookedWorker, FreshCache, OnTheWire, StartHolds, StartIsAlone,
        IsPrinterActive, Command, tableVars, passVars, poolVars, holdVars, printerVars
<1>1. ASSUME CheckQueueBegins PROVE StartInv'
  BY <1>1 DEF CheckQueueBegins, BusySeed, HeldPrinters, InDispatchHold
<1>2. ASSUME NEW i \in Items, LeaveItemAndPrinter(i) PROVE StartInv'
  BY <1>2 DEF LeaveItemAndPrinter, Considered
<1>3. ASSUME NEW i \in Items, NEW p \in Printers, BlockOnFilamentDeficit(i, p)
      PROVE  StartInv'
  BY <1>3 DEF BlockOnFilamentDeficit, Considered, Candidate, Assign, IsPrinterIdle, IdleStates,
         Assignment
<1>4. ASSUME NEW i \in Items, NEW p \in Printers, SelectItem(i, p) PROVE StartInv'
  BY <1>4 DEF SelectItem, Considered, Candidate, Assign, IsPrinterIdle, IdleStates, Assignment
<1>5. ASSUME CheckQueueRaises PROVE StartInv'
  BY <1>5 DEF CheckQueueRaises, PassEnds
<1>6. ASSUME LaunchUploads PROVE StartInv'
  BY <1>6 DEF LaunchUploads, PassEnds
<1>7. ASSUME NEW i \in Items, ClaimForDispatch(i) PROVE StartInv'
  BY <1>7 DEF ClaimForDispatch, WorkerAt, WorkerGoes, WorkerEnds, WorkerStep
<1>8. ASSUME NEW i \in Items, CheckBeforeUpload(i) PROVE StartInv'
  BY <1>8 DEF CheckBeforeUpload, WorkerAt, WorkerGoes, WorkerStep, WorkerRow, Assignment
<1>9. ASSUME NEW i \in Items, UploadFails(i) PROVE StartInv'
  BY <1>9 DEF UploadFails, WorkerAt, WorkerGoes, WorkerStep
<1>10. ASSUME NEW i \in Items, CommitPrinting(i) PROVE StartInv'
  BY <1>10 DEF CommitPrinting, WorkerAt, WorkerGoes, WorkerStep
<1>11. ASSUME NEW i \in Items, SendStart(i) PROVE StartInv'
  BY <1>11 DEF SendStart, WorkerAt, WorkerGoes, WorkerStep, MayPublish, WorkerPrinter,
         OneWorker, PassAvoids, PassPicks
<1>12. ASSUME NEW i \in Items, RefusalSettles(i) PROVE StartInv'
  BY <1>12 DEF RefusalSettles, WorkerAt, WorkerGoes, WorkerStep
<1>13. ASSUME NEW i \in Items, ClearDispatchClaim(i) PROVE StartInv'
  BY <1>13 DEF ClearDispatchClaim, WorkerAt, WorkerEnds, WorkerGoes, WorkerStep
<1>14. ASSUME NEW p \in Printers, HoldAges(p) PROVE StartInv'
  BY <1>14 DEF HoldAges, Overdue, CommandsTo
<1>15. ASSUME NEW w \in watch, WatchdogSeesActive(w) PROVE StartInv'
  BY <1>15 DEF WatchdogSeesActive, Acknowledged, ReleaseDispatchHold, Watchdog
<1>16. ASSUME NEW w \in watch, WatchdogTimesOut(w) PROVE StartInv'
  BY <1>16 DEF WatchdogTimesOut, ReleaseDispatchHold, Overdue, CommandsTo, Watchdog
<1>17. ASSUME NEW c \in cmds, PrinterTakes(c) PROVE StartInv'
  BY <1>17 DEF PrinterTakes, CommandsTo, Taken, MarkMoved
<1>18. ASSUME NEW c \in cmds, CommandLost(c) PROVE StartInv'
  BY <1>18 DEF CommandLost
<1>19. ASSUME NEW c \in cmds, PrinterBegins(c) PROVE StartInv'
  BY <1>19 DEF PrinterBegins, PrinterMoves, MarkMoved, GcodeState, IdleStates
<1>20. ASSUME NEW p \in Printers, NEW o \in Outcome, PrinterEnds(p, o) PROVE StartInv'
  BY <1>20 DEF PrinterEnds, PrinterMoves, MarkMoved, Overdue, CommandsTo, GcodeState, IdleStates
<1>21. ASSUME NEW p \in Printers, NEW o \in Outcome, Reconnect(p, o) PROVE StartInv'
  BY <1>21 DEF Reconnect, MarkMoved
<1>22. ASSUME NEW p \in Printers, Disconnect(p) PROVE StartInv'
  BY <1>22 DEF Disconnect
<1> HIDE DEF QueueInv, TypeOK, Discipline, PrinterUse, StartInv
<1>23. CASE RouteStep
  <2>1. UNCHANGED startVars
    BY <1>23
       DEF RouteStep, startVars, AddItem, DeleteItem, CancelItem, EditItem, StartItem, StopItem,
           RequestChecks, RequestCommits, ResumePrinter, ClearPlate
  <2> QED
    BY <2>1, StartFrame
<1>24. ASSUME NEW i \in Items, LeaveItem(i) \/ SkipItem(i) PROVE StartInv'
  BY <1>24, StartFrame DEF startVars, LeaveItem, SkipItem, Considered
<1>25. CASE CallbackStep
  BY <1>25, StartFrame DEF startVars, CallbackStep, RaisePlateGate, UpdateQueueStatus
<1>26. CASE UNCHANGED vars
  BY <1>26, StartFrame DEF startVars, vars
<1>27. /\ ~Restart
       /\ \A p \in Printers : ~ForeignPrintBegins(p) /\ ~PrinterDismisses(p)
  BY DEF Restart, ForeignPrintBegins, PrinterDismisses
<1> QED
  BY <1>1, <1>2, <1>3, <1>4, <1>5, <1>6, <1>7, <1>8, <1>9, <1>10, <1>11, <1>12, <1>13,
     <1>14, <1>15, <1>16, <1>17, <1>18, <1>19, <1>20, <1>21, <1>22, <1>23, <1>24, <1>25,
     <1>26, <1>27
     DEF Next, SchedulerStep, WorkerStepOf, WatchdogStep, PrinterStep

\* A start command on its way keeps every other dispatch off its printer, also
\* when the user stops the row it was sent for (#1157, #2598).
THEOREM StartKeepsPrinter ==
    ASSUME {"foreign", "late", "restart", "reassign"} \cap Env = {}
    PROVE  Spec => []UnacknowledgedStartIsHeld
<1>1. Init => StartInv
  BY DEF Init, StartInv, BookedWorker, FreshCache, OnTheWire, StartHolds, StartIsAlone
<1>2. QueueInv /\ PrinterUse /\ StartInv /\ [Next]_vars => StartInv'
  BY StartStep
<1>3. QueueInv /\ StartInv => UnacknowledgedStartIsHeld
  BY DEF QueueInv, TypeOK, Command, GcodeState, IdleStates, StartInv, OnTheWire, StartHolds,
         UnacknowledgedStartIsHeld, InDispatchHold, IsPrinterActive
<1>4. Spec => []PrinterUse
  BY PrinterUseInvariant
<1> QED
  BY <1>1, <1>2, <1>3, <1>4, QueueInvariant, PTL DEF Spec

-----------------------------------------------------------------------------
(* Without edits, restarts, failed writes and ends of prints that the client *)
(* misses: a row that is printing has somebody who will end it               *)

\* The row of a watchdog names the printer that the watchdog polls.
WatchedPrinter == \A w \in watch : status[w.item] # "absent" => printer[w.item] = w.printer

OwnInv == BookedWorker /\ FreshCache /\ WatchedPrinter /\ PrintingIsOwned

ownVars == <<status, printer, poolVars, watch, printerVars, callbacks>>

\* A step that leaves all of these alone keeps it.
LEMMA OwnFrame ==
    ASSUME OwnInv, UNCHANGED ownVars
    PROVE  OwnInv'
BY DEF ownVars, poolVars, printerVars, OwnInv, BookedWorker, FreshCache, WatchedPrinter,
       PrintingIsOwned, IsPrinterActive

\* A printer that moves while its session is up is seen; a print whose end is
\* seen leaves a callback behind.
LEMMA MovesOwn ==
    ASSUME TypeOK, OwnInv, NEW p \in Printers, NEW s \in {"IDLE", "FINISH", "RUNNING"},
           PrinterMoves(p, s),
           callbacks \subseteq callbacks',
           conn[p] /\ act[p] = "RUNNING" /\ s # "RUNNING" => \E c \in callbacks' : c.printer = p
    PROVE  OwnInv'
<1>1. /\ act' = [act EXCEPT ![p] = s]
      /\ gcode' = IF conn[p] THEN [gcode EXCEPT ![p] = s] ELSE gcode
      /\ UNCHANGED <<status, printer, inflight, wpc, wprinter, watch, conn>>
  BY DEF PrinterMoves, tableVars, poolVars
<1>2. BookedWorker' /\ WatchedPrinter'
  BY <1>1 DEF OwnInv, BookedWorker, WatchedPrinter
<1>3. FreshCache'
  BY <1>1 DEF OwnInv, FreshCache, TypeOK
<1>4. PrintingIsOwned'
  <2> SUFFICES ASSUME NEW i \in Items, status[i] = "printing",
                      wpc[i] \notin {"committed", "refused"},
                      \A w \in watch : w.item # i,
                      \A c \in callbacks' : c.printer # printer[i]
               PROVE  gcode'[printer[i]] = "RUNNING"
    BY <1>1 DEF PrintingIsOwned, IsPrinterActive
  <2>1. gcode[printer[i]] = "RUNNING"
    BY DEF OwnInv, PrintingIsOwned, IsPrinterActive
  <2>2. CASE printer[i] # p \/ ~conn[p]
    BY <1>1, <2>1, <2>2 DEF TypeOK
  <2>3. CASE printer[i] = p /\ conn[p]
    <3>1. act[p] = "RUNNING"
      BY <2>1, <2>3 DEF OwnInv, FreshCache
    <3>2. s = "RUNNING"
      BY <2>3, <3>1
    <3> QED
      BY <1>1, <2>3, <3>2 DEF TypeOK
  <2> QED
    BY <2>2, <2>3
<1> QED
  BY <1>2, <1>3, <1>4 DEF OwnInv

\* The callback that a print leaves behind is one of its printer.
LEMMA CompletesOwn ==
    ASSUME NEW p, NEW o, Completes(p, o)
    PROVE  \E c \in callbacks' : c.printer = p
<1> DEFINE c == [printer |-> p, outcome |-> o, raised |-> FALSE]
<1>1. c \in callbacks'
  BY DEF Completes
<1>2. c.printer = p
  OBVIOUS
<1> QED
  BY <1>1, <1>2

\* A print that ends before the client's eyes leaves a callback behind.
LEMMA EndsOwn ==
    ASSUME "unseen" \notin Env, TypeOK, OwnInv, NEW p \in Printers, NEW o \in Outcome,
           PrinterEnds(p, o)
    PROVE  OwnInv'
<1>1. PrinterMoves(p, "FINISH") /\ callbacks \subseteq callbacks'
  BY DEF PrinterEnds, Completes
<1>2. conn[p] => \E c \in callbacks' : c.printer = p
  <2> SUFFICES ASSUME Completes(p, o) PROVE \E c \in callbacks' : c.printer = p
    BY DEF PrinterEnds
  <2> QED
    BY CompletesOwn
<1> QED
  BY <1>1, <1>2, MovesOwn

\* So does one whose end is seen when the session comes back.
LEMMA ReconnectOwn ==
    ASSUME TypeOK, OwnInv, NEW p \in Printers, NEW o \in Outcome, Reconnect(p, o)
    PROVE  OwnInv'
<1>1. /\ conn' = [conn EXCEPT ![p] = TRUE] /\ gcode' = [gcode EXCEPT ![p] = act[p]]
      /\ UNCHANGED <<status, printer, inflight, wpc, wprinter, watch, act>>
      /\ callbacks \subseteq callbacks'
  BY DEF Reconnect, Completes, tableVars, poolVars
<1>2. gcode[p] = "RUNNING" /\ act[p] # "RUNNING" => \E c \in callbacks' : c.printer = p
  <2> SUFFICES ASSUME Completes(p, o) PROVE \E c \in callbacks' : c.printer = p
    BY DEF Reconnect
  <2> QED
    BY CompletesOwn
<1>3. BookedWorker' /\ WatchedPrinter' /\ FreshCache'
  BY <1>1 DEF OwnInv, BookedWorker, WatchedPrinter, FreshCache, TypeOK
<1>4. PrintingIsOwned'
  <2> SUFFICES ASSUME NEW i \in Items, status[i] = "printing",
                      wpc[i] \notin {"committed", "refused"},
                      \A w \in watch : w.item # i,
                      \A c \in callbacks' : c.printer # printer[i]
               PROVE  gcode'[printer[i]] = "RUNNING"
    BY <1>1 DEF PrintingIsOwned, IsPrinterActive
  <2>1. gcode[printer[i]] = "RUNNING"
    BY <1>1 DEF OwnInv, PrintingIsOwned, IsPrinterActive
  <2>2. CASE printer[i] # p
    BY <1>1, <2>1, <2>2 DEF TypeOK
  <2>3. CASE printer[i] = p
    BY <1>1, <1>2, <2>1, <2>3 DEF TypeOK
  <2> QED
    BY <2>2, <2>3
<1> QED
  BY <1>3, <1>4 DEF OwnInv

\* The callback of a printer ends its only printing row.
LEMMA CallbackOwn ==
    ASSUME QueueInv, PrinterUse, OwnInv, NEW c \in callbacks, UpdateQueueStatus(c)
    PROVE  OwnInv'
<1>1. /\ callbacks' = callbacks \ {c}
      /\ UNCHANGED <<printer, inflight, wpc, wprinter, watch, conn, gcode, act>>
      /\ c.outcome \in {"completed", "failed", "cancelled"}
  BY ConstantsAssumption
     DEF ConstantsAssumption, UpdateQueueStatus, poolVars, printerVars, QueueInv, TypeOK, Callback
<1>2. /\ \A i \in Items : status'[i] = status[i] \/ (status[i] = "printing" /\ status'[i] = c.outcome)
      /\ \A i \in PrintingOn(c.printer) : status'[i] = c.outcome
  <2>1. CASE PrintingOn(c.printer) = {} /\ UNCHANGED status
    BY <2>1
  <2>2. ASSUME NEW i \in PrintingOn(c.printer), SetStatus(i, c.outcome)
        PROVE  /\ \A j \in Items : status'[j] = status[j] \/ (status[j] = "printing" /\ status'[j] = c.outcome)
               /\ \A j \in PrintingOn(c.printer) : status'[j] = c.outcome
    <3>1. i \in Items /\ status[i] = "printing" /\ printer[i] = c.printer
      BY DEF PrintingOn
    <3>2. PrintingOn(c.printer) = {i}
      BY <3>1 DEF PrinterUse, OnePrintingRow, PrintingOn
    <3>3. \A j \in Items : status'[j] = IF j = i THEN c.outcome ELSE status[j]
      BY <2>2, <3>1 DEF SetStatus, QueueInv, TypeOK
    <3> QED
      BY <3>1, <3>2, <3>3
  <2> QED
    BY <2>1, <2>2 DEF UpdateQueueStatus
<1>3. \A i \in Items : status'[i] = "printing" => status[i] = "printing" /\ printer[i] # c.printer
  BY <1>1, <1>2 DEF PrintingOn
<1>4. BookedWorker' /\ FreshCache'
  BY <1>1 DEF OwnInv, BookedWorker, FreshCache
<1>5. WatchedPrinter'
  <2> SUFFICES ASSUME NEW w \in watch, status'[w.item] # "absent" PROVE printer[w.item] = w.printer
    BY <1>1 DEF WatchedPrinter
  <2>1. w.item \in Items
    BY DEF QueueInv, TypeOK, Watchdog
  <2> QED
    BY <1>2, <2>1 DEF OwnInv, WatchedPrinter
<1>6. PrintingIsOwned'
  BY <1>1, <1>3 DEF OwnInv, PrintingIsOwned, IsPrinterActive
<1> QED
  BY <1>4, <1>5, <1>6 DEF OwnInv

\* The watchdogs of a printer that takes a command stay, in their second phase.
LEMMA TakesOwn ==
    ASSUME TypeOK, OwnInv, NEW c \in cmds, PrinterTakes(c)
    PROVE  OwnInv'
<1>1. /\ watch' = {IF w.printer = c.printer THEN InPhaseB(w) ELSE w : w \in watch}
      /\ UNCHANGED <<status, printer, inflight, wpc, wprinter, conn, gcode, act, callbacks>>
  BY DEF PrinterTakes, tableVars, poolVars, printerVars
<1>2. \A w \in watch : \E x \in watch' : x.item = w.item /\ x.printer = w.printer
  <2> SUFFICES ASSUME NEW w \in watch PROVE \E x \in watch' : x.item = w.item /\ x.printer = w.printer
    OBVIOUS
  <2>1. (IF w.printer = c.printer THEN InPhaseB(w) ELSE w) \in watch'
    BY <1>1
  <2>2. InPhaseB(w).item = w.item /\ InPhaseB(w).printer = w.printer
    BY DEF InPhaseB
  <2> QED
    BY <2>1, <2>2
<1>3. \A x \in watch' : \E w \in watch : x.item = w.item /\ x.printer = w.printer
  BY <1>1 DEF InPhaseB
<1>4. BookedWorker' /\ FreshCache'
  BY <1>1 DEF OwnInv, BookedWorker, FreshCache
<1>5. WatchedPrinter'
  BY <1>1, <1>3 DEF OwnInv, WatchedPrinter
<1>6. PrintingIsOwned'
  <2> SUFFICES ASSUME NEW i \in Items, status[i] = "printing",
                      wpc[i] \notin {"committed", "refused"},
                      \A x \in watch' : x.item # i
               PROVE  IsPrinterActive(printer[i]) \/ \E d \in callbacks : d.printer = printer[i]
    BY <1>1 DEF PrintingIsOwned, IsPrinterActive
  <2>1. \A w \in watch : w.item # i
    BY <1>2
  <2> QED
    BY <2>1 DEF OwnInv, PrintingIsOwned
<1> QED
  BY <1>4, <1>5, <1>6 DEF OwnInv

\* A watchdog leaves its row to the print that the client sees run.
LEMMA SeenOwn ==
    ASSUME TypeOK, OwnInv, NEW w \in watch, WatchdogSeesActive(w)
    PROVE  OwnInv'
<1>1. /\ watch' = watch \ {w} /\ gcode[w.printer] = "RUNNING"
      /\ UNCHANGED <<status, printer, inflight, wpc, wprinter, conn, gcode, act, callbacks>>
  BY DEF WatchdogSeesActive, Acknowledged, IsPrinterActive, tableVars, poolVars, printerVars
<1>2. BookedWorker' /\ FreshCache' /\ WatchedPrinter'
  BY <1>1 DEF OwnInv, BookedWorker, FreshCache, WatchedPrinter
<1>3. PrintingIsOwned'
  <2> SUFFICES ASSUME NEW i \in Items, status[i] = "printing",
                      wpc[i] \notin {"committed", "refused"},
                      \A x \in watch' : x.item # i
               PROVE  IsPrinterActive(printer[i]) \/ \E d \in callbacks : d.printer = printer[i]
    BY <1>1 DEF PrintingIsOwned, IsPrinterActive
  <2>1. CASE w.item = i
    BY <1>1, <2>1 DEF OwnInv, WatchedPrinter, IsPrinterActive
  <2>2. CASE w.item # i
    BY <1>1, <2>2 DEF OwnInv, PrintingIsOwned
  <2> QED
    BY <2>1, <2>2
<1> QED
  BY <1>2, <1>3 DEF OwnInv

\* Or takes it back.
LEMMA RevertOwn ==
    ASSUME "dbfault" \notin Env, TypeOK, OwnInv, NEW w \in watch, WatchdogTimesOut(w)
    PROVE  OwnInv'
<1>1. /\ watch' = watch \ {w}
      /\ UNCHANGED <<printer, inflight, wpc, wprinter, gcode, act, callbacks>>
      /\ conn' = [conn EXCEPT ![w.printer] = @ /\ (w.phase = "B" \/ status[w.item] # "printing")]
  BY DEF WatchdogTimesOut, poolVars
<1>2. w.item \in Items /\ w.printer \in Printers
  BY DEF TypeOK, Watchdog
<1>3. /\ status'[w.item] # "printing"
      /\ \A i \in Items : status'[i] # status[i] => i = w.item /\ status[i] = "printing"
  BY <1>2 DEF WatchdogTimesOut, Revert, SetStatus, TypeOK
<1>4. BookedWorker'
  BY <1>1 DEF OwnInv, BookedWorker
<1>5. FreshCache'
  BY <1>1, <1>2 DEF OwnInv, FreshCache, TypeOK
<1>6. WatchedPrinter'
  <2> SUFFICES ASSUME NEW x \in watch, status'[x.item] # "absent" PROVE printer[x.item] = x.printer
    BY <1>1 DEF WatchedPrinter
  <2>1. x.item \in Items
    BY DEF TypeOK, Watchdog
  <2> QED
    BY <1>3, <2>1 DEF OwnInv, WatchedPrinter
<1>7. PrintingIsOwned'
  <2> SUFFICES ASSUME NEW i \in Items, status'[i] = "printing",
                      wpc[i] \notin {"committed", "refused"},
                      \A x \in watch' : x.item # i
               PROVE  IsPrinterActive(printer[i]) \/ \E d \in callbacks : d.printer = printer[i]
    BY <1>1 DEF PrintingIsOwned, IsPrinterActive
  <2>1. status[i] = "printing" /\ \A x \in watch : x.item # i
    BY <1>1, <1>3
  <2> QED
    BY <2>1 DEF OwnInv, PrintingIsOwned
<1> QED
  BY <1>4, <1>5, <1>6, <1>7 DEF OwnInv

\* A worker hands its row over to a watchdog of the printer it has booked, or
\* keeps it until the refusal is settled.
LEMMA SendOwn ==
    ASSUME QueueInv, PrinterUse, OwnInv, NEW i \in Items, SendStart(i)
    PROVE  OwnInv'
<1> DEFINE p == wprinter[i]
           x == [item |-> i, printer |-> p, phase |-> "A"]
<1>1. /\ wpc[i] = "committed"
      /\ UNCHANGED <<status, printer, inflight, wprinter, conn, gcode, act, callbacks>>
      /\ \/ watch' = watch \cup {x} /\ wpc' = [wpc EXCEPT ![i] = "clearing"]
         \/ watch' = watch /\ wpc' = [wpc EXCEPT ![i] = "refused"]
  BY DEF SendStart, WorkerAt, WorkerGoes, tableVars, holdVars, printerVars
<1>2. x.item = i /\ x.printer = p
  OBVIOUS
<1>3. \A j \in Items : j # i => wpc'[j] = wpc[j]
  BY <1>1 DEF QueueInv, TypeOK
<1>4. wpc'[i] \in {"clearing", "refused"} /\ (wpc'[i] = "refused" \/ x \in watch')
  BY <1>1 DEF QueueInv, TypeOK
<1>5. BookedWorker' /\ FreshCache'
  BY <1>1, <1>3, <1>4 DEF OwnInv, BookedWorker, FreshCache
<1>6. status[i] # "absent" => printer[i] = p
  BY <1>1 DEF OwnInv, BookedWorker, PrinterUse, WorkerRow
<1>7. WatchedPrinter'
  BY <1>1, <1>2, <1>6 DEF OwnInv, WatchedPrinter
<1>8. PrintingIsOwned'
  <2> SUFFICES ASSUME NEW j \in Items, status[j] = "printing",
                      wpc'[j] \notin {"committed", "refused"},
                      \A w \in watch' : w.item # j
               PROVE  IsPrinterActive(printer[j]) \/ \E d \in callbacks : d.printer = printer[j]
    BY <1>1 DEF PrintingIsOwned, IsPrinterActive
  <2>1. j # i
    BY <1>2, <1>4
  <2>2. wpc[j] \notin {"committed", "refused"} /\ \A w \in watch : w.item # j
    BY <1>1, <1>3, <2>1
  <2> QED
    BY <2>2 DEF OwnInv, PrintingIsOwned
<1> QED
  BY <1>5, <1>7, <1>8 DEF OwnInv

\* A callback that has raised the gate is still that of its printer.
LEMMA GateOwn ==
    ASSUME OwnInv, NEW c \in callbacks, RaisePlateGate(c)
    PROVE  OwnInv'
<1>1. /\ callbacks' = (callbacks \ {c}) \cup {GateRaised(c)}
      /\ UNCHANGED <<status, printer, inflight, wpc, wprinter, watch, conn, gcode, act>>
  BY DEF RaisePlateGate, tableVars, poolVars, printerVars
<1>2. GateRaised(c).printer = c.printer
  BY DEF GateRaised
<1>3. \A d \in callbacks : \E e \in callbacks' : e.printer = d.printer
  BY <1>1, <1>2
<1>4. BookedWorker' /\ FreshCache' /\ WatchedPrinter'
  BY <1>1 DEF OwnInv, BookedWorker, FreshCache, WatchedPrinter
<1>5. PrintingIsOwned'
  <2> SUFFICES ASSUME NEW i \in Items, status[i] = "printing",
                      wpc[i] \notin {"committed", "refused"},
                      \A w \in watch : w.item # i, ~IsPrinterActive(printer[i])
               PROVE  \E e \in callbacks' : e.printer = printer[i]
    BY <1>1 DEF PrintingIsOwned, IsPrinterActive
  <2>1. \E d \in callbacks : d.printer = printer[i]
    BY DEF OwnInv, PrintingIsOwned
  <2> QED
    BY <1>3, <2>1
<1> QED
  BY <1>4, <1>5 DEF OwnInv

\* Every step keeps it.
LEMMA OwnStep ==
    ASSUME {"restart", "dbfault", "unseen", "reassign"} \cap Env = {},
           QueueInv, PrinterUse, OwnInv, [Next]_vars
    PROVE  OwnInv'
<1> USE ConstantsAssumption DEF QueueInv, TypeOK, Discipline, PoolAgrees, PassRows,
        WorkerPrinter, WatchedRows, AtRest, PrinterUse, OnlyCancels, WorkerRow, PassCopies,
        OwnInv, BookedWorker, FreshCache, WatchedPrinter, PrintingIsOwned, IsPrinterActive,
        Watchdog, Assignment, WorkerStep, tableVars, passVars, poolVars, holdVars, printerVars
<1>1. ASSUME NEW i \in Items, NEW a \in Assignment, NEW m \in BOOLEAN, AddItem(i, a, m)
      PROVE  OwnInv'
  BY <1>1 DEF AddItem, SetStatus
<1>2. ASSUME NEW i \in Items, DeleteItem(i) PROVE OwnInv'
  BY <1>2 DEF DeleteItem, SetStatus
<1>3. ASSUME NEW i \in Items, CancelItem(i) PROVE OwnInv'
  BY <1>3 DEF CancelItem, Withdraw, OverwriteStatus, SetStatus
<1>4. ASSUME NEW i \in Items, StopItem(i) PROVE OwnInv'
  BY <1>4 DEF StopItem, SetStatus
<1>5. ASSUME NEW r \in Request, RequestCommits(r) PROVE OwnInv'
  BY <1>5 DEF RequestCommits, Withdraw, OverwriteStatus, SetStatus, Request
<1>6. ASSUME NEW p \in Printers, ResumePrinter(p) PROVE OwnInv'
  BY <1>6 DEF ResumePrinter, Restorable
<1>7. ASSUME NEW i \in Items, SkipItem(i) PROVE OwnInv'
  BY <1>7 DEF SkipItem, Considered, SetStatus
<1>8. ASSUME NEW i \in Items, NEW p \in Printers, BlockOnFilamentDeficit(i, p) PROVE OwnInv'
  BY <1>8 DEF BlockOnFilamentDeficit, Considered, Assign
<1>9. ASSUME NEW i \in Items, NEW p \in Printers, SelectItem(i, p) PROVE OwnInv'
  BY <1>9 DEF SelectItem, Considered, Assign
<1>10. ASSUME LaunchUploads PROVE OwnInv'
  BY <1>10 DEF LaunchUploads
<1>11. ASSUME NEW i \in Items, ClaimForDispatch(i) PROVE OwnInv'
  BY <1>11 DEF ClaimForDispatch, WorkerAt, WorkerGoes, WorkerEnds
<1>12. ASSUME NEW i \in Items, CheckBeforeUpload(i) PROVE OwnInv'
  BY <1>12 DEF CheckBeforeUpload, WorkerAt, WorkerGoes, WorkerWrites, OverwriteStatus,
         SetStatus, IsConnected
<1>13. ASSUME NEW i \in Items, UploadFails(i) PROVE OwnInv'
  BY <1>13 DEF UploadFails, WorkerAt, WorkerGoes, WorkerWrites, OverwriteStatus, SetStatus
<1>14. ASSUME NEW i \in Items, CommitPrinting(i) PROVE OwnInv'
  BY <1>14 DEF CommitPrinting, WorkerAt, WorkerGoes, StillPending, SetStatus
<1>15. ASSUME NEW i \in Items, RefusalSettles(i) PROVE OwnInv'
  BY <1>15 DEF RefusalSettles, WorkerAt, WorkerGoes, WorkerWrites, OverwriteStatus, SetStatus
<1>16. ASSUME NEW i \in Items, ClearDispatchClaim(i) PROVE OwnInv'
  BY <1>16 DEF ClearDispatchClaim, WorkerAt, WorkerEnds, WorkerGoes
<1>17. ASSUME NEW p \in Printers, Disconnect(p) PROVE OwnInv'
  BY <1>17 DEF Disconnect
<1> HIDE DEF QueueInv, TypeOK, Discipline, PrinterUse, OwnInv, Assignment
<1>18. TypeOK
  BY DEF QueueInv
<1>19. ASSUME NEW i \in Items, SendStart(i) PROVE OwnInv'
  BY <1>19, SendOwn
<1>20. ASSUME NEW c \in callbacks, RaisePlateGate(c) PROVE OwnInv'
  BY <1>20, GateOwn
<1>21. ASSUME NEW w \in watch, WatchdogSeesActive(w) \/ WatchdogTimesOut(w) PROVE OwnInv'
  BY <1>18, <1>21, SeenOwn, RevertOwn
<1>22. ASSUME NEW c \in cmds, PrinterTakes(c) PROVE OwnInv'
  BY <1>18, <1>22, TakesOwn
<1>23. ASSUME NEW c \in cmds, PrinterBegins(c) PROVE OwnInv'
  <2>1. c.printer \in Printers
    BY <1>18 DEF TypeOK, Command
  <2> QED
    BY <1>18, <1>23, <2>1, MovesOwn DEF PrinterBegins
<1>24. ASSUME NEW p \in Printers, ForeignPrintBegins(p) PROVE OwnInv'
  BY <1>18, <1>24, MovesOwn DEF ForeignPrintBegins
<1>25. ASSUME NEW p \in Printers, PrinterDismisses(p) PROVE OwnInv'
  BY <1>18, <1>25, MovesOwn DEF PrinterDismisses
<1>26. ASSUME NEW p \in Printers, NEW o \in Outcome, PrinterEnds(p, o) \/ Reconnect(p, o) PROVE OwnInv'
  BY <1>18, <1>26, EndsOwn, ReconnectOwn
<1>27. ASSUME NEW c \in callbacks, UpdateQueueStatus(c) PROVE OwnInv'
  BY <1>27, CallbackOwn
<1>28. ASSUME NEW r \in Request, RequestChecks(r) PROVE OwnInv'
  BY <1>28, OwnFrame DEF ownVars, RequestChecks
<1>29. ASSUME NEW i \in Items, StartItem(i) \/ LeaveItem(i) \/ LeaveItemAndPrinter(i) PROVE OwnInv'
  BY <1>29, OwnFrame DEF ownVars, StartItem, LeaveItem, LeaveItemAndPrinter
<1>30. ASSUME NEW p \in Printers, ClearPlate(p) \/ HoldAges(p) PROVE OwnInv'
  BY <1>30, OwnFrame DEF ownVars, ClearPlate, HoldAges
<1>31. ASSUME NEW c \in cmds, CommandLost(c) PROVE OwnInv'
  BY <1>31, OwnFrame DEF ownVars, CommandLost
<1>32. CASE CheckQueueBegins \/ CheckQueueRaises \/ UNCHANGED vars
  BY <1>32, OwnFrame DEF ownVars, CheckQueueBegins, CheckQueueRaises, vars
<1>33. ~Restart /\ \A i \in Items, a \in Assignment : ~EditItem(i, a)
  BY DEF Restart, EditItem
<1> QED
  BY <1>1, <1>2, <1>3, <1>4, <1>5, <1>6, <1>7, <1>8, <1>9, <1>10, <1>11, <1>12, <1>13, <1>14, <1>15, <1>16, <1>17, <1>19, <1>20, <1>21, <1>22, <1>23, <1>24, <1>25, <1>26, <1>27, <1>28, <1>29, <1>30, <1>31, <1>32, <1>33
     DEF Next, RouteStep, SchedulerStep, WorkerStepOf, WatchdogStep, PrinterStep, CallbackStep

\* No row is left printing with nobody to end it: where users leave pending rows
\* on their printer, nothing restarts, writes succeed and the client sees how
\* prints end, in whatever order sessions drop and commands arrive (#967, #1678).
THEOREM PrintingRowsAreOwned ==
    ASSUME {"restart", "dbfault", "unseen", "reassign"} \cap Env = {}
    PROVE  Spec => []PrintingIsOwned
<1>1. Init => OwnInv
  BY DEF Init, OwnInv, BookedWorker, FreshCache, WatchedPrinter, PrintingIsOwned
<1>2. QueueInv /\ PrinterUse /\ OwnInv /\ [Next]_vars => OwnInv'
  BY OwnStep
<1>3. OwnInv => PrintingIsOwned
  BY DEF OwnInv
<1>4. Spec => []PrinterUse
  BY PrinterUseInvariant
<1> QED
  BY <1>1, <1>2, <1>3, <1>4, QueueInvariant, PTL DEF Spec
=============================================================================
