----------------------------- MODULE PrintQueue -----------------------------
(***************************************************************************)
(* The print queue: the rows of the print_queue table, the routes with     *)
(* which users change them, the scheduler pass that selects rows, the pool *)
(* of upload workers that dispatch them, the watchdogs that take a         *)
(* dispatch back, the completion callbacks, and the printers.              *)
(*                                                                         *)
(* The backend is one asyncio loop: a step here is the code between two    *)
(* awaits at which another coroutine can run, so every interleaving of     *)
(* routes, pass, workers, watchdogs and callbacks is a behaviour.          *)
(***************************************************************************)
EXTENDS Integers, FiniteSets

CONSTANTS
    Items,        \* queue rows
    Printers,     \* printers with an MQTT client
    AnyPrinter,   \* printer_id NULL: a row that names a target model
    NoPrinter,    \* no entry in the scheduler's _inflight
    MaxAttempts,  \* DISPATCH_MAX_ATTEMPTS
    UploadLimit,  \* queue_max_concurrent_uploads
    Gated,        \* the rows with require_previous_success
    Outcome,      \* how a print may end
    MaxCallbacks, \* bound: on_print_complete tasks at a time
    PlateGate,    \* the setting require_plate_clear
    Env           \* what the environment may do, see EnvFeatures

(***************************************************************************)
(* foreign:  printers are operated outside the queue (touchscreen, slicer) *)
(* late:     a command may outlast a timeout of ours, or a whole print     *)
(* offline:  the MQTT session of a printer may drop                        *)
(* restart:  the backend may be restarted                                  *)
(* dbfault:  a write of a worker or watchdog may fail (locked database)    *)
(* reassign: users move pending rows to another printer                    *)
(* lag:      a cancel or edit request commits some time after its checks   *)
(* unseen:   the client may miss that a print ended, see PrintLifecycle    *)
(***************************************************************************)
EnvFeatures ==
    {"foreign", "late", "offline", "restart", "dbfault", "reassign", "lag", "unseen"}

ASSUME ConstantsAssumption ==
    /\ AnyPrinter \notin Printers
    /\ NoPrinter \notin Printers \cup {AnyPrinter}
    /\ MaxAttempts \in Nat \ {0}
    /\ UploadLimit \in Nat \ {0}
    /\ Gated \subseteq Items
    /\ Outcome \subseteq {"completed", "failed", "cancelled"}
    /\ MaxCallbacks \in Nat
    /\ PlateGate \in BOOLEAN
    /\ Env \subseteq EnvFeatures

ASSUME ItemsAssumption == IsFiniteSet(Items)

VARIABLES
    \* the print_queue table
    status,      \* status, or "absent" when there is no such row
    printer,     \* printer_id
    claimed,     \* dispatching_at is set
    attempts,    \* dispatch_attempts
    manual,      \* manual_start
    acked,       \* the rows with gate_acknowledged
    \* the scheduler pass
    passing,     \* check_queue is between its SELECT and _launch_uploads
    todo,        \* its rows not considered yet
    picked,      \* dispatch_ids
    snap,        \* printer_id of its in-memory copies
    busy,        \* busy_printers
    \* the pool, the holds and the watchdogs
    inflight,    \* _inflight: item -> the printer it was launched for
    wpc,         \* where the worker of an item is
    wprinter,    \* printer_id of the worker's in-memory copy
    hold,        \* _dispatch_holds, by age: fresh until the minimum cooldown
    moved,       \* the printer has left its pre-dispatch state or subtask
    watch,       \* the live _watchdog_print_start tasks
    \* the requests between their checks and their commit (bound: one)
    req,
    \* the printers
    conn,        \* connected, as the client sees it
    gcode,       \* the gcode_state the client caches
    act,         \* what the printer really does
    cmds,        \* start commands published and not yet executed or lost
    awaiting,    \* _awaiting_plate_clear
    callbacks,   \* on_print_complete tasks
    \* history
    withdrawn    \* rows cancelled while pending, by /cancel or by batch

tableVars == <<status, printer, claimed, attempts, manual, acked>>
passVars == <<passing, todo, picked, snap, busy>>
poolVars == <<inflight, wpc, wprinter>>
holdVars == <<hold, moved>>
printerVars == <<conn, gcode, act>>
vars == <<tableVars, passVars, poolVars, holdVars, watch, req, printerVars,
          cmds, awaiting, callbacks, withdrawn>>

Status == {"absent", "pending", "printing", "completed", "failed", "skipped", "cancelled"}
Assignment == Printers \cup {AnyPrinter}
WorkerStep == {"none", "launched", "claimed", "uploading", "committed", "refused", "clearing"}

Command == [item : Items, printer : Printers, st : {"wire", "taken"}]
Watchdog == [item : Items, printer : Printers, phase : {"A", "B"}]
Callback == [printer : Printers, outcome : Outcome, raised : BOOLEAN]
Request == [kind : {"cancel"}, item : Items] \cup [kind : {"edit"}, item : Items, to : Assignment]

IdleStates == {"IDLE", "FINISH"}                \* FAILED is a FINISH here
GcodeState == IdleStates \cup {"RUNNING", "unknown"}

-----------------------------------------------------------------------------
(* Derived state *)

PrintingOn(p) == {i \in Items : status[i] = "printing" /\ printer[i] = p}

InFlight == {i \in Items : inflight[i] # NoPrinter}

\* _printer_in_dispatch_hold: held until it has moved and the cooldown is over.
InCooldown(p) == hold[p] = "fresh"       \* mutation: the transition is not waited for
InDispatchHold(p) == hold[p] = "fresh" \/ (hold[p] = "cooled" /\ ~moved[p])

IsConnected(p) == IF p \in Printers THEN conn[p] ELSE FALSE

\* _is_printer_idle
IsPrinterIdle(p) ==
    /\ conn[p]
    /\ ~(PlateGate /\ awaiting[p])
    /\ gcode[p] \in IdleStates

IsPrinterActive(p) == gcode[p] = "RUNNING"

\* _check_previous_success can only fail behind an unacknowledged failure on
\* the printer of the in-memory copy; a newer success may hide that failure.
PreviousMayBlock(i) ==
    /\ i \in Gated
    /\ \E j \in Items \ {i} : status[j] = "failed" /\ j \notin acked /\ printer[j] = snap[i]

\* set_awaiting_plate_clear; the flag is followed only where something reads it.
SetAwaiting(p, b) == awaiting' = [awaiting EXCEPT ![p] = PlateGate /\ b]

MarkMoved(p) == moved' = [moved EXCEPT ![p] = hold[p] # "none"]

SetStatus(i, s) == status' = [status EXCEPT ![i] = s]

\* A plain ORM write: UPDATE by primary key, whatever the row says by now.
\* No row is matched once it has been deleted.
OverwriteStatus(i, s) == IF status[i] = "absent" THEN UNCHANGED status ELSE SetStatus(i, s)

-----------------------------------------------------------------------------
(* Initial state: rows a user has queued, idle connected printers. *)

Init ==
    /\ status \in [Items -> {"pending"}]
    /\ printer \in [Items -> Assignment]
    /\ claimed = [i \in Items |-> FALSE]
    /\ attempts = [i \in Items |-> 0]
    /\ manual = [i \in Items |-> FALSE]
    /\ acked = {}
    /\ passing = FALSE /\ todo = {} /\ picked = {} /\ busy = {}
    /\ snap = [i \in Items |-> AnyPrinter]
    /\ inflight = [i \in Items |-> NoPrinter]
    /\ wpc = [i \in Items |-> "none"]
    /\ wprinter = [i \in Items |-> AnyPrinter]
    /\ hold = [p \in Printers |-> "none"]
    /\ moved = [p \in Printers |-> FALSE]
    /\ watch = {}
    /\ req = {}
    /\ conn = [p \in Printers |-> TRUE]
    /\ gcode = [p \in Printers |-> "IDLE"]
    /\ act = [p \in Printers |-> "IDLE"]
    /\ cmds = {}
    /\ awaiting = [p \in Printers |-> FALSE]
    /\ callbacks = {}
    /\ withdrawn = {}

-----------------------------------------------------------------------------
(* The routes of the queue *)

\* add_to_queue. Row ids are never reused while anything still refers to one.
AddItem(i, a, m) ==
    /\ status[i] = "absent"
    /\ i \notin todo \cup picked /\ wpc[i] = "none"
    /\ \A x \in cmds \cup watch \cup req : x.item # i
    /\ SetStatus(i, "pending")
    /\ printer' = [printer EXCEPT ![i] = a]
    /\ manual' = [manual EXCEPT ![i] = m]
    /\ withdrawn' = withdrawn \ {i}
    /\ UNCHANGED <<claimed, attempts, acked, passVars, poolVars, holdVars, watch, req, printerVars, cmds,
                   awaiting, callbacks>>

\* delete_queue_item: any row but a printing one, claimed or not.
DeleteItem(i) ==
    /\ status[i] \notin {"absent", "printing"}
    /\ SetStatus(i, "absent")
    /\ printer' = [printer EXCEPT ![i] = AnyPrinter]
    /\ claimed' = [claimed EXCEPT ![i] = FALSE]
    /\ attempts' = [attempts EXCEPT ![i] = 0]
    /\ manual' = [manual EXCEPT ![i] = FALSE]
    /\ acked' = acked \ {i}
    /\ UNCHANGED <<passVars, poolVars, holdVars, watch,
                   req, printerVars, cmds, awaiting, callbacks, withdrawn>>

\* The write of cancel_queue_item and cancel_batch.
Withdraw(i) ==
    /\ OverwriteStatus(i, "cancelled")
    /\ withdrawn' = withdrawn \cup {i}

CancelItem(i) ==
    /\ status[i] = "pending"
    /\ Withdraw(i)
    /\ UNCHANGED <<printer, claimed, attempts, manual, acked, passVars, poolVars, holdVars,
                   watch, req, printerVars, cmds, awaiting, callbacks>>

\* update_queue_item and bulk_update_queue_items: only a pending, unclaimed row.
MayEditClaimed(i) == status[i] = "pending"      \* mutation: the claim is not looked at
MayEdit(i) == status[i] = "pending" /\ ~claimed[i]

EditItem(i, a) ==
    /\ "reassign" \in Env
    /\ MayEdit(i)
    /\ a # printer[i]
    /\ printer' = [printer EXCEPT ![i] = a]
    /\ UNCHANGED <<status, claimed, attempts, manual, acked, passVars, poolVars, holdVars,
                   watch, req, printerVars, cmds, awaiting, callbacks, withdrawn>>

\* Both requests read the row, then write it back at their commit.
RequestChecks(r) ==
    /\ "lag" \in Env
    /\ req = {}
    /\ \/ r.kind = "cancel" /\ status[r.item] = "pending"
       \/ r.kind = "edit" /\ "reassign" \in Env /\ MayEdit(r.item)
    /\ req' = {r}
    /\ UNCHANGED <<tableVars, passVars, poolVars, holdVars, watch, printerVars, cmds,
                   awaiting, callbacks, withdrawn>>

RequestCommits(r) ==
    /\ r \in req
    /\ req' = req \ {r}
    /\ IF r.kind = "cancel"
       THEN Withdraw(r.item) /\ UNCHANGED printer
       ELSE /\ printer' = IF status[r.item] = "absent" THEN printer
                           ELSE [printer EXCEPT ![r.item] = r.to]
            /\ UNCHANGED <<status, withdrawn>>
    /\ UNCHANGED <<claimed, attempts, manual, acked, passVars, poolVars, holdVars,
                   watch, printerVars, cmds, awaiting, callbacks>>

\* start_queue_item: the user acknowledges a staged row.
StartItem(i) ==
    /\ status[i] = "pending" /\ manual[i]
    /\ manual' = [manual EXCEPT ![i] = FALSE]
    /\ UNCHANGED <<status, printer, claimed, attempts, acked, passVars, poolVars, holdVars,
                   watch, req, printerVars, cmds, awaiting, callbacks, withdrawn>>

\* stop_queue_item: whether or not the stop command reaches the printer. The
\* printer ending its print is an action of the printer, enabled anyway.
StopItem(i) ==
    /\ status[i] = "printing"
    /\ SetStatus(i, "cancelled")
    /\ UNCHANGED <<printer, claimed, attempts, manual, acked, passVars, poolVars, holdVars,
                   watch, req, printerVars, cmds, awaiting, callbacks, withdrawn>>

\* resume_queue_after_failure
RestorableOrStopped(i) == status[i] \in {"skipped", "cancelled"}     \* mutation
Restorable(i) == status[i] = "skipped"

ResumePrinter(p) ==
    LET failures == {i \in Items : printer[i] = p /\ status[i] = "failed" /\ i \notin acked}
        skips    == {i \in Items : printer[i] = p /\ Restorable(i)}
    IN  /\ failures \cup skips # {}
        /\ acked' = acked \cup failures
        /\ status' = [i \in Items |-> IF i \in skips THEN "pending" ELSE status[i]]
        /\ UNCHANGED <<printer, claimed, attempts, manual, passVars, poolVars, holdVars,
                       watch, req, printerVars, cmds, awaiting, callbacks, withdrawn>>

\* The user confirms that the plate is clear.
ClearPlate(p) ==
    /\ awaiting[p]
    /\ SetAwaiting(p, FALSE)
    /\ UNCHANGED <<tableVars, passVars, poolVars, holdVars, watch, req, printerVars, cmds,
                   callbacks, withdrawn>>

RouteStep ==
    \/ \E i \in Items : \/ \E a \in Assignment, m \in BOOLEAN : AddItem(i, a, m)
                        \/ DeleteItem(i)
                        \/ CancelItem(i)
                        \/ \E a \in Assignment : EditItem(i, a)
                        \/ StartItem(i)
                        \/ StopItem(i)
    \/ \E r \in Request : RequestChecks(r) \/ RequestCommits(r)
    \/ \E p \in Printers : ResumePrinter(p) \/ ClearPlate(p)

-----------------------------------------------------------------------------
(* The scheduler pass: check_queue reads the rows once, decides row by row  *)
(* with awaits in between, and launches what it selected at the end.        *)

Selectable(i) == status[i] = "pending" /\ ~claimed[i] /\ inflight[i] = NoPrinter

HeldPrinters == {p \in Printers : InDispatchHold(p)}
PrintingPrinters == {p \in Printers : PrintingOn(p) # {}}

\* Mutation: uploads still in flight from an earlier pass are not counted.
BusySeedWithoutUploads == PrintingPrinters \cup HeldPrinters
BusySeed == PrintingPrinters \cup HeldPrinters \cup {inflight[i] : i \in InFlight}

CheckQueueBegins ==
    LET rows == {i \in Items : Selectable(i)}
    IN  /\ ~passing
        /\ rows # {}
        /\ passing' = TRUE
        /\ todo' = {i \in rows : ~manual[i]}
        /\ snap' = [i \in Items |-> IF i \in todo' THEN printer[i] ELSE AnyPrinter]
        /\ busy' = BusySeed
        /\ hold' = [p \in Printers |-> IF p \in HeldPrinters THEN hold[p] ELSE "none"]
        /\ moved' = [p \in Printers |-> p \in HeldPrinters /\ moved[p]]
        /\ UNCHANGED <<tableVars, picked, poolVars, watch, req, printerVars, cmds,
                       awaiting, callbacks, withdrawn>>

Considered(i) == passing /\ i \in todo /\ todo' = todo \ {i}

\* The printer may take the row now: its own printer, or one the matcher finds.
Candidate(i, p) ==
    /\ snap[i] \in {p, AnyPrinter}
    /\ p \notin busy
    /\ IsPrinterIdle(p)

\* Left for a later pass: busy printer, scheduled for later, nothing matches.
LeaveItem(i) ==
    /\ Considered(i)
    /\ UNCHANGED <<tableVars, passing, picked, snap, busy, poolVars, holdVars, watch, req,
                   printerVars, cmds, awaiting, callbacks, withdrawn>>

\* Left, and its own printer is out of this pass: not connected and not to be
\* powered on, not idle, or a library row that another dispatch consumes.
LeaveItemAndPrinter(i) ==
    /\ Considered(i)
    /\ snap[i] \in Printers \ busy
    /\ busy' = busy \cup {snap[i]}
    /\ UNCHANGED <<tableVars, passing, picked, snap, poolVars, holdVars, watch, req,
                   printerVars, cmds, awaiting, callbacks, withdrawn>>

\* The gate of require_previous_success, written over whatever the row is now.
SkipItem(i) ==
    /\ Considered(i)
    /\ \E p \in Printers : Candidate(i, p)
    /\ PreviousMayBlock(i)
    /\ status[i] # "absent"
    /\ SetStatus(i, "skipped")
    /\ UNCHANGED <<printer, claimed, attempts, manual, acked, passing, picked, snap, busy,
                   poolVars, holdVars, watch, req, printerVars, cmds, awaiting, callbacks,
                   withdrawn>>

\* A row that names a model is assigned the printer, in memory and in the table.
Assign(i, p) ==
    /\ snap' = [snap EXCEPT ![i] = p]
    /\ printer' = IF snap[i] = p THEN printer ELSE [printer EXCEPT ![i] = p]
    /\ status[i] = "absent" => snap[i] = p

\* _block_on_filament_deficit
BlockOnFilamentDeficit(i, p) ==
    /\ Considered(i)
    /\ Candidate(i, p)
    /\ status[i] # "absent"
    /\ Assign(i, p)
    /\ manual' = [manual EXCEPT ![i] = TRUE]
    /\ UNCHANGED <<status, claimed, attempts, acked, passing, picked, busy, poolVars,
                   holdVars, watch, req, printerVars, cmds, awaiting, callbacks, withdrawn>>

SelectItem(i, p) ==
    /\ Considered(i)
    /\ Candidate(i, p)
    /\ Assign(i, p)
    /\ picked' = picked \cup {i}
    /\ busy' = busy \cup {p}
    /\ UNCHANGED <<status, claimed, attempts, manual, acked, passing, poolVars, holdVars,
                   watch, req, printerVars, cmds, awaiting, callbacks, withdrawn>>

PassEnds ==
    /\ passing' = FALSE
    /\ todo' = {} /\ picked' = {} /\ busy' = {}
    /\ snap' = [i \in Items |-> AnyPrinter]

\* An UPDATE of a row deleted meanwhile matches nothing: StaleDataError ends
\* the pass and what it had selected is not launched.
CheckQueueRaises ==
    /\ passing
    /\ \E i \in todo : status[i] = "absent"
    /\ PassEnds
    /\ UNCHANGED <<tableVars, poolVars, holdVars, watch, req, printerVars, cmds, awaiting,
                   callbacks, withdrawn>>

\* _launch_uploads: as many as the pool has room for, the rest another time.
FreeSlots == LET free == UploadLimit - Cardinality(InFlight) IN IF free > 0 THEN free ELSE 0

LaunchUploads ==
    /\ passing /\ todo = {}
    /\ \E launch \in SUBSET picked :
          /\ Cardinality(launch) <= FreeSlots
          /\ launch # picked => Cardinality(launch) = FreeSlots
          /\ inflight' = [i \in Items |-> IF i \in launch THEN snap[i] ELSE inflight[i]]
          /\ wpc' = [i \in Items |-> IF i \in launch THEN "launched" ELSE wpc[i]]
    /\ PassEnds
    /\ UNCHANGED <<tableVars, wprinter, holdVars, watch, req, printerVars, cmds, awaiting,
                   callbacks, withdrawn>>

SchedulerStep ==
    \/ CheckQueueBegins
    \/ \E i \in Items : \/ LeaveItem(i)
                        \/ LeaveItemAndPrinter(i)
                        \/ SkipItem(i)
                        \/ \E p \in Printers : BlockOnFilamentDeficit(i, p) \/ SelectItem(i, p)
    \/ CheckQueueRaises
    \/ LaunchUploads

-----------------------------------------------------------------------------
(* The pool workers: _dispatch_one and _start_print *)

WorkerAt(i, step) == wpc[i] = step
WorkerGoes(i, step) == wpc' = [wpc EXCEPT ![i] = step]

\* Mutation: the done callback does not return the slot.
WorkerEndsInPool(i) ==
    /\ WorkerGoes(i, "none")
    /\ wprinter' = [wprinter EXCEPT ![i] = AnyPrinter]
    /\ UNCHANGED inflight

WorkerEnds(i) ==
    /\ WorkerGoes(i, "none")
    /\ inflight' = [inflight EXCEPT ![i] = NoPrinter]
    /\ wprinter' = [wprinter EXCEPT ![i] = AnyPrinter]

\* _claim_for_dispatch: a compare-and-set on (pending, unclaimed).
ClaimForDispatch(i) ==
    /\ WorkerAt(i, "launched")
    /\ IF status[i] = "pending" /\ ~claimed[i]
       THEN /\ claimed' = [claimed EXCEPT ![i] = TRUE]
            /\ WorkerGoes(i, "claimed")
            /\ UNCHANGED <<inflight, wprinter>>
       ELSE WorkerEnds(i) /\ UNCHANGED claimed
    /\ UNCHANGED <<status, printer, attempts, manual, acked, passVars, holdVars, watch, req,
                   printerVars, cmds, awaiting, callbacks, withdrawn>>

\* A worker's plain write; when it fails, the exception ends the dispatch.
WorkerWrites(i, s) ==
    \/ OverwriteStatus(i, s)
    \/ "dbfault" \in Env /\ UNCHANGED status

\* The row is read, then the checks before the upload. Not connected, or a
\* source that is gone, fails the row; a busy printer or a row that is no
\* longer pending ends the dispatch and leaves the row alone.
CheckBeforeUpload(i) ==
    /\ WorkerAt(i, "claimed")
    /\ wprinter' = [wprinter EXCEPT ![i] = printer[i]]
    /\ LET p == printer[i] IN
       IF ~IsConnected(p)
       THEN WorkerWrites(i, "failed") /\ WorkerGoes(i, "clearing")
       ELSE /\ WorkerGoes(i, IF status[i] = "pending" /\ ~IsPrinterActive(p)
                             THEN "uploading" ELSE "clearing")
            /\ UNCHANGED status
    /\ UNCHANGED <<printer, claimed, attempts, manual, acked, passVars, inflight, holdVars,
                   watch, req, printerVars, cmds, awaiting, callbacks, withdrawn>>

\* Anything from the source lookup to the upload goes wrong. The write does
\* not look at the row again.
UploadFails(i) ==
    /\ WorkerAt(i, "uploading")
    /\ WorkerWrites(i, "failed")
    /\ WorkerGoes(i, "clearing")
    /\ UNCHANGED <<printer, claimed, attempts, manual, acked, passVars, inflight, wprinter,
                   holdVars, watch, req, printerVars, cmds, awaiting, callbacks, withdrawn>>

\* The file is on the printer: the compare-and-set pending -> printing.
StillThere(i) == status[i] # "absent"    \* mutation: a plain write, as before #1853
StillPending(i) == status[i] = "pending"

CommitPrinting(i) ==
    /\ WorkerAt(i, "uploading")
    /\ IF StillPending(i)
       THEN SetStatus(i, "printing") /\ WorkerGoes(i, "committed")
       ELSE WorkerGoes(i, "clearing") /\ UNCHANGED status
    /\ UNCHANGED <<printer, claimed, attempts, manual, acked, passVars, inflight, wprinter,
                   holdVars, watch, req, printerVars, cmds, awaiting, callbacks, withdrawn>>

\* printer_manager.start_print publishes unless the printer is active or gone.
MayPublish(p) == conn[p] /\ ~IsPrinterActive(p)

\* From the commit to the next await: lower the plate gate, publish, arm the
\* dispatch hold and spawn the watchdog.
SendStart(i) ==
    LET p == wprinter[i] IN
    /\ WorkerAt(i, "committed")
    /\ SetAwaiting(p, FALSE)
    /\ IF MayPublish(p)
       THEN /\ cmds' = cmds \cup {[item |-> i, printer |-> p, st |-> "wire"]}
            /\ hold' = [hold EXCEPT ![p] = "fresh"]
            /\ moved' = [moved EXCEPT ![p] = FALSE]
            /\ watch' = watch \cup {[item |-> i, printer |-> p, phase |-> "A"]}
            /\ WorkerGoes(i, "clearing")
       ELSE /\ WorkerGoes(i, "refused")
            /\ UNCHANGED <<cmds, holdVars, watch>>
    /\ UNCHANGED <<tableVars, passVars, inflight, wprinter, req, printerVars, callbacks,
                   withdrawn>>

\* After the awaited removal of the file: back to pending if the printer is
\* active now, failed otherwise, whatever the row says by now.
RefusalSettles(i) ==
    /\ WorkerAt(i, "refused")
    /\ WorkerWrites(i, IF IsPrinterActive(wprinter[i]) THEN "pending" ELSE "failed")
    /\ WorkerGoes(i, "clearing")
    /\ UNCHANGED <<printer, claimed, attempts, manual, acked, passVars, inflight, wprinter,
                   holdVars, watch, req, printerVars, cmds, awaiting, callbacks, withdrawn>>

\* _clear_dispatch_claim on every exit, then the done callback of the task.
ClearDispatchClaim(i) ==
    /\ WorkerAt(i, "clearing")
    /\ \/ claimed' = [claimed EXCEPT ![i] = FALSE]
       \/ "dbfault" \in Env /\ UNCHANGED claimed
    /\ WorkerEnds(i)
    /\ UNCHANGED <<status, printer, attempts, manual, acked, passVars, holdVars, watch, req,
                   printerVars, cmds, awaiting, callbacks, withdrawn>>

WorkerStepOf(i) ==
    \/ ClaimForDispatch(i)
    \/ CheckBeforeUpload(i)
    \/ UploadFails(i)
    \/ CommitPrinting(i)
    \/ SendStart(i)
    \/ RefusalSettles(i)
    \/ ClearDispatchClaim(i)

-----------------------------------------------------------------------------
(* The dispatch hold and the start watchdog *)

\* Timeouts are long: they only race a command still on its way with "late".
CommandsTo(p) == {c \in cmds : c.printer = p}
Overdue(p) == "late" \in Env \/ CommandsTo(p) = {}

HoldAges(p) ==
    /\ \/ hold[p] = "fresh" /\ hold' = [hold EXCEPT ![p] = "cooled"] /\ UNCHANGED moved
       \/ /\ hold[p] = "cooled" /\ Overdue(p)
          /\ hold' = [hold EXCEPT ![p] = "none"] /\ moved' = [moved EXCEPT ![p] = FALSE]
    /\ UNCHANGED <<tableVars, passVars, poolVars, watch, req, printerVars, cmds, awaiting,
                   callbacks, withdrawn>>

ReleaseDispatchHold(p) ==
    /\ hold' = [hold EXCEPT ![p] = "none"]
    /\ moved' = [moved EXCEPT ![p] = FALSE]

\* A poll finds the printer active: nothing left to watch. A subtask that
\* advanced is not enough; the mutation takes it for success, as before #1678.
LandedOrActive(w) == w.phase = "B" \/ IsPrinterActive(w.printer)
Acknowledged(w) == IsPrinterActive(w.printer)

WatchdogSeesActive(w) ==
    /\ w \in watch
    /\ Acknowledged(w)
    /\ ReleaseDispatchHold(w.printer)
    /\ watch' = watch \ {w}
    /\ UNCHANGED <<tableVars, passVars, poolVars, req, printerVars, cmds, awaiting,
                   callbacks, withdrawn>>

\* _do_revert: one more attempt used, and the last one fails the row. The
\* mutations never give up, and give up one attempt too late.
BudgetIgnored(i) == FALSE
BudgetOverrun(i) == attempts[i] + 1 > MaxAttempts
BudgetSpent(i) == attempts[i] + 1 >= MaxAttempts

Revert(i) ==
    IF status[i] = "printing"
    THEN /\ attempts' = [attempts EXCEPT ![i] = @ + 1]
         /\ SetStatus(i, IF BudgetSpent(i) THEN "failed" ELSE "pending")
    ELSE UNCHANGED <<attempts, status>>

\* No poll saw the printer active in time. A session that swallowed the
\* command is dropped, unless the file is known to have landed.
WatchdogTimesOut(w) ==
    /\ w \in watch
    /\ ~Acknowledged(w)
    /\ Overdue(w.printer)
    /\ ReleaseDispatchHold(w.printer)
    /\ \/ Revert(w.item)
       \/ "dbfault" \in Env /\ UNCHANGED <<attempts, status>>
    /\ conn' = [conn EXCEPT ![w.printer] =
                   @ /\ (w.phase = "B" \/ status[w.item] # "printing")]
    /\ watch' = watch \ {w}
    /\ UNCHANGED <<printer, claimed, manual, acked, passVars, poolVars, req, gcode, act,
                   cmds, awaiting, callbacks, withdrawn>>

WatchdogStep == \E w \in watch : WatchdogSeesActive(w) \/ WatchdogTimesOut(w)

-----------------------------------------------------------------------------
(* Printers and their reports (external): the client's cached gcode_state   *)
(* follows the printer while the session is up.                             *)

Taken(c) == [item |-> c.item, printer |-> c.printer, st |-> "taken"]
InPhaseB(w) == [item |-> w.item, printer |-> w.printer, phase |-> "B"]

\* Commands of one dispatch that reached the printer advance its subtask_id.
PrinterTakes(c) ==
    /\ c \in cmds /\ c.st = "wire"
    /\ conn[c.printer] /\ act[c.printer] # "RUNNING"
    /\ \A d \in CommandsTo(c.printer) : d.st = "wire"
    /\ cmds' = (cmds \ {c}) \cup {Taken(c)}
    /\ watch' = {IF w.printer = c.printer THEN InPhaseB(w) ELSE w : w \in watch}
    /\ MarkMoved(c.printer)
    /\ UNCHANGED <<tableVars, passVars, poolVars, hold, req, printerVars, awaiting,
                   callbacks, withdrawn>>

\* Lost on the way, rejected, or taken and never executed.
CommandLost(c) ==
    /\ c \in cmds
    /\ cmds' = cmds \ {c}
    /\ UNCHANGED <<tableVars, passVars, poolVars, holdVars, watch, req, printerVars,
                   awaiting, callbacks, withdrawn>>

PrinterMoves(p, s) ==
    /\ act' = [act EXCEPT ![p] = s]
    /\ IF conn[p]
       THEN gcode' = [gcode EXCEPT ![p] = s] /\ MarkMoved(p)
       ELSE UNCHANGED <<gcode, moved>>
    /\ UNCHANGED <<tableVars, passVars, poolVars, hold, watch, req, conn, awaiting, withdrawn>>

PrinterBegins(c) ==
    /\ c \in cmds /\ c.st = "taken"
    /\ act[c.printer] # "RUNNING"
    /\ PrinterMoves(c.printer, "RUNNING")
    /\ cmds' = cmds \ {c}
    /\ UNCHANGED callbacks

ForeignPrintBegins(p) ==
    /\ "foreign" \in Env
    /\ act[p] # "RUNNING"
    /\ PrinterMoves(p, "RUNNING")
    /\ UNCHANGED <<cmds, callbacks>>

\* on_print_complete is scheduled when the client has seen the print run.
Completes(p, o) ==
    /\ Cardinality(callbacks) < MaxCallbacks
    /\ callbacks' = callbacks \cup {[printer |-> p, outcome |-> o, raised |-> FALSE]}

PrinterEnds(p, o) ==
    /\ act[p] = "RUNNING"
    /\ Overdue(p)
    /\ PrinterMoves(p, "FINISH")
    /\ \/ conn[p] /\ Completes(p, o)
       \/ (conn[p] => "unseen" \in Env) /\ UNCHANGED callbacks
    /\ UNCHANGED cmds

\* The prompt on the screen is dismissed, or the printer is power-cycled idle.
PrinterDismisses(p) ==
    /\ "foreign" \in Env
    /\ act[p] = "FINISH"
    /\ PrinterMoves(p, "IDLE")
    /\ UNCHANGED <<cmds, callbacks>>

Disconnect(p) ==
    /\ "offline" \in Env
    /\ conn[p]
    /\ conn' = [conn EXCEPT ![p] = FALSE]
    /\ UNCHANGED <<tableVars, passVars, poolVars, holdVars, watch, req, gcode, act, cmds,
                   awaiting, callbacks, withdrawn>>

Reconnect(p, o) ==
    /\ ~conn[p]
    /\ conn' = [conn EXCEPT ![p] = TRUE]
    /\ gcode' = [gcode EXCEPT ![p] = act[p]]
    /\ IF gcode[p] # act[p] THEN MarkMoved(p) ELSE UNCHANGED moved
    /\ IF gcode[p] = "RUNNING" /\ act[p] # "RUNNING" THEN Completes(p, o) ELSE UNCHANGED callbacks
    /\ UNCHANGED <<tableVars, passVars, poolVars, hold, watch, req, act, cmds, awaiting,
                   withdrawn>>

PrinterStep ==
    \/ \E c \in cmds : PrinterTakes(c) \/ CommandLost(c) \/ PrinterBegins(c)
    \/ \E p \in Printers : \/ ForeignPrintBegins(p)
                           \/ PrinterDismisses(p)
                           \/ Disconnect(p)
                           \/ \E o \in Outcome : PrinterEnds(p, o) \/ Reconnect(p, o)

-----------------------------------------------------------------------------
(* on_print_complete *)

GateRaised(c) == [printer |-> c.printer, outcome |-> c.outcome, raised |-> TRUE]

RaisePlateGate(c) ==
    /\ c \in callbacks /\ ~c.raised
    /\ callbacks' = (callbacks \ {c}) \cup {GateRaised(c)}
    /\ SetAwaiting(c.printer, TRUE)
    /\ UNCHANGED <<tableVars, passVars, poolVars, holdVars, watch, req, printerVars, cmds,
                   withdrawn>>

\* After the clean-up of the SD card: the first printing row of this printer
\* gets the outcome, whichever job the callback is about.
UpdateQueueStatus(c) ==
    /\ c \in callbacks /\ c.raised
    /\ callbacks' = callbacks \ {c}
    /\ \/ PrintingOn(c.printer) = {} /\ UNCHANGED status
       \/ \E i \in PrintingOn(c.printer) : SetStatus(i, c.outcome)
    /\ UNCHANGED <<printer, claimed, attempts, manual, acked, passVars, poolVars, holdVars,
                   watch, req, printerVars, cmds, awaiting, withdrawn>>

CallbackStep == \E c \in callbacks : RaisePlateGate(c) \/ UpdateQueueStatus(c)

-----------------------------------------------------------------------------
(* A restart of the backend: no coroutine survives, the table does, and     *)
(* run() clears the dispatch claims before its first pass.                  *)

ClaimsKept == claimed                    \* mutation: no clean-up at startup
ClaimsAtStartup == [i \in Items |-> FALSE]

Restart ==
    /\ "restart" \in Env
    /\ claimed' = ClaimsAtStartup
    /\ PassEnds
    /\ inflight' = [i \in Items |-> NoPrinter]
    /\ wpc' = [i \in Items |-> "none"]
    /\ wprinter' = [i \in Items |-> AnyPrinter]
    /\ hold' = [p \in Printers |-> "none"]
    /\ moved' = [p \in Printers |-> FALSE]
    /\ watch' = {} /\ callbacks' = {} /\ req' = {}
    /\ conn' = [p \in Printers |-> FALSE]
    /\ gcode' = [p \in Printers |-> "unknown"]
    /\ UNCHANGED <<status, printer, attempts, manual, acked, act, cmds, awaiting, withdrawn>>

Next ==
    \/ RouteStep
    \/ SchedulerStep
    \/ \E i \in Items : WorkerStepOf(i)
    \/ \E p \in Printers : HoldAges(p)
    \/ WatchdogStep
    \/ PrinterStep
    \/ CallbackStep
    \/ Restart

Spec == Init /\ [][Next]_vars

\* The event loop runs every task that is ready, uploads and waits have
\* deadlines, a command is executed or lost, a print ends, a session comes back.
Fairness ==
    /\ \A i \in Items : WF_vars(WorkerStepOf(i))
    /\ \A i \in Items, p \in Printers :
          WF_vars(\E w \in watch : /\ w.item = i /\ w.printer = p
                                   /\ WatchdogSeesActive(w) \/ WatchdogTimesOut(w))
    /\ WF_vars(CallbackStep)
    /\ \A i \in Items, p \in Printers :
          WF_vars(\E c \in CommandsTo(p) : c.item = i /\ (CommandLost(c) \/ PrinterBegins(c)))
    /\ \A p \in Printers : WF_vars(\E o \in Outcome : PrinterEnds(p, o))
    /\ \A p \in Printers : WF_vars(\E o \in Outcome : Reconnect(p, o))

FairSpec == Spec /\ Fairness

-----------------------------------------------------------------------------
(* Type invariant *)

TypeOK ==
    /\ status \in [Items -> Status]
    /\ printer \in [Items -> Assignment]
    /\ claimed \in [Items -> BOOLEAN]
    /\ attempts \in [Items -> 0..MaxAttempts]
    /\ manual \in [Items -> BOOLEAN]
    /\ acked \subseteq Items
    /\ passing \in BOOLEAN
    /\ todo \subseteq Items /\ picked \subseteq Items
    /\ snap \in [Items -> Assignment]
    /\ busy \subseteq Printers
    /\ inflight \in [Items -> Printers \cup {NoPrinter}]
    /\ wpc \in [Items -> WorkerStep]
    /\ wprinter \in [Items -> Assignment]
    /\ hold \in [Printers -> {"none", "fresh", "cooled"}]
    /\ moved \in [Printers -> BOOLEAN]
    /\ watch \subseteq Watchdog
    /\ req \subseteq Request
    /\ conn \in [Printers -> BOOLEAN]
    /\ gcode \in [Printers -> GcodeState]
    /\ act \in [Printers -> GcodeState \ {"unknown"}]
    /\ cmds \subseteq Command
    /\ awaiting \in [Printers -> BOOLEAN]
    /\ callbacks \subseteq Callback
    /\ withdrawn \subseteq Items

-----------------------------------------------------------------------------
(* Safety *)

ActiveWorker(i) == wpc[i] \in {"claimed", "uploading", "committed", "refused", "clearing"}

\* A row carries the dispatch claim exactly while a live worker dispatches it:
\* no other pass or edit can get at a row that is being uploaded, and no row is
\* wedged by a claim nobody will clear (#2615). A lost release needs a restart.
ClaimDiscipline ==
    \A i \in Items :
        /\ ActiveWorker(i) /\ status[i] # "absent" => claimed[i]
        /\ claimed[i] /\ "dbfault" \notin Env => ActiveWorker(i)

\* The row names the printer its worker uploads and sends the command to: no
\* edit splits the row from the physical print (#2615).
RowFollowsDispatch ==
    \A i \in Items :
        wpc[i] \in {"uploading", "committed", "refused"} /\ status[i] # "absent"
            => printer[i] = wprinter[i]

\* At most one row per printer is printing: completion, stop and the busy
\* seed all rely on it ("BUG: Multiple queue items in 'printing' status").
OnePrintingRow ==
    \A i, j \in Items :
        status[i] = "printing" /\ status[j] = "printing" /\ printer[i] = printer[j] => i = j

\* A printer that never starts costs at most MaxAttempts uploads: the row that
\* used its last attempt is out of the queue for good (#2555).
RetryBudget ==
    \A i \in Items :
        /\ attempts[i] <= MaxAttempts
        /\ attempts[i] = MaxAttempts => status[i] \notin {"pending", "printing"}

\* While a watchdog may still take back a dispatch of a row, the row is not up
\* for another one: a revert never hits a later dispatch of the same row.
WatchdogOwnsRetry ==
    \A w \in watch :
        /\ status[w.item] # "pending"
        /\ \A x \in watch : x.item = w.item => x = w

\* A row the user cancelled while it was pending is never about to be sent to a
\* printer, however far its upload had come (#1853); a gated row is excepted, the
\* pass may write "skipped" over its cancel.
CancelWins == \A i \in Items \ Gated : wpc[i] = "committed" => i \notin withdrawn

\* A start command on its way to a printer keeps every other dispatch off that
\* printer, also when the user stops its row or the row is gone: a row is
\* printing there, the hold is in force or the printer is busy (#1157, #2598).
UnacknowledgedStartIsHeld ==
    \A c \in cmds :
        c.st = "wire" => \/ PrintingOn(c.printer) # {}
                         \/ InDispatchHold(c.printer)
                         \/ IsPrinterActive(c.printer)

\* A row that is printing always has somebody who will end it: the worker that
\* committed it, its watchdog, the client that has seen the print run, or the
\* callback of a print that has ended on its printer (#967, #1678).
PrintingIsOwned ==
    \A i \in Items :
        status[i] = "printing" =>
            \/ wpc[i] \in {"committed", "refused"}
            \/ \E w \in watch : w.item = i
            \/ IsPrinterActive(printer[i])
            \/ \E c \in callbacks : c.printer = printer[i]

\* A row that has its outcome is not printed again: no revert, resume or late
\* write of a worker puts it back into the queue (#1853). Excepted are a start
\* that is being refused and a gated row, over which a pass may write "skipped".
OutcomeIsFinal ==
    [][\A i \in Items \ Gated :
          status[i] \in {"completed", "failed", "cancelled"} /\ wpc[i] # "refused"
              => status'[i] \notin {"pending", "printing", "skipped"}]_vars

-----------------------------------------------------------------------------
(* The queue implements the contract of the prints it runs. *)

Runs == INSTANCE PrintRuns WITH
    running <- {<<i, printer[i]>> : i \in {j \in Items : status[j] = "printing"}}

\* Every step that a row's status and counter can see begins, ends or takes
\* back one run, on the printer where that run began and within its attempts,
\* or is invisible: no late write, revert or callback moves or doubles a print.
OneRunAtATime == Runs!Spec

-----------------------------------------------------------------------------
(* Liveness *)

\* Every dispatch ends and gives its slot of the upload pool back (#2602).
DispatchEnds == \A i \in Items : inflight[i] # NoPrinter ~> inflight[i] = NoPrinter

\* No row stays in printing for ever: the print ends, the watchdog takes the
\* dispatch back, or it runs out of attempts (#967, #1678, #2555).
PrintingEnds == \A i \in Items : status[i] = "printing" ~> status[i] # "printing"

=============================================================================
