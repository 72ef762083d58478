---------------------------- MODULE SmartPlugOff ----------------------------
(***************************************************************************)
(* The automatic power-off of a printer behind a smart plug. A print that  *)
(* completes, a queue job that asks for it, or a drying cycle that ends    *)
(* schedules a task which waits, for a time or for the nozzle to cool, and *)
(* cuts the power. The next print cancels the task through a registry with *)
(* one entry per plug; a flag in the table lets a restarted backend resume *)
(* what was pending.                                                       *)
(*                                                                         *)
(* A step is the code between two awaits that can block. A task that is    *)
(* cancelled runs its finally block before any other handler: both are     *)
(* one step. Tasks are numbered in the order in which they are created.    *)
(***************************************************************************)
EXTENDS Integers, Sequences, FiniteSets

CONSTANTS
    Uses,          \* the combinations of what schedules a power-off
    MaxTasks,      \* bound: power-off tasks ever created
    MaxPrints,     \* bound: prints the printer starts
    MaxPolls,      \* polls of the temperature until it gives up: 3600 s / 10 s
    MaxCallbacks   \* bound: callbacks that wait to be handled

Tasks == 1..MaxTasks
None == 0

ASSUME PlugAssumption ==
    /\ Uses \subseteq SUBSET {"auto", "queue", "dry"}
    /\ MaxTasks \in Nat
    /\ MaxPrints \in Nat
    /\ MaxPolls \in Nat

VARIABLES
    \* the plug as the user has set it up
    mode,         \* off_delay_mode
    uses,         \* what schedules a power-off: "auto", "queue", "dry"
    auto,         \* auto_off
    flag,         \* auto_off_pending
    \* the printer
    power,        \* the plug is on
    printing,     \* a print is loaded
    prints,       \* prints started so far
    lastEnd,      \* how the last one ended
    known,        \* the client is connected and has had a report
    \* the backend
    inbox,        \* callbacks that wait to be handled
    created,      \* power-off tasks created so far
    phase,        \* what each task does
    cause,        \* what scheduled it
    polls,        \* its polls of the temperature so far
    entry,        \* _pending_off[plug], or None
    marks,        \* writes of the flag that were spawned and are not committed
    resuming,     \* resume_pending_auto_offs has not run yet
    \* history
    mishaps       \* what has happened that the code has no answer to

settings == <<mode, uses>>
printerVars == <<power, printing, prints, lastEnd, known>>
taskVars == <<created, phase, cause, polls, entry>>
vars == <<settings, auto, flag, printerVars, inbox, taskVars, marks, resuming, mishaps>>

Phase == {"none", "waiting", "turning", "switched", "skipping", "over"}
Mishap == {"replaced", "overtaken", "gaveup", "missed"}

Live(t) == phase[t] \in {"waiting", "turning", "switched", "skipping"}

Init ==
    /\ mode \in {"time", "temperature"}
    /\ uses \in Uses
    /\ auto = TRUE /\ flag = FALSE
    /\ power = TRUE /\ printing = FALSE /\ prints = 0 /\ lastEnd = "none" /\ known = TRUE
    /\ inbox = <<>>
    /\ created = 0 /\ entry = None
    /\ phase = [t \in Tasks |-> "none"]
    /\ cause = [t \in Tasks |-> "none"]
    /\ polls = [t \in Tasks |-> 0]
    /\ marks = <<>>
    /\ resuming = FALSE
    /\ mishaps = {}

-----------------------------------------------------------------------------
(* Tasks and their registry *)

\* Mutation: a task that returns early stays in the registry.
EndsRegistered(t) == phase' = [phase EXCEPT ![t] = "over"] /\ UNCHANGED entry

\* The finally block of a task pops whatever the registry has for the plug.
Ends(t) ==
    /\ phase' = [phase EXCEPT ![t] = "over"]
    /\ entry' = IF cause[t] = "startup" THEN entry ELSE None

\* Bound: writes of the flag that are under way.
Fits == marks = <<>>

\* Mutation: the entry is deleted and the task goes on.
ForgetPendingOff ==
    /\ entry # None => Fits
    /\ entry' = None
    /\ marks' = IF entry = None THEN marks ELSE Append(marks, FALSE)
    /\ UNCHANGED phase

\* Mutation: the pending state in the table is not cleared.
CancelSilently ==
    /\ phase' = [t \in Tasks |-> IF t = entry THEN "over" ELSE phase[t]]
    /\ entry' = None
    /\ UNCHANGED marks

\* _cancel_pending_off
CancelPendingOff ==
    IF entry = None
    THEN UNCHANGED <<phase, entry, marks>>
    ELSE /\ Fits
         /\ phase' = [phase EXCEPT ![entry] = "over"]
         /\ entry' = None
         /\ marks' = Append(marks, FALSE)

\* What the registry has after a new task: the finally block of the task that
\* it replaces runs later and pops the new entry.
Registered(t) == IF entry = None THEN t ELSE None

\* _schedule_off_per_mode, _schedule_delayed_off, _schedule_temp_based_off
ScheduleOff(why, seen) ==
    LET t == created + 1 IN
    /\ t \in Tasks /\ Fits
    /\ created' = t
    /\ phase' = [s \in Tasks |-> IF s = t THEN "waiting" ELSE IF s = entry THEN "over" ELSE phase[s]]
    /\ cause' = [cause EXCEPT ![t] = why]
    /\ polls' = [polls EXCEPT ![t] = 0]
    /\ entry' = Registered(t)
    /\ marks' = IF entry = None THEN Append(marks, TRUE) ELSE marks \o <<FALSE, TRUE>>
    /\ mishaps' = IF entry = None THEN seen ELSE seen \cup {"replaced"}

-----------------------------------------------------------------------------
(* The printer (external) and the callbacks it causes *)

Tell(e) ==
    /\ known => Len(inbox) < MaxCallbacks
    /\ inbox' = IF known THEN Append(inbox, e) ELSE inbox
    /\ mishaps' = IF known THEN mishaps ELSE mishaps \cup {"missed"}

PrintStarts ==
    /\ power /\ ~printing /\ prints < MaxPrints
    /\ printing' = TRUE /\ prints' = prints + 1
    /\ Tell("start")
    /\ UNCHANGED <<settings, auto, flag, power, lastEnd, known, taskVars, marks, resuming>>

PrintEnds(how) ==
    /\ printing
    /\ printing' = FALSE /\ lastEnd' = how
    /\ Tell(how)
    /\ UNCHANGED <<settings, auto, flag, power, prints, known, taskVars, marks, resuming>>

DryingEnds ==
    /\ power /\ "dry" \in uses /\ created < MaxTasks
    /\ Tell("dry")
    /\ UNCHANGED <<settings, auto, flag, printerVars, taskVars, marks, resuming>>

\* By hand or by the plug's schedule: neither looks at the print or cancels
\* what is pending.
TurnedOff ==
    /\ power /\ power' = FALSE
    /\ printing' = FALSE /\ known' = FALSE
    /\ UNCHANGED <<settings, auto, flag, prints, lastEnd, inbox, taskVars, marks, resuming, mishaps>>

TurnedOn ==
    /\ ~power /\ power' = TRUE
    /\ UNCHANGED <<settings, auto, flag, printing, prints, lastEnd, known, inbox, taskVars, marks,
                   resuming, mishaps>>

\* The user sets the one-shot automatic power-off again.
UserSetsAuto ==
    /\ ~auto /\ auto' = TRUE
    /\ UNCHANGED <<settings, flag, printerVars, inbox, taskVars, marks, resuming, mishaps>>

\* The session drops, or comes back with a report.
SessionChanges ==
    /\ known' = ~known /\ (known' => power)
    /\ UNCHANGED <<settings, auto, flag, power, printing, prints, lastEnd, inbox, taskVars, marks,
                   resuming, mishaps>>

\* printer_manager.is_print_active
IsPrintActive == known /\ power /\ printing

-----------------------------------------------------------------------------
(* The handlers. Callbacks are handled in order unless one is overtaken.    *)

Take(k) ==
    /\ k \in DOMAIN inbox
    /\ inbox' = [n \in 1..(Len(inbox) - 1) |-> IF n < k THEN inbox[n] ELSE inbox[n + 1]]

Overtakes(k) == IF k = 1 THEN mishaps ELSE mishaps \cup {"overtaken"}

\* The flag is cleared past a spawned write, or past another power-off.
Clears(others) ==
    /\ flag' = FALSE
    /\ mishaps' = IF marks = <<>> /\ \A s \in others : ~Live(s) THEN mishaps
                  ELSE mishaps \cup {"overtaken"}

\* on_print_start cancels before it looks at auto_on.
OnPrintStart(k) ==
    /\ Take(k) /\ inbox[k] = "start"
    /\ CancelPendingOff
    /\ mishaps' = IF resuming THEN mishaps \cup {"overtaken"} ELSE Overtakes(k)
    /\ power' \in {power, TRUE}
    /\ UNCHANGED <<settings, auto, flag, printing, prints, lastEnd, known, created, cause, polls, resuming>>

\* Mutation: the status of the print is not looked at.
ForAnyEnd(end) == auto
\* A print that is not completed keeps the printer on for investigation.
AutoOffFor(end) == auto /\ end = "completed"

OnPrintComplete(k) ==
    /\ Take(k) /\ inbox[k] \in {"completed", "failed"}
    /\ IF "auto" \in uses /\ AutoOffFor(inbox[k])
       THEN ScheduleOff("auto", Overtakes(k))
       ELSE mishaps' = Overtakes(k) /\ UNCHANGED <<taskVars, marks>>
    /\ UNCHANGED <<settings, auto, flag, printerVars, resuming>>

\* A queue job that asked for it has ended, was stopped, or never started.
ScheduleOffAfterQueueJob ==
    /\ "queue" \in uses
    /\ ScheduleOff("queue", mishaps)
    /\ UNCHANGED <<settings, auto, flag, printerVars, inbox, resuming>>

OnDryingComplete(k) ==
    /\ Take(k) /\ inbox[k] = "dry"
    /\ ScheduleOff("dry", Overtakes(k))
    /\ UNCHANGED <<settings, auto, flag, printerVars, resuming>>

\* A spawned write commits; sessions are separate, so one may overtake.
MarkAutoOffPending(k) ==
    /\ k \in DOMAIN marks
    /\ flag' = marks[k]
    /\ marks' = [n \in 1..(Len(marks) - 1) |-> IF n < k THEN marks[n] ELSE marks[n + 1]]
    /\ mishaps' = Overtakes(k)
    /\ UNCHANGED <<settings, auto, printerVars, inbox, taskVars, resuming>>

-----------------------------------------------------------------------------
(* A power-off task: _delayed_off and _temp_based_off *)

\* After drying the delay is timed whatever the plug's mode is.
Timed(t) == mode = "time" \/ cause[t] = "dry"

\* Never cut the power of a loaded print: skip, and clear the flag.
DelayIsOver(t) ==
    /\ phase[t] = "waiting" /\ Timed(t)
    /\ phase' = [phase EXCEPT ![t] = IF IsPrintActive THEN "skipping" ELSE "turning"]
    /\ UNCHANGED <<settings, auto, flag, printerVars, inbox, created, cause, polls, entry, marks,
                   resuming, mishaps>>

Skips(t) ==
    /\ phase[t] = "skipping"
    /\ Clears(Tasks \ {t})
    /\ Ends(t)
    /\ UNCHANGED <<settings, auto, printerVars, inbox, created, cause, polls, marks, resuming>>

\* Mutation: a poll that finds a print active does not count.
PollsWhileHot(t) == IF IsPrintActive THEN polls[t] ELSE polls[t] + 1
\* Mutation: one that finds a print active counts twice.
PollsTwice(t) == IF IsPrintActive THEN polls[t] + 2 ELSE polls[t] + 1
PollsAfter(t) == polls[t] + 1

\* The nozzle is hot, or a print is active: sleep and poll again.
StaysHot(t) ==
    /\ phase[t] = "waiting" /\ ~Timed(t) /\ polls[t] < MaxPolls
    /\ polls' = [polls EXCEPT ![t] = PollsAfter(t)]
    /\ UNCHANGED <<settings, auto, flag, printerVars, inbox, created, phase, cause, entry, marks,
                   resuming, mishaps>>

HasCooled(t) ==
    /\ phase[t] = "waiting" /\ ~Timed(t) /\ polls[t] < MaxPolls
    /\ ~IsPrintActive
    /\ phase' = [phase EXCEPT ![t] = "turning"]
    /\ UNCHANGED <<settings, auto, flag, printerVars, inbox, created, cause, polls, entry, marks,
                   resuming, mishaps>>

\* The flag stays set: a later restart resumes a power-off of long ago.
TimesOut(t) ==
    /\ phase[t] = "waiting" /\ ~Timed(t) /\ polls[t] = MaxPolls
    /\ Ends(t)
    /\ mishaps' = mishaps \cup {"gaveup"}
    /\ UNCHANGED <<settings, auto, flag, printerVars, inbox, created, cause, polls, marks, resuming>>

\* turn_off: the plug switches, and a print that runs is lost unseen.
PlugSwitches(t) ==
    /\ phase[t] = "turning"
    /\ power' = FALSE /\ printing' = FALSE
    /\ phase' = [phase EXCEPT ![t] = "switched"]
    /\ UNCHANGED <<settings, auto, flag, prints, lastEnd, known, inbox, created, cause, polls, entry,
                   marks, resuming, mishaps>>

TurnOffFails(t) ==
    /\ phase[t] = "turning"
    /\ Ends(t)
    /\ mishaps' = mishaps \cup {"gaveup"}
    /\ UNCHANGED <<settings, auto, flag, printerVars, inbox, created, cause, polls, marks, resuming>>

\* _mark_auto_off_executed, one-shot unless the plug is auto_off_persistent;
\* mark_printer_offline.
MarkAutoOffExecuted(t) ==
    /\ phase[t] = "switched"
    /\ Clears(Tasks \ {t})
    /\ auto' \in {auto, FALSE}
    /\ known' = FALSE
    /\ Ends(t)
    /\ UNCHANGED <<settings, power, printing, prints, lastEnd, inbox, created, cause, polls, marks,
                   resuming>>

-----------------------------------------------------------------------------
(* A restart of the backend *)

\* Callbacks and spawned writes are lost with the process.
Restart ==
    /\ phase' = [t \in Tasks |-> IF Live(t) THEN "over" ELSE phase[t]]
    /\ entry' = None
    /\ inbox' = <<>> /\ marks' = <<>>
    /\ mishaps' = IF inbox = <<>> /\ marks = <<>> THEN mishaps ELSE mishaps \cup {"missed"}
    /\ known' = FALSE /\ resuming' = TRUE
    /\ UNCHANGED <<settings, auto, flag, power, printing, prints, lastEnd, created, cause, polls>>

ResumeFindsNothing ==
    /\ resuming /\ resuming' = FALSE
    /\ ~flag
    /\ UNCHANGED <<settings, auto, flag, printerVars, inbox, taskVars, marks, mishaps>>

\* A flag older than two hours is dropped, and so is one that finds a print.
ResumeDrops ==
    /\ resuming /\ resuming' = FALSE
    /\ flag /\ Clears(Tasks)
    /\ UNCHANGED <<settings, auto, printerVars, inbox, taskVars, marks>>

\* A timed one is executed by the startup itself, which nothing can cancel.
ResumePendingAutoOff ==
    LET t == created + 1 IN
    /\ resuming /\ resuming' = FALSE
    /\ flag /\ ~IsPrintActive
    /\ IF mode = "temperature"
       THEN ScheduleOff("resume", mishaps)
       ELSE /\ t \in Tasks
            /\ created' = t
            /\ phase' = [phase EXCEPT ![t] = "turning"]
            /\ cause' = [cause EXCEPT ![t] = "startup"]
            /\ UNCHANGED <<polls, entry, marks, mishaps>>
    /\ UNCHANGED <<settings, auto, flag, printerVars, inbox>>

-----------------------------------------------------------------------------
TaskNext(t) ==
    \/ DelayIsOver(t) \/ Skips(t) \/ StaysHot(t) \/ HasCooled(t) \/ TimesOut(t)
    \/ PlugSwitches(t) \/ TurnOffFails(t) \/ MarkAutoOffExecuted(t)

Next ==
    \/ PrintStarts \/ (\E how \in {"completed", "failed"} : PrintEnds(how)) \/ DryingEnds
    \/ TurnedOff \/ TurnedOn \/ UserSetsAuto \/ SessionChanges
    \/ \E k \in 1..MaxCallbacks : OnPrintStart(k) \/ OnPrintComplete(k) \/ OnDryingComplete(k)
    \/ ScheduleOffAfterQueueJob
    \/ \E k \in 1..2 : MarkAutoOffPending(k)
    \/ \E t \in Tasks : TaskNext(t)
    \/ Restart \/ ResumeFindsNothing \/ ResumeDrops \/ ResumePendingAutoOff

Spec == Init /\ [][Next]_vars

\* Timers fire, requests to the plug return and callbacks are handled.
Fairness == \A t \in Tasks : WF_vars(TaskNext(t))

FairSpec == Spec /\ Fairness

-----------------------------------------------------------------------------
TypeOK ==
    /\ mode \in {"time", "temperature"} /\ uses \subseteq {"auto", "queue", "dry"}
    /\ auto \in BOOLEAN /\ flag \in BOOLEAN
    /\ power \in BOOLEAN /\ printing \in BOOLEAN /\ known \in BOOLEAN
    /\ printing => power
    /\ prints \in 0..MaxPrints /\ lastEnd \in {"none", "completed", "failed"}
    /\ inbox \in Seq({"start", "completed", "failed", "dry"})
    /\ created \in 0..MaxTasks
    /\ phase \in [Tasks -> Phase]
    /\ cause \in [Tasks -> {"none", "auto", "queue", "dry", "resume", "startup"}]
    /\ polls \in [Tasks -> 0..MaxPolls]
    /\ entry \in 0..created
    /\ marks \in Seq(BOOLEAN)
    /\ resuming \in BOOLEAN
    /\ mishaps \subseteq Mishap

\* Cancelling a pending power-off is only ever possible through the registry:
\* unless one task has replaced another, a task that can still cut the power
\* is the registered one, whatever ended, failed or was resumed before.
TimerIsCancellable ==
    "replaced" \notin mishaps =>
        \A t \in Tasks : Live(t) /\ cause[t] # "startup" => entry = t

\* The registry never keeps a task that is over: cancelling it would do
\* nothing, and report the flag as cleared.
EntryIsLive == entry # None => Live(entry)

LatestMark == IF marks = <<>> THEN flag ELSE marks[Len(marks)]

\* The flag that survives a restart says whether a power-off is pending: a
\* missing one is forgotten by the restart, a stale one cuts the power of a
\* printer nobody wants off. Given-up power-offs leave it stale.
FlagTells ==
    mishaps = {} /\ ~resuming /\ (\A t \in Tasks : Live(t) => cause[t] # "startup")
        => (LatestMark <=> \E t \in Tasks : Live(t))

Cuts(t) == phase[t] = "turning" /\ phase'[t] = "switched"

\* If every callback has been told and handled in order, the power-off of a
\* completed print never hits a printer that prints, or one whose last print
\* failed and which is kept on for investigation.
KeptOnAfterFailure ==
    [][\A t \in Tasks :
          Cuts(t) /\ cause[t] # "startup" /\ uses = {"auto"} /\ inbox = <<>> /\ mishaps = {}
              => ~printing /\ lastEnd = "completed"]_vars

\* Every power-off comes to an end, one that defers to a running print too.
OffTasksEnd == \A t \in Tasks : Live(t) ~> ~Live(t)

-----------------------------------------------------------------------------
(* What comments promise and the code does not keep *)

\* Scheduling registers a cancellable task in _pending_off, so a print that
\* starts cancels the pending off: no scheduled task survives its handler.
ReprintCancels ==
    [][\A k \in 1..MaxCallbacks : OnPrintStart(k)
          => \A t \in Tasks : ~Live(t)' \/ cause[t] = "startup"]_vars
=============================================================================
