--------------------------- MODULE PrintLifecycle ---------------------------
(***************************************************************************)
(* How the MQTT client of a printer derives the start and the completion   *)
(* of a print from status reports: a report carries the printer's state of *)
(* the moment or, most of the time, neither state nor file; states are     *)
(* missed while the session is down, and a smart plug may make the client  *)
(* presume the printer off.                                                *)
(*                                                                         *)
(* A step is the handling of one report, which paho's thread does in one   *)
(* go. A print is known by its number; the client only ever compares its   *)
(* file name, and prints of the same file look alike to it.                *)
(***************************************************************************)
EXTENDS Integers, Sequences

CONSTANTS
    MaxJobs,      \* bound: prints the printer takes on
    Files,        \* names of printed files
    Env           \* "offline", "restart", "plug": see the actions

Jobs == 1..MaxJobs
NoJob == 0        \* the printer reports no file

ASSUME LifecycleAssumption ==
    /\ MaxJobs \in Nat
    /\ Env \subseteq {"offline", "restart", "plug"}

VARIABLES
    \* the printer and its session
    real,         \* what it does
    job,          \* the prints it has taken on so far
    shown,        \* the print whose file it reports
    file,         \* the file of each print
    link,         \* the session is up
    news,         \* the client has not been told of the last change
    \* the client
    connected,    \* state.connected
    state,        \* state.state
    current,      \* state.gcode_file
    prev,         \* _previous_gcode_state
    prevJob,      \* _previous_gcode_file
    running,      \* _was_running
    triggered,    \* _completion_triggered
    saved,        \* _state_before_power_off
    log,          \* the callbacks fired since the backend started
    \* history
    intact,       \* the session has never dropped since the backend started
    begun         \* prints ever reported as started

printerVars == <<real, job, shown, file>>
clientVars == <<state, current, prev, prevJob, running, triggered, log, begun>>
vars == <<printerVars, link, news, connected, saved, clientVars, intact>>

Ended == {"FINISH", "FAILED"}
PrinterState == {"IDLE", "PREPARE", "RUNNING", "PAUSE"} \cup Ended

Contract == INSTANCE PrintEvents WITH Jobs <- Jobs, log <- log
Event == Contract!Event

-----------------------------------------------------------------------------
Init ==
    /\ real = "IDLE" /\ job = 0 /\ shown = NoJob
    /\ file \in [Jobs -> Files]
    /\ link = FALSE /\ news = TRUE
    /\ connected = FALSE
    /\ state = "unknown" /\ current = NoJob
    /\ prev = "none" /\ prevJob = NoJob
    /\ running = FALSE /\ triggered = FALSE
    /\ saved = "none"
    /\ log = <<>>
    /\ intact = TRUE /\ begun = {}

-----------------------------------------------------------------------------
(* The printer (external). While the session is up a change is reported     *)
(* before the next one. A cancelled print ends in FAILED, or in IDLE when   *)
(* it was preparing or running.                                             *)

Moves ==
    { <<"PREPARE", "RUNNING">>, <<"PREPARE", "FAILED">>, <<"PREPARE", "IDLE">>,
      <<"RUNNING", "PAUSE">>, <<"PAUSE", "RUNNING">>, <<"PAUSE", "FAILED">>,
      <<"RUNNING", "FINISH">>, <<"RUNNING", "FAILED">>, <<"RUNNING", "IDLE">>,
      <<"FINISH", "IDLE">>, <<"FAILED", "IDLE">> }

Reported == ~news \/ ~link

PrinterMoves(s) ==
    /\ Reported
    /\ <<real, s>> \in Moves
    /\ real' = s
    /\ news' = TRUE
    /\ UNCHANGED <<job, shown, file, link, connected, saved, clientVars, intact>>

TakesJob(s) ==
    /\ Reported
    /\ real \in {"IDLE"} \cup Ended
    /\ job < MaxJobs
    /\ real' = s /\ job' = job + 1 /\ shown' = job + 1
    /\ news' = TRUE
    /\ UNCHANGED <<file, link, connected, saved, clientVars, intact>>

\* A power cycle ends a print and forgets its file.
PowerOff ==
    /\ "plug" \in Env
    /\ real # "OFF"
    /\ real' = "OFF"
    /\ link' = FALSE /\ intact' = FALSE
    /\ UNCHANGED <<job, shown, file, news, connected, saved, clientVars>>

PowerOn ==
    /\ real = "OFF"
    /\ real' = "IDLE" /\ shown' = NoJob
    /\ news' = TRUE
    /\ UNCHANGED <<job, file, link, connected, saved, clientVars, intact>>

PrinterStep ==
    \/ \E s \in PrinterState : PrinterMoves(s)
    \/ \E s \in {"PREPARE", "RUNNING"} : TakesJob(s)
    \/ PowerOff
    \/ PowerOn

-----------------------------------------------------------------------------
(* The session *)

LinkDrops ==
    /\ "offline" \in Env
    /\ link
    /\ link' = FALSE /\ intact' = FALSE
    /\ UNCHANGED <<printerVars, news, connected, saved, clientVars>>

\* _on_disconnect, which a spurious disconnect does not reach.
OnDisconnect ==
    /\ ~link /\ connected
    /\ connected' = FALSE
    /\ UNCHANGED <<printerVars, link, news, saved, clientVars, intact>>

\* _on_connect: a full status push is requested.
OnConnect ==
    /\ ~link /\ real # "OFF"
    /\ link' = TRUE /\ connected' = TRUE
    /\ saved' = "none"
    /\ news' = TRUE
    /\ UNCHANGED <<printerVars, clientVars, intact>>

\* mark_power_off: a plug went off; it need not be the printer's.
SavedOnEveryMark == IF saved = "none" THEN state ELSE saved    \* mutation
SavedOnMark == IF saved = "none" /\ state # "unknown" THEN state ELSE saved

MarkPowerOff ==
    /\ "plug" \in Env
    /\ connected
    /\ connected' = FALSE
    /\ state' = "unknown"
    /\ saved' = SavedOnMark
    /\ UNCHANGED <<printerVars, link, news, current, prev, prevJob, running, triggered, log,
                   begun, intact>>

-----------------------------------------------------------------------------
(* _update_state, for a report that leaves the cached state at s and the    *)
(* cached file at that of print c                                           *)

TracksRun(s, c) == s = "RUNNING" /\ c # NoJob

\* Mutation: a resumed print is not told from a new one.
IsNewPrintOrResumed(s, c) == TracksRun(s, c) /\ prev \notin {"none", "RUNNING"}
IsNewPrint(s, c) == TracksRun(s, c) /\ prev \notin {"none", "RUNNING"} /\ ~running

IsFileChange(s, c) == TracksRun(s, c) /\ prevJob # NoJob /\ file[c] # file[prevJob]

\* Mutations: only a transition from RUNNING ends a print; an abort is missed.
EndsRun(s) == s \in Ended /\ prev = "RUNNING"
EndsPrint(s) ==
    /\ s \in Ended
    /\ \/ prev = "RUNNING"
       \/ running /\ prev # s
       \/ s = "FAILED" /\ prev = "PREPARE"
NoAbort(s) == FALSE
Aborts(s) == s = "IDLE" /\ prev = "RUNNING"

IsCompletion(s) == ~triggered /\ (EndsPrint(s) \/ Aborts(s))

Fires(kind, j) == log' = Append(log, [kind |-> kind, job |-> j])

UpdateState(s, c) ==
    /\ state' = s /\ current' = c
    /\ prev' = s
    /\ prevJob' = IF c # NoJob THEN c ELSE prevJob
    /\ running' = (TracksRun(s, c) \/ (running /\ ~IsCompletion(s)))
    /\ triggered' = (~TracksRun(s, c) /\ (triggered \/ IsCompletion(s) \/ (s \in Ended /\ prev # s)))
    /\ \/ (IsNewPrint(s, c) \/ IsFileChange(s, c)) /\ Fires("start", c)
       \/ /\ TracksRun(s, c) /\ ~running /\ ~IsNewPrint(s, c) /\ ~IsFileChange(s, c)
          /\ Fires("observed", c)
       \/ IsCompletion(s) /\ Fires("complete", IF prevJob # NoJob THEN prevJob ELSE c)
       \/ /\ ~IsNewPrint(s, c) /\ ~IsFileChange(s, c) /\ ~IsCompletion(s)
          /\ TracksRun(s, c) => running
          /\ UNCHANGED log
    /\ begun' = IF IsNewPrint(s, c) \/ IsFileChange(s, c) THEN begun \cup {c} ELSE begun

\* A report proves that the printer is alive; the state the mark blanked is
\* restored before the report is read.
Restored == IF saved # "none" /\ state = "unknown" THEN saved ELSE state

FullReport ==
    /\ link
    /\ news' = FALSE
    /\ connected' = TRUE /\ saved' = "none"
    /\ UpdateState(real, shown)
    /\ UNCHANGED <<printerVars, link, intact>>

PartialReport ==
    /\ link
    /\ connected' = TRUE /\ saved' = "none"
    /\ UpdateState(Restored, current)
    /\ UNCHANGED <<printerVars, link, news, intact>>

-----------------------------------------------------------------------------
(* A restart of the backend: a new client, which knows nothing. *)

Restart ==
    /\ "restart" \in Env
    /\ link' = FALSE /\ connected' = FALSE
    /\ state' = "unknown" /\ current' = NoJob
    /\ prev' = "none" /\ prevJob' = NoJob
    /\ running' = FALSE /\ triggered' = FALSE
    /\ saved' = "none"
    /\ log' = <<>>
    /\ intact' = TRUE /\ news' = TRUE
    /\ UNCHANGED <<printerVars, begun>>

ClientStep ==
    \/ LinkDrops
    \/ OnDisconnect
    \/ OnConnect
    \/ MarkPowerOff
    \/ FullReport
    \/ PartialReport
    \/ Restart

Next == PrinterStep \/ ClientStep

Spec == Init /\ [][Next]_vars

-----------------------------------------------------------------------------
TypeOK ==
    /\ real \in PrinterState \cup {"OFF"}
    /\ job \in 0..MaxJobs /\ shown \in 0..job
    /\ file \in [Jobs -> Files]
    /\ link \in BOOLEAN /\ news \in BOOLEAN /\ connected \in BOOLEAN
    /\ state \in PrinterState \cup {"unknown"}
    /\ current \in 0..job
    /\ prev \in PrinterState \cup {"unknown", "none"}
    /\ prevJob \in 0..job
    /\ running \in BOOLEAN /\ triggered \in BOOLEAN
    /\ saved \in PrinterState \cup {"none"}
    /\ log \in Seq(Event)
    /\ intact \in BOOLEAN /\ begun \subseteq Jobs

\* The stream of callbacks keeps the contract of PrintEvents, whatever is
\* missed, presumed or repeated: accounting, archives and the queue count on
\* one start and one completion per print.
EventsInOrder == Contract!Spec

\* A run that the client follows does not outlive a report that it ended: a
\* latch left set would swallow the start of every later print of that file.
RunEndsWithPrint == state \in Ended => ~running

InLog(kinds, j) == \E k \in DOMAIN log : log[k].kind \in kinds /\ log[k].job = j

\* As long as the session holds, a print that runs has been reported, and one
\* that was reported is completed by the time the printer is known to be idle.
TrackedWhileConnected ==
    intact /\ link /\ ~news =>
        /\ real = "RUNNING" => InLog({"start", "observed"}, job)
        /\ real \in Ended \cup {"IDLE"} /\ InLog({"start", "observed"}, job)
               => InLog({"complete"}, job)
=============================================================================
