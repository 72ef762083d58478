--------------------------- MODULE ProgressToasts ---------------------------
(***************************************************************************)
(* The progress toasts of one browser tab: the dispatch toast, which the   *)
(* scheduler's events fill over the web socket, and the slice toasts,      *)
(* which the tab polls for. Both live in one list of toasts, and the       *)
(* dispatch toast's dismiss timer runs over again when that list changes.  *)
(*                                                                         *)
(* The callbacks of the tab run one at a time, so each is a step. A state  *)
(* that React has been asked to set is visible to the callbacks only after *)
(* the next rendering. The server sends to a socket under a lock and the   *)
(* tab handles its messages in order: the wire is a queue. Upload progress *)
(* changes no job's state and is left out.                                 *)
(***************************************************************************)
EXTENDS Integers, Sequences, FiniteSets

CONSTANTS
    Jobs,           \* queue rows
    Slices,         \* slice jobs of this tab
    MaxDispatches,  \* bound: dispatches of one row
    MaxWire,        \* bound: messages on the wire
    MaxPolls,       \* bound: requests for one slice job under way
    MaxFaults,      \* bound: lost connections and restarts of the server
    UserDismisses   \* the user may close the dispatch toast

ASSUME ToastAssumption ==
    MaxDispatches \in Nat /\ MaxWire \in Nat /\ MaxPolls \in Nat /\ MaxFaults \in Nat

VARIABLES
    \* the server
    dispatch,    \* what the scheduler does with a row
    dispatches,  \* dispatches begun
    slice,       \* the state of a slice job, "gone" when it is forgotten
    online,      \* the socket is registered with the connection manager
    wire,        \* messages the tab has yet to handle
    faults,      \* lost connections and restarts so far
    \* the dispatch toast
    card,        \* what it shows of a row
    armed,       \* its dismiss timer runs
    \* the slice toasts
    tracked,     \* activeJobs
    listed,      \* activeJobsRef: activeJobs as last rendered
    started,     \* keys of startedAtRef
    spinner,     \* slice jobs with a persistent toast
    polls,       \* requests under way
    \* history
    silent,      \* rows whose last dispatch ended unheard
    finished     \* slice jobs completeJob ran for

serverVars == <<dispatch, dispatches, slice, online, wire, faults, silent>>
sliceVars == <<tracked, listed, started, spinner, polls, finished>>
vars == <<serverVars, card, armed, sliceVars>>

Init ==
    /\ dispatch = [j \in Jobs |-> "idle"] /\ dispatches = [j \in Jobs |-> 0]
    /\ slice = [s \in Slices |-> "none"]
    /\ online = TRUE /\ wire = <<>> /\ faults = 0
    /\ card = [j \in Jobs |-> "absent"] /\ armed = FALSE
    /\ tracked = {} /\ listed = {} /\ started = {} /\ spinner = {} /\ finished = {}
    /\ polls = [s \in Slices |-> 0]
    /\ silent = {}

Terminal == {"completed", "failed"}
Processing == \E j \in Jobs : card[j] = "processing"

-----------------------------------------------------------------------------
(* The scheduler *)

\* A message reaches the wire when a socket is registered, else nobody.
Send(type, j) ==
    /\ Len(wire) < MaxWire
    /\ wire' = IF online THEN Append(wire, [type |-> type, job |-> j]) ELSE wire

\* The last word on a dispatch.
Report(type, j) ==
    /\ Send(type, j)
    /\ silent' = IF online THEN silent ELSE silent \cup {j}

Dispatched(j, from, to) ==
    /\ dispatch[j] = from
    /\ dispatch' = [dispatch EXCEPT ![j] = to]
    /\ UNCHANGED <<dispatches, slice, online, faults, card, armed, sliceVars>>

StartUpload(j) ==
    /\ dispatch[j] = "idle" /\ dispatches[j] < MaxDispatches
    /\ dispatch' = [dispatch EXCEPT ![j] = "uploading"]
    /\ dispatches' = [dispatches EXCEPT ![j] = @ + 1]
    /\ Send("uploading", j)
    /\ silent' = silent \ {j}
    /\ UNCHANGED <<slice, online, faults, card, armed, sliceVars>>

\* The nozzle does not match: the row fails before it is uploaded.
RefuseDispatch(j) ==
    /\ dispatch[j] = "idle" /\ dispatches[j] < MaxDispatches
    /\ dispatches' = [dispatches EXCEPT ![j] = @ + 1]
    /\ Report("failed", j)
    /\ UNCHANGED <<dispatch, slice, online, faults, card, armed, sliceVars>>

\* The upload fails, the row is cancelled meanwhile, or the command fails.
DispatchFails(j) == Dispatched(j, "uploading", "idle") /\ Report("failed", j)

\* The printer became busy before the command was sent.
DispatchDeferred(j) ==
    /\ Dispatched(j, "uploading", "idle")
    /\ silent' = silent \cup {j} /\ UNCHANGED wire

StartPrint(j) == Dispatched(j, "uploading", "awaiting") /\ UNCHANGED <<wire, silent>>

PrintAcked(j) == Dispatched(j, "awaiting", "idle") /\ Report("acked", j)

\* The watchdog has spent the budget of dispatches.
WatchdogGivesUp(j) == Dispatched(j, "awaiting", "idle") /\ Report("failed", j)

\* It puts the row back, or finds the printer gone or the row moved on.
WatchdogIsSilent(j) ==
    /\ Dispatched(j, "awaiting", "idle")
    /\ silent' = silent \cup {j} /\ UNCHANGED wire

-----------------------------------------------------------------------------
(* The socket and the server's memory *)

Words == {wire[i].job : i \in {n \in 1..Len(wire) : wire[n].type # "uploading"}}

\* What was on the wire is lost.
ConnectionLost ==
    /\ online /\ faults < MaxFaults
    /\ online' = FALSE /\ wire' = <<>> /\ faults' = faults + 1
    /\ silent' = silent \cup Words
    /\ UNCHANGED <<dispatch, dispatches, slice, card, armed, sliceVars>>

\* Nothing that was missed is sent again.
Reconnect ==
    /\ ~online /\ online' = TRUE
    /\ UNCHANGED <<dispatch, dispatches, slice, wire, faults, silent, card, armed, sliceVars>>

\* The dispatches under way and the slice jobs are in memory only.
ServerRestarts ==
    /\ faults < MaxFaults
    /\ faults' = faults + 1
    /\ dispatch' = [j \in Jobs |-> "idle"]
    /\ slice' = [s \in Slices |-> IF slice[s] = "none" THEN "none" ELSE "gone"]
    /\ online' = FALSE /\ wire' = <<>>
    /\ silent' = silent \cup Words \cup {j \in Jobs : dispatch[j] # "idle"}
    /\ UNCHANGED <<dispatches, card, armed, sliceVars>>

SliceSteps(s, from, to) ==
    /\ slice[s] \in from
    /\ \E state \in to : slice' = [slice EXCEPT ![s] = state]
    /\ UNCHANGED <<dispatch, dispatches, online, wire, faults, silent, card, armed, sliceVars>>

Enqueue(s) == SliceSteps(s, {"none"}, {"running"})
RunJob(s) == SliceSteps(s, {"running"}, Terminal)
\* A finished job is forgotten after 30 minutes.
Sweep(s) == SliceSteps(s, Terminal, {"gone"})

-----------------------------------------------------------------------------
(* The dispatch toast *)

\* Mutation: the event's name becomes the job's state.
ShownAsSent(old, type) == IF type = "uploading" THEN "processing" ELSE IF old = "absent" THEN old ELSE type

\* Mutation: a failure leaves the job as it is.
ShownIfAcked(old, type) ==
    CASE type = "uploading" -> "processing"
      [] type = "acked" /\ old # "absent" -> "completed"
      [] OTHER -> old

\* The next state of a job's card; only an upload puts a job on the toast.
Shown(old, type) ==
    CASE type = "uploading" -> "processing"
      [] type = "acked" /\ old # "absent" -> "completed"
      [] type = "failed" /\ old # "absent" -> "failed"
      [] OTHER -> old

\* Mutation: the toast goes when every job has succeeded.
ArmsOnSuccess(cards) ==
    /\ \E j \in Jobs : cards[j] # "absent"
    /\ \A j \in Jobs : cards[j] \in {"absent", "completed"}

\* The effect of a change of the toasts arms the timer when every job on the
\* dispatch toast is terminal. A timer that runs is never stopped here.
Arms(cards) ==
    /\ \E j \in Jobs : cards[j] # "absent"
    /\ \A j \in Jobs : cards[j] \in Terminal \cup {"absent"}

OnDispatchEvent ==
    /\ wire # <<>>
    /\ LET m == Head(wire) IN card' = [card EXCEPT ![m.job] = Shown(@, m.type)]
    /\ wire' = Tail(wire)
    /\ armed' = (armed \/ Arms(card'))
    /\ UNCHANGED <<dispatch, dispatches, slice, online, faults, silent, sliceVars>>

DismissToast ==
    /\ UserDismisses
    /\ \E j \in Jobs : card[j] # "absent"
    /\ card' = [j \in Jobs |-> "absent"] /\ armed' = FALSE
    /\ UNCHANGED <<serverVars, sliceVars>>

\* A slice toast changes every second, which arms the timer of a toast that
\* is over anew: its 3.5 seconds end only when no slice toast is ticking.
Ticking == listed \cap started # {}

DismissTimer ==
    /\ armed /\ ~(Arms(card) /\ Ticking)
    /\ card' = [j \in Jobs |-> "absent"] /\ armed' = FALSE
    /\ UNCHANGED <<serverVars, sliceVars>>

-----------------------------------------------------------------------------
(* The slice toasts *)

\* The slice dialog has enqueued a job.
TrackJob(s) ==
    /\ slice[s] # "none" /\ s \notin tracked \cup finished
    /\ tracked' = tracked \cup {s} /\ started' = started \cup {s}
    /\ spinner' = spinner \cup {s}
    /\ UNCHANGED <<serverVars, card, armed, listed, polls, finished>>

Render ==
    /\ listed # tracked /\ listed' = tracked
    /\ UNCHANGED <<serverVars, card, armed, tracked, started, spinner, polls, finished>>

\* Mutation: the tick renders every listed job.
RenderedAnyway == listed

\* renderProgressToast returns early for a job without a start time.
Rendered == listed \cap started

Tick ==
    /\ ~(Rendered \subseteq spinner)
    /\ spinner' = spinner \cup Rendered
    /\ UNCHANGED <<serverVars, card, armed, tracked, listed, started, polls, finished>>

DismissSpinner(s) ==
    /\ s \in spinner /\ spinner' = spinner \ {s}
    /\ UNCHANGED <<serverVars, card, armed, tracked, listed, started, polls, finished>>

\* The interval fires, whether or not the last round has been answered.
Poll ==
    /\ listed # {} /\ \A s \in listed : polls[s] < MaxPolls
    /\ polls' = [s \in Slices |-> IF s \in listed THEN polls[s] + 1 ELSE polls[s]]
    /\ UNCHANGED <<serverVars, card, armed, tracked, listed, started, spinner, finished>>

\* The request fails, or its answer was given while the slice ran.
PollTellsNothing(s) ==
    /\ polls[s] > 0 /\ polls' = [polls EXCEPT ![s] = @ - 1]
    /\ UNCHANGED <<serverVars, card, armed, tracked, listed, started, spinner, finished>>

\* Mutation: the toast of a slice that failed stays.
DismissedOnSuccess(s) == IF slice[s] = "failed" THEN {} ELSE {s}

DismissedOnCompletion(s) == {s}

\* An answer that says the slice is over: completeJob.
CompleteJob(s) ==
    /\ polls[s] > 0 /\ slice[s] \in Terminal
    /\ polls' = [polls EXCEPT ![s] = @ - 1]
    /\ tracked' = tracked \ {s} /\ started' = started \ {s}
    /\ spinner' = spinner \ DismissedOnCompletion(s)
    /\ finished' = finished \cup {s}
    /\ UNCHANGED <<serverVars, card, armed, listed>>

-----------------------------------------------------------------------------

SchedulerNext ==
    \E j \in Jobs :
        \/ StartUpload(j) \/ RefuseDispatch(j) \/ DispatchFails(j) \/ DispatchDeferred(j)
        \/ StartPrint(j) \/ PrintAcked(j) \/ WatchdogGivesUp(j) \/ WatchdogIsSilent(j)

SliceNext ==
    \E s \in Slices :
        \/ Enqueue(s) \/ RunJob(s) \/ Sweep(s)
        \/ TrackJob(s) \/ DismissSpinner(s) \/ PollTellsNothing(s) \/ CompleteJob(s)

Next ==
    \/ SchedulerNext \/ SliceNext
    \/ ConnectionLost \/ Reconnect \/ ServerRestarts
    \/ OnDispatchEvent \/ DismissToast \/ DismissTimer
    \/ Render \/ Tick \/ Poll

Spec == Init /\ [][Next]_vars

\* The browser runs its timers, delivers messages and renders; the interval
\* polls again after a failure, so a request is answered in the end.
Fairness ==
    /\ WF_vars(OnDispatchEvent) /\ WF_vars(DismissTimer)
    /\ WF_vars(Render) /\ WF_vars(Poll)
    /\ \A s \in Slices : SF_vars(CompleteJob(s))

FairSpec == Spec /\ Fairness

-----------------------------------------------------------------------------
(* Properties *)

\* Every variable stays in its domain.
TypeOK ==
    /\ dispatch \in [Jobs -> {"idle", "uploading", "awaiting"}]
    /\ dispatches \in [Jobs -> 0..MaxDispatches]
    /\ slice \in [Slices -> {"none", "running", "gone"} \cup Terminal]
    /\ online \in BOOLEAN /\ faults \in 0..MaxFaults
    /\ wire \in Seq([type : {"uploading", "acked", "failed"}, job : Jobs]) /\ Len(wire) <= MaxWire
    /\ card \in [Jobs -> {"absent", "processing"} \cup Terminal] /\ armed \in BOOLEAN
    /\ tracked \subseteq Slices /\ listed \subseteq Slices /\ started \subseteq Slices
    /\ spinner \subseteq Slices /\ finished \subseteq Slices
    /\ polls \in [Slices -> 0..MaxPolls]
    /\ silent \subseteq Jobs

\* A job shown as processing is being dispatched, or the word on its end is
\* on its way; otherwise its end was never told to this tab.
ToastTells ==
    \A j \in Jobs : card[j] = "processing" =>
        dispatch[j] # "idle" \/ j \in Words \/ j \in silent

\* A slice that completeJob has run for has no progress toast: no tick and
\* no overlapping request brings it back.
SpinnerTells == finished \cap spinner = {}

\* A dispatch toast on which every job is over goes away, unless a slice
\* that the server no longer knows keeps its toast ticking.
Settled == ~Processing /\ \E j \in Jobs : card[j] # "absent"
ToastGoes == Settled ~> (~Settled \/ \E s \in listed : slice[s] \in {"gone", "running"})

\* The progress toast of a slice that is over goes away, unless the server
\* forgets the slice before the tab has asked.
SpinnerEnds ==
    \A s \in Slices : (slice[s] \in Terminal /\ s \in spinner) ~> (s \notin spinner \/ slice[s] = "gone")

\* ToastContext.tsx:297: "Auto-dismiss the wrapper once every job has reached
\* a terminal state." The timer never takes away a job that is processing.
DismissedWhenOver == [][Processing => ~DismissTimer]_vars
=============================================================================
