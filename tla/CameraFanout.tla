---------------------------- MODULE CameraFanout ----------------------------
(***************************************************************************)
(* The MJPEG fan-out of one printer's camera. A broadcaster owns one       *)
(* upstream connection, read by its pump, and copies every frame to the    *)
(* bounded queues of its subscribers. A broadcaster is stopped for good    *)
(* when its last viewer has been gone for the grace window, when the stop  *)
(* route finds it without viewers, or at shutdown; the next viewer gets a  *)
(* new broadcaster, whose pump waits until the stopped one has closed its  *)
(* connection.                                                             *)
(*                                                                         *)
(* Nothing is awaited while a lock of this code is held, so a section      *)
(* under a lock is one step, and so are a lookup and the subscription that *)
(* follows it. Broadcasters are numbered in the order of their creation.   *)
(***************************************************************************)
EXTENDS Integers, Sequences, FiniteSets

CONSTANTS
    MaxBroadcasters,    \* bound: broadcasters ever created
    Viewers,
    QueueSize           \* _SUBSCRIBER_QUEUE_SIZE

Broadcasters == 1..MaxBroadcasters
None == 0

ASSUME CameraAssumption ==
    /\ MaxBroadcasters \in Nat
    /\ QueueSize \in Nat \ {0}

VARIABLES
    made,         \* broadcasters created so far
    registry,     \* _broadcasters[key], or None
    predecessor,  \* the stopped broadcaster that this one replaces, or None
    subscribers,  \* _subscribers: the viewers whose queues get frames
    pump,         \* what the pump task does
    grace,        \* a task waits for the grace window to end
    stopped,      \* _stopped
    torndown,     \* _teardown_complete
    primed,       \* _last_chunk is set
    \* the viewers
    watching,     \* the broadcaster whose queue this viewer reads, or None
    queue,        \* that queue
    down,         \* the application has shut down
    \* history
    timedOut,     \* broadcasters whose wait for the predecessor timed out
    abandoned     \* broadcasters stopped while they waited for it

broadcasterVars == <<made, registry, predecessor, subscribers, pump, grace, stopped, torndown, primed>>
vars == <<broadcasterVars, watching, queue, down, timedOut, abandoned>>

\* A pump waits for the predecessor, has a connection, closes it, is done.
\* It holds its connection while it closes it.
PumpState == {"none", "waiting", "open", "closing", "done"}
Connected(b) == pump[b] \in {"open", "closing"}

Init ==
    /\ made = 0 /\ registry = None
    /\ predecessor = [b \in Broadcasters |-> None]
    /\ subscribers = [b \in Broadcasters |-> {}]
    /\ pump = [b \in Broadcasters |-> "none"]
    /\ grace = [b \in Broadcasters |-> FALSE]
    /\ stopped = [b \in Broadcasters |-> FALSE]
    /\ torndown = [b \in Broadcasters |-> FALSE]
    /\ primed = [b \in Broadcasters |-> FALSE]
    /\ watching = [v \in Viewers |-> None]
    /\ queue = [v \in Viewers |-> <<>>]
    /\ down = FALSE
    /\ timedOut = {} /\ abandoned = {}

\* Mutation: the queues are unbounded.
PutAnyway(q, item) == Append(q, item)

\* put_nowait: an item that finds the queue full is dropped.
Put(q, item) == IF Len(q) < QueueSize THEN Append(q, item) ELSE q
PutAll(vs, item) == [v \in Viewers |-> IF v \in vs THEN Put(queue[v], item) ELSE queue[v]]

-----------------------------------------------------------------------------
(* Viewers *)

Live(b) == b # None /\ ~stopped[b]

\* The pump of a new broadcaster; one that has nothing to wait for dials.
FirstPump(b) == IF b = None THEN "open" ELSE "waiting"

\* Mutation: a stopped broadcaster is taken out of the registry (#2521).
RegisteredLive == IF Live(registry) THEN registry ELSE None

Registered == registry

\* The stream route finds no live broadcaster and registers a new one.
CreateBroadcaster(v) ==
    LET b == made + 1 IN
    /\ ~down /\ watching[v] = None
    /\ ~Live(registry) /\ b \in Broadcasters
    /\ made' = b /\ registry' = b
    /\ predecessor' = [predecessor EXCEPT ![b] = Registered]
    /\ pump' = [pump EXCEPT ![b] = FirstPump(Registered)]
    /\ subscribers' = [subscribers EXCEPT ![b] = {v}]
    /\ watching' = [watching EXCEPT ![v] = b]
    /\ queue' = [queue EXCEPT ![v] = <<>>]
    /\ UNCHANGED <<grace, stopped, torndown, primed, down, timedOut, abandoned>>

\* The route finds a live broadcaster. A pump that ended by itself is started
\* again; its predecessor was waited for by the first one.
Subscribe(v) ==
    LET b == registry IN
    /\ ~down /\ watching[v] = None
    /\ Live(b)
    /\ grace' = [grace EXCEPT ![b] = FALSE]
    /\ subscribers' = [subscribers EXCEPT ![b] = @ \cup {v}]
    /\ pump' = [pump EXCEPT ![b] = IF @ = "done" THEN "open" ELSE @]
    /\ watching' = [watching EXCEPT ![v] = b]
    /\ queue' = [queue EXCEPT ![v] = IF primed[b] THEN <<"frame">> ELSE <<>>]
    /\ UNCHANGED <<made, registry, predecessor, stopped, torndown, primed, down, timedOut, abandoned>>

\* Mutation: the window starts when one viewer is left.
GraceStartsEarly(b, left) == Cardinality(left) = 1 /\ ~stopped[b]

\* The last viewer to leave starts the grace window.
GraceStarts(b, left) == left = {} /\ ~stopped[b]

Unsubscribe(v) ==
    LET b == watching[v]
        left == subscribers[b] \ {v} IN
    /\ subscribers' = [subscribers EXCEPT ![b] = left]
    /\ grace' = [grace EXCEPT ![b] = @ \/ (v \in subscribers[b] /\ GraceStarts(b, left))]
    /\ watching' = [watching EXCEPT ![v] = None]
    /\ queue' = [queue EXCEPT ![v] = <<>>]
    /\ UNCHANGED <<made, registry, predecessor, pump, stopped, torndown, primed, down, timedOut, abandoned>>

\* iter_subscriber takes an item: a frame is sent to the client.
Read(v) ==
    /\ watching[v] # None /\ queue[v] # <<>>
    /\ Head(queue[v]) = "frame"
    /\ queue' = [queue EXCEPT ![v] = Tail(@)]
    /\ UNCHANGED <<broadcasterVars, watching, down, timedOut, abandoned>>

\* The sentinel ends the response.
ReadGone(v) ==
    /\ watching[v] # None /\ queue[v] # <<>>
    /\ Head(queue[v]) = "gone"
    /\ Unsubscribe(v)

\* The client goes away at any time.
Disconnect(v) ==
    /\ watching[v] # None
    /\ Unsubscribe(v)

-----------------------------------------------------------------------------
(* The pump *)

Dial(b) ==
    /\ pump' = [pump EXCEPT ![b] = "open"]
    /\ UNCHANGED <<made, registry, predecessor, subscribers, grace, stopped, torndown, primed,
                   watching, queue, down, abandoned>>

ReleasedBy(p) == torndown[p]

PumpDials(b) ==
    /\ pump[b] = "waiting" /\ ReleasedBy(predecessor[b])
    /\ Dial(b)
    /\ UNCHANGED timedOut

\* Mutation: the wait has no time-out.
WaitsOn(b) == FALSE

\* A wait that times out gives up the promise of a single connection.
WaitTimesOut(b) ==
    /\ pump[b] = "waiting" /\ ~ReleasedBy(predecessor[b])
    /\ Dial(b)
    /\ timedOut' = timedOut \cup {b}

PumpFrame(b) ==
    /\ pump[b] = "open"
    /\ primed' = [primed EXCEPT ![b] = TRUE]
    /\ queue' = PutAll(subscribers[b], "frame")
    /\ UNCHANGED <<made, registry, predecessor, subscribers, pump, grace, stopped, torndown,
                   watching, down, timedOut, abandoned>>

\* The printer ends the stream: the generator closes its connection.
UpstreamEnds(b) ==
    /\ pump[b] = "open"
    /\ pump' = [pump EXCEPT ![b] = "closing"]
    /\ UNCHANGED <<made, registry, predecessor, subscribers, grace, stopped, torndown, primed,
                   watching, queue, down, timedOut, abandoned>>

\* The connection is closed and the pump wakes the remaining subscribers.
PumpEnds(b) ==
    /\ pump[b] = "closing"
    /\ pump' = [pump EXCEPT ![b] = "done"]
    /\ queue' = PutAll(subscribers[b], "gone")
    /\ UNCHANGED <<made, registry, predecessor, subscribers, grace, stopped, torndown, primed,
                   watching, down, timedOut, abandoned>>

-----------------------------------------------------------------------------
(* Teardown *)

\* A cancelled pump closes its connection; one that has none ends at once.
Cancelled(p) == IF p = "waiting" THEN "done" ELSE IF p = "open" THEN "closing" ELSE p

MarkStopped(b) ==
    /\ stopped' = [stopped EXCEPT ![b] = TRUE]
    /\ grace' = [grace EXCEPT ![b] = FALSE]
    /\ pump' = [pump EXCEPT ![b] = Cancelled(@)]
    /\ abandoned' = IF pump[b] = "waiting" /\ ~torndown[predecessor[b]]
                    THEN abandoned \cup {b} ELSE abandoned

\* Mutation: the viewers are not asked for.
UnwatchedAnyway(b) == TRUE
Unwatched(b) == subscribers[b] = {}

\* A viewer that rejoined cancels the timer, so the re-check finds none.
GraceThenStop(b) ==
    /\ grace[b] /\ Unwatched(b) /\ ~stopped[b]
    /\ MarkStopped(b)
    /\ UNCHANGED <<made, registry, predecessor, subscribers, torndown, primed,
                   watching, queue, down, timedOut>>

\* The stop route leaves a broadcaster with viewers alone. The stopped one
\* stays in the registry for its successor to find.
StopCameraStream ==
    LET b == registry IN
    /\ ~down /\ Live(b) /\ Unwatched(b)
    /\ MarkStopped(b)
    /\ UNCHANGED <<made, registry, predecessor, subscribers, torndown, primed,
                   watching, queue, down, timedOut>>

\* Mutation: the successor is released when the pump is cancelled.
PumpIsCancelled(b) == stopped[b]

PumpIsOver(b) == pump[b] = "done"

\* Whoever stopped the broadcaster has awaited its pump.
TeardownCompletes(b) ==
    /\ stopped[b] /\ ~torndown[b] /\ PumpIsOver(b)
    /\ torndown' = [torndown EXCEPT ![b] = TRUE]
    /\ UNCHANGED <<made, registry, predecessor, subscribers, pump, grace, stopped, primed,
                   watching, queue, down, timedOut, abandoned>>

\* Shutdown stops what is registered and kicks its viewers. A broadcaster that
\* is already stopping is released at once.
ShutdownAll ==
    LET b == registry IN
    /\ ~down /\ down' = TRUE
    /\ registry' = None
    /\ \/ /\ b = None
          /\ UNCHANGED <<subscribers, pump, grace, stopped, torndown, queue, abandoned>>
       \/ /\ Live(b)
          /\ queue' = PutAll(subscribers[b], "gone")
          /\ subscribers' = [subscribers EXCEPT ![b] = {}]
          /\ MarkStopped(b)
          /\ UNCHANGED torndown
       \/ /\ b # None /\ stopped[b]
          /\ torndown' = [torndown EXCEPT ![b] = TRUE]
          /\ UNCHANGED <<subscribers, pump, grace, stopped, queue, abandoned>>
    /\ UNCHANGED <<made, predecessor, primed, watching, timedOut>>

-----------------------------------------------------------------------------
Next ==
    \/ \E v \in Viewers : CreateBroadcaster(v) \/ Subscribe(v) \/ Read(v) \/ ReadGone(v) \/ Disconnect(v)
    \/ \E b \in 1..made :
          \/ PumpDials(b) \/ WaitTimesOut(b) \/ PumpFrame(b) \/ UpstreamEnds(b) \/ PumpEnds(b)
          \/ GraceThenStop(b) \/ TeardownCompletes(b)
    \/ StopCameraStream \/ ShutdownAll

Spec == Init /\ [][Next]_vars

\* The timers and the tasks of the event loop run. Closing a connection may
\* take for ever; viewers and the printer owe nothing.
Fairness ==
    /\ \A b \in Broadcasters :
          /\ WF_vars(PumpDials(b) \/ WaitTimesOut(b))
          /\ WF_vars(GraceThenStop(b)) /\ WF_vars(TeardownCompletes(b))
    /\ \A v \in Viewers : WF_vars(Read(v)) /\ WF_vars(ReadGone(v))

FairSpec == Spec /\ Fairness

-----------------------------------------------------------------------------
TypeOK ==
    /\ made \in 0..MaxBroadcasters /\ registry \in 0..made
    /\ predecessor \in [Broadcasters -> 0..MaxBroadcasters]
    /\ subscribers \in [Broadcasters -> SUBSET Viewers]
    /\ pump \in [Broadcasters -> PumpState]
    /\ grace \in [Broadcasters -> BOOLEAN]
    /\ stopped \in [Broadcasters -> BOOLEAN]
    /\ torndown \in [Broadcasters -> BOOLEAN]
    /\ primed \in [Broadcasters -> BOOLEAN]
    /\ watching \in [Viewers -> 0..made]
    /\ queue \in [Viewers -> Seq({"frame", "gone"})]
    /\ \A v \in Viewers : Len(queue[v]) <= QueueSize
    /\ down \in BOOLEAN
    /\ timedOut \subseteq Broadcasters /\ abandoned \subseteq Broadcasters

\* Two connections exist only if some broadcaster between them dialled without
\* its predecessor being done, or was stopped while it still waited (#2521):
\* the wait is the only thing that keeps the printer's single connection.
OverlapIsExcused ==
    \A b, c \in Broadcasters :
        b < c /\ Connected(b) /\ Connected(c) =>
            \E d \in timedOut \cup abandoned : b < d /\ d <= c

\* A live broadcaster runs down its grace window exactly while nobody watches
\* it: one that nobody watches is never forgotten, and no window that a viewer
\* has interrupted runs on.
WindowIsUnwatched ==
    \A b \in 1..made : ~stopped[b] => (grace[b] <=> subscribers[b] = {})

\* Whoever watches a broadcaster that is stopped was told by the shutdown: no
\* grace window, stop route or hand-over cuts off a viewer that came meanwhile.
StoppedUnwatched ==
    \A v \in Viewers : watching[v] # None /\ stopped[watching[v]] => down

\* The fan-out implements the contract of the printer's one connection.
Upstream == INSTANCE CameraUpstream WITH
    Connections <- Broadcasters,
    held <- {b \in Broadcasters : Connected(b)},
    givenUp <- timedOut \cup abandoned # {}
SingleUpstream == Upstream!Spec

\* No connection is kept with nobody to watch it, in whatever order viewers
\* leave, come back during the grace window, or find the pump ended.
UnwatchedCloses ==
    \A b \in Broadcasters :
        pump[b] = "open" /\ subscribers[b] = {} ~> pump[b] # "open" \/ subscribers[b] # {}

\* Waiting for the predecessor ends, even if it never closes its connection.
WaitingDials ==
    \A b \in Broadcasters : pump[b] = "waiting" ~> pump[b] # "waiting"
=============================================================================
