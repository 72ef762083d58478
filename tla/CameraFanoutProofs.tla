------------------------ MODULE CameraFanoutProofs --------------------------
(***************************************************************************)
(* For any number of broadcasters and viewers: two connections to one      *)
(* printer exist only where a wait was given up; what waits for a viewer   *)
(* fits its queue; a live broadcaster runs down its grace window exactly   *)
(* while nobody watches it, and nobody is left watching a stopped one; and *)
(* the fan-out implements the contract of CameraUpstream.                  *)
(***************************************************************************)
EXTENDS CameraFanout, SequenceTheorems, TLAPS

-----------------------------------------------------------------------------
(* The inductive invariant *)

Types ==
    /\ made \in 0..MaxBroadcasters
    /\ registry \in 0..MaxBroadcasters
    /\ predecessor \in [Broadcasters -> 0..MaxBroadcasters]
    /\ pump \in [Broadcasters -> PumpState]
    /\ stopped \in [Broadcasters -> BOOLEAN]
    /\ torndown \in [Broadcasters -> BOOLEAN]
    /\ down \in BOOLEAN
    /\ timedOut \subseteq Broadcasters
    /\ abandoned \subseteq Broadcasters

\* The registry has the newest broadcaster until the shutdown empties it.
RegistryInv == registry = IF down THEN None ELSE made

\* Broadcasters replace each other one by one, and only when stopped.
ChainInv ==
    \A b \in Broadcasters :
        /\ b > made => pump[b] = "none" /\ ~stopped[b] /\ ~torndown[b]
        /\ b <= made => pump[b] # "none" /\ predecessor[b] = b - 1
        /\ b < made => stopped[b]

\* A stopped broadcaster opens no connection; released is only the one that
\* has none, and at shutdown the newest, which nothing will follow.
StoppedInv ==
    \A b \in Broadcasters :
        /\ pump[b] = "waiting" => b # 1
        /\ stopped[b] => pump[b] \in {"closing", "done"}
        /\ torndown[b] => stopped[b] /\ (pump[b] = "done" \/ (down /\ b = made))

GivenUp == timedOut \cup abandoned

\* No broadcaster from after b to c gave up its wait.
Unbroken(b, c) == \A d \in Broadcasters : b < d /\ d <= c => d \notin GivenUp

\* A broadcaster that no longer waits has outlived all those before it. The
\* invariant speaks of all of them, not only of the predecessor, so that no
\* induction along the chain is needed.
OutlivedInv ==
    \A b, c \in Broadcasters :
        b < c /\ c <= made /\ pump[c] # "waiting" /\ Unbroken(b, c) => pump[b] = "done"

Inv == Types /\ RegistryInv /\ ChainInv /\ StoppedInv /\ OutlivedInv

-----------------------------------------------------------------------------
(* What the invariant says of connections *)

\* The overlap property is what OutlivedInv says of two open connections.
LEMMA OutlivedExcuses == Inv => OverlapIsExcused
<1> SUFFICES ASSUME Inv, NEW b \in Broadcasters, NEW c \in Broadcasters,
                    b < c, Connected(b), Connected(c),
                    \A d \in timedOut \cup abandoned : ~(b < d /\ d <= c)
             PROVE  FALSE
  BY DEF OverlapIsExcused
<1>1. c <= made
  BY DEF Inv, Types, ChainInv, Connected, Broadcasters
<1>2. Unbroken(b, c)
  BY DEF Unbroken, GivenUp
<1>3. pump[c] # "waiting" /\ pump[b] # "done"
  BY DEF Connected
<1> QED
  BY <1>1, <1>2, <1>3 DEF Inv, OutlivedInv

\* A broadcaster whose connection is closed has none.
LEMMA DoneIsClosed ==
    ASSUME NEW b \in Broadcasters, pump[b] \in {"none", "waiting", "done"}
    PROVE  ~Connected(b)
BY DEF Connected

-----------------------------------------------------------------------------
(* The invariant is inductive *)

\* There is no broadcaster in the initial state.
LEMMA InitInv == Init => Inv
<1> SUFFICES ASSUME Init PROVE Inv
  OBVIOUS
<1>1. Types
  <2>1. /\ 0 \in 0..MaxBroadcasters
        /\ made = 0 /\ registry = 0 /\ timedOut = {} /\ abandoned = {}
    BY CameraAssumption DEF CameraAssumption, Init, None
  <2>2. predecessor \in [Broadcasters -> 0..MaxBroadcasters] /\ pump \in [Broadcasters -> PumpState]
    BY <2>1 DEF Init, None, PumpState
  <2>3. stopped \in [Broadcasters -> BOOLEAN] /\ torndown \in [Broadcasters -> BOOLEAN] 
    BY DEF Init
  <2>4. down \in BOOLEAN
    BY DEF Init
  <2> QED
    BY <2>1, <2>2, <2>3, <2>4 DEF Types
<1>3. RegistryInv
  BY DEF Init, RegistryInv, None
<1>2. ChainInv /\ StoppedInv /\ OutlivedInv
  BY CameraAssumption DEF CameraAssumption, Init, ChainInv, StoppedInv, OutlivedInv, Broadcasters
<1> QED
  BY <1>1, <1>2, <1>3 DEF Inv

\* Nothing that the invariant speaks of changes.
LEMMA StutterInv ==
    ASSUME Inv, UNCHANGED <<made, registry, predecessor, pump, stopped, torndown, down, timedOut, abandoned>>
    PROVE  Inv'
BY DEF Inv, Types, RegistryInv, ChainInv, StoppedInv, OutlivedInv, Unbroken, GivenUp

\* A new broadcaster waits for the registered one.
LEMMA CreateInv ==
    ASSUME Inv, NEW v \in Viewers, CreateBroadcaster(v)
    PROVE  Inv'
<1> DEFINE n == made + 1
<1>1. /\ n \in Broadcasters /\ made' = n /\ registry' = n /\ ~down
      /\ registry = made
      /\ pump' = [pump EXCEPT ![n] = IF made = 0 THEN "open" ELSE "waiting"]
      /\ predecessor' = [predecessor EXCEPT ![n] = made]
      /\ UNCHANGED <<stopped, torndown, down, timedOut, abandoned>>
  BY DEF CreateBroadcaster, Inv, RegistryInv, FirstPump, Registered, None
<1>2. made # 0 => stopped[made]
  BY <1>1 DEF CreateBroadcaster, Live, None, Inv, RegistryInv
<1>3. Types'
  BY <1>1, CameraAssumption DEF CameraAssumption, Inv, Types, Broadcasters, PumpState
<1>4. RegistryInv'
  BY <1>1 DEF RegistryInv
<1>5. ChainInv'
  BY <1>1, <1>2, CameraAssumption DEF CameraAssumption, Inv, Types, ChainInv, Broadcasters, PumpState
<1>6. StoppedInv'
  BY <1>1, CameraAssumption DEF CameraAssumption, Inv, Types, ChainInv, StoppedInv, Broadcasters, PumpState
<1>7. OutlivedInv'
  <2> SUFFICES ASSUME NEW b \in Broadcasters, NEW c \in Broadcasters,
                      b < c, c <= n, pump'[c] # "waiting", Unbroken(b, c)
               PROVE  pump'[b] = "done"
    BY <1>1 DEF OutlivedInv, Unbroken, GivenUp
  <2>1. c # n
    BY <1>1 DEF Inv, Types, Broadcasters
  <2>2. c <= made /\ pump[c] # "waiting" /\ pump'[b] = pump[b]
    BY <1>1, <2>1 DEF Inv, Types, Broadcasters
  <2> QED
    BY <2>2 DEF Inv, OutlivedInv
<1> QED
  BY <1>3, <1>4, <1>5, <1>6, <1>7 DEF Inv

\* A new viewer restarts the pump of a live broadcaster, which is the newest.
LEMMA SubscribeInv ==
    ASSUME Inv, NEW v \in Viewers, Subscribe(v)
    PROVE  Inv'
<1> DEFINE n == registry
<1>1. /\ n = made /\ n \in Broadcasters /\ ~stopped[n]
      /\ pump' = [pump EXCEPT ![n] = IF @ = "done" THEN "open" ELSE @]
      /\ UNCHANGED <<made, registry, predecessor, stopped, torndown, down, timedOut, abandoned>>
  BY CameraAssumption DEF CameraAssumption, Subscribe, Live, None, Inv, Types, RegistryInv, Broadcasters
<1>2. \A b \in Broadcasters : b # n => pump'[b] = pump[b]
  BY <1>1 DEF Inv, Types
<1>3. pump'[n] = IF pump[n] = "done" THEN "open" ELSE pump[n]
  BY <1>1 DEF Inv, Types
<1>4. Types' /\ RegistryInv'
  BY <1>1 DEF Inv, Types, RegistryInv, PumpState
<1>5. ChainInv' /\ StoppedInv'
  BY <1>1, <1>2, <1>3 DEF Inv, Types, ChainInv, StoppedInv, Broadcasters
<1>6. OutlivedInv'
  <2> SUFFICES ASSUME NEW b \in Broadcasters, NEW c \in Broadcasters,
                      b < c, c <= made, pump'[c] # "waiting", Unbroken(b, c)
               PROVE  pump'[b] = "done"
    BY <1>1 DEF OutlivedInv, Unbroken, GivenUp
  <2>1. pump[c] # "waiting" /\ b # n
    BY <1>1, <1>2, <1>3 DEF Inv, Types, Broadcasters
  <2> QED
    BY <1>2, <2>1 DEF Inv, OutlivedInv
<1> QED
  BY <1>4, <1>5, <1>6 DEF Inv

\* A pump dials: its predecessor has gone, and with it all before it, or the
\* wait was given up.
LEMMA DialInv ==
    ASSUME Inv, NEW n \in Broadcasters, PumpDials(n) \/ WaitTimesOut(n)
    PROVE  Inv'
<1>1. /\ pump[n] = "waiting" /\ pump' = [pump EXCEPT ![n] = "open"]
      /\ UNCHANGED <<made, registry, predecessor, stopped, torndown, down, abandoned>>
      /\ \/ torndown[predecessor[n]] /\ timedOut' = timedOut
         \/ timedOut' = timedOut \cup {n}
  BY DEF PumpDials, WaitTimesOut, Dial, ReleasedBy
<1>2. n <= made /\ predecessor[n] = n - 1 /\ n - 1 \in Broadcasters /\ ~stopped[n]
  BY <1>1, CameraAssumption DEF CameraAssumption, Inv, Types, ChainInv, StoppedInv, Broadcasters
<1>3. Types' /\ RegistryInv'
  BY <1>1 DEF Inv, Types, RegistryInv, PumpState
<1>4. ChainInv' /\ StoppedInv'
  BY <1>1, <1>2 DEF Inv, Types, ChainInv, StoppedInv, Broadcasters
<1>5. OutlivedInv'
  <2> SUFFICES ASSUME NEW b \in Broadcasters, NEW c \in Broadcasters,
                      b < c, c <= made, pump'[c] # "waiting", Unbroken(b, c)'
               PROVE  pump'[b] = "done"
    BY <1>1 DEF OutlivedInv
  <2>1. Unbroken(b, c)
    BY <1>1 DEF Unbroken, GivenUp
  <2>2. pump[b] = "done"
    <3>1. CASE c # n
      BY <1>1, <2>1, <3>1 DEF Inv, Types, OutlivedInv
    <3>2. CASE c = n
      <4>1. torndown[n - 1]
        BY <1>1, <1>2, <3>2 DEF Unbroken, GivenUp, Broadcasters
      <4>2. pump[n - 1] = "done"
        BY <1>2, <4>1 DEF Inv, Types, StoppedInv, Broadcasters
      <4>3. CASE b = n - 1
        BY <4>2, <4>3
      <4>4. CASE b # n - 1
        <5>1. b < n - 1 /\ n - 1 <= made /\ pump[n - 1] # "waiting"
          BY <1>2, <3>2, <4>2, <4>4 DEF Inv, Types, Broadcasters
        <5>2. Unbroken(b, n - 1)
          BY <2>1, <3>2 DEF Unbroken, Broadcasters
        <5> QED
          BY <1>2, <5>1, <5>2 DEF Inv, OutlivedInv
      <4> QED
        BY <4>3, <4>4
    <3> QED
      BY <3>1, <3>2
  <2>3. b # n
    BY <1>1, <2>2
  <2> QED
    BY <1>1, <2>2, <2>3 DEF Inv, Types
<1> QED
  BY <1>3, <1>4, <1>5 DEF Inv

\* A connection is lost, or a lost one is closed.
LEMMA CloseInv ==
    ASSUME Inv, NEW n \in Broadcasters, UpstreamEnds(n) \/ PumpEnds(n)
    PROVE  Inv'
<1>1. /\ \/ pump[n] = "open" /\ pump' = [pump EXCEPT ![n] = "closing"]
         \/ pump[n] = "closing" /\ pump' = [pump EXCEPT ![n] = "done"]
      /\ UNCHANGED <<made, registry, predecessor, stopped, torndown, down, timedOut, abandoned>>
  BY DEF UpstreamEnds, PumpEnds
<1>2. Types' /\ RegistryInv'
  BY <1>1 DEF Inv, Types, RegistryInv, PumpState
<1>3. ChainInv' /\ StoppedInv'
  BY <1>1 DEF Inv, Types, ChainInv, StoppedInv, Broadcasters
<1>4. OutlivedInv'
  BY <1>1 DEF Inv, Types, OutlivedInv, Unbroken, GivenUp
<1> QED
  BY <1>2, <1>3, <1>4 DEF Inv

\* A stopped broadcaster has stopped waiting too: for good reason, or it is
\* counted among those that gave up.
LEMMA MarkStoppedInv ==
    ASSUME Inv, NEW n \in Broadcasters, n = made, MarkStopped(n),
           UNCHANGED <<made, predecessor, torndown, timedOut>>,
           \/ UNCHANGED <<registry, down>>
           \/ down' = TRUE /\ registry' = None
    PROVE  Inv'
<1>1. /\ pump' = [pump EXCEPT ![n] = Cancelled(@)]
      /\ stopped' = [stopped EXCEPT ![n] = TRUE]
      /\ abandoned' = IF pump[n] = "waiting" /\ ~torndown[predecessor[n]]
                      THEN abandoned \cup {n} ELSE abandoned
  BY DEF MarkStopped
<1>2. /\ pump'[n] = Cancelled(pump[n])
      /\ \A b \in Broadcasters : b # n => pump'[b] = pump[b]
      /\ pump[n] \in {"waiting", "open", "closing", "done"}
  BY <1>1 DEF Inv, Types, ChainInv, PumpState, Broadcasters
<1>3. Types'
  <2>1. /\ made' \in 0..MaxBroadcasters /\ registry' \in 0..MaxBroadcasters
        /\ predecessor' \in [Broadcasters -> 0..MaxBroadcasters]
        /\ timedOut' \subseteq Broadcasters /\ abandoned' \subseteq Broadcasters
        /\ torndown' \in [Broadcasters -> BOOLEAN]
    BY <1>1, CameraAssumption DEF CameraAssumption, Inv, Types, None
  <2>2. pump' \in [Broadcasters -> PumpState]
    BY <1>1, <1>2 DEF Inv, Types, PumpState, Cancelled
  <2>3. stopped' \in [Broadcasters -> BOOLEAN]
    BY <1>1 DEF Inv, Types
  <2>4. down' \in BOOLEAN
    BY DEF Inv, Types
  <2> QED
    BY <2>1, <2>2, <2>3, <2>4 DEF Types
<1>7. RegistryInv'
  BY DEF Inv, RegistryInv
<1>4. ChainInv'
  BY <1>1, <1>2 DEF Inv, Types, ChainInv, Cancelled, Broadcasters
<1>5. StoppedInv'
  BY <1>1, <1>2 DEF Inv, Types, StoppedInv, Cancelled, Broadcasters
<1>6. OutlivedInv'
  <2> SUFFICES ASSUME NEW b \in Broadcasters, NEW c \in Broadcasters,
                      b < c, c <= made, pump'[c] # "waiting", Unbroken(b, c)'
               PROVE  pump'[b] = "done"
    BY DEF OutlivedInv
  <2>1. Unbroken(b, c) /\ b # n
    BY <1>1 DEF Unbroken, GivenUp, Inv, Types, Broadcasters
  <2>2. CASE pump[c] # "waiting"
    BY <1>2, <2>1, <2>2 DEF Inv, OutlivedInv
  <2>3. CASE pump[c] = "waiting"
    <3>1. c = n
      BY <1>2, <2>3
    <3>2. torndown[n - 1] /\ n - 1 \in Broadcasters
      BY <1>1, <2>3, <3>1 DEF Inv, Types, ChainInv, StoppedInv, Unbroken, GivenUp, Broadcasters
    <3>3. pump[n - 1] = "done"
      BY <3>2 DEF Inv, Types, StoppedInv, Broadcasters
    <3>4. CASE b = n - 1
      BY <1>2, <2>1, <3>3, <3>4
    <3>5. CASE b # n - 1
      <4>1. b < n - 1 /\ n - 1 <= made /\ pump[n - 1] # "waiting"
        BY <3>1, <3>3, <3>5 DEF Inv, Types, Broadcasters
      <4>2. Unbroken(b, n - 1)
        BY <2>1, <3>1 DEF Unbroken, Broadcasters
      <4>3. pump[b] = "done"
        BY <3>2, <4>1, <4>2 DEF Inv, OutlivedInv
      <4> QED
        BY <1>2, <2>1, <4>3
    <3> QED
      BY <3>4, <3>5
  <2> QED
    BY <2>2, <2>3
<1> QED
  BY <1>3, <1>4, <1>5, <1>6, <1>7 DEF Inv

\* A broadcaster is released, and so is one that shutdown finds stopping.
LEMMA ReleaseInv ==
    ASSUME Inv, NEW n \in Broadcasters, stopped[n],
           torndown' = [torndown EXCEPT ![n] = TRUE],
           UNCHANGED <<made, predecessor, pump, stopped, timedOut, abandoned>>,
           \/ UNCHANGED <<registry, down>> /\ pump[n] = "done"
           \/ down' = TRUE /\ registry' = None /\ n = made
    PROVE  Inv'
<1>1. Types'
  <2>1. /\ made' \in 0..MaxBroadcasters /\ registry' \in 0..MaxBroadcasters
        /\ predecessor' \in [Broadcasters -> 0..MaxBroadcasters]
        /\ pump' \in [Broadcasters -> PumpState] /\ stopped' \in [Broadcasters -> BOOLEAN]
        /\ timedOut' \subseteq Broadcasters /\ abandoned' \subseteq Broadcasters
    BY CameraAssumption DEF CameraAssumption, Inv, Types, None
  <2>2. torndown' \in [Broadcasters -> BOOLEAN]
    BY DEF Inv, Types
  <2>3. down' \in BOOLEAN
    BY DEF Inv, Types
  <2> QED
    BY <2>1, <2>2, <2>3 DEF Types
<1>4. RegistryInv'
  BY DEF Inv, RegistryInv
<1>2. ChainInv' /\ StoppedInv'
  BY DEF Inv, Types, ChainInv, StoppedInv, Broadcasters
<1>3. OutlivedInv'
  BY DEF Inv, OutlivedInv, Unbroken, GivenUp
<1> QED
  BY <1>1, <1>2, <1>3, <1>4 DEF Inv

\* The broadcaster in the registry is the newest one.
LEMMA RegisteredIsNewest ==
    ASSUME Inv, registry # None
    PROVE  registry = made /\ registry \in Broadcasters
BY CameraAssumption DEF CameraAssumption, Inv, Types, RegistryInv, Broadcasters, None

\* The one broadcaster that is not stopped is the newest one.
LEMMA LiveIsNewest ==
    ASSUME Inv, NEW b \in Broadcasters, ~stopped[b], b <= made
    PROVE  b = made
BY DEF Inv, Types, ChainInv, Broadcasters

\* Every step keeps the invariant.
LEMMA StepInv == Inv /\ [Next]_vars => Inv'
<1> SUFFICES ASSUME Inv, [Next]_vars PROVE Inv'
  OBVIOUS
<1>1. ASSUME NEW v \in Viewers, CreateBroadcaster(v) PROVE Inv'
  BY <1>1, CreateInv
<1>2. ASSUME NEW v \in Viewers, Subscribe(v) PROVE Inv'
  BY <1>2, SubscribeInv
<1>3. ASSUME NEW v \in Viewers, Read(v) \/ ReadGone(v) \/ Disconnect(v) PROVE Inv'
  BY <1>3, StutterInv DEF Read, ReadGone, Disconnect, Unsubscribe, broadcasterVars
<1>4. ASSUME NEW b \in Broadcasters, PumpDials(b) \/ WaitTimesOut(b) PROVE Inv'
  BY <1>4, DialInv
<1>5. ASSUME NEW b \in Broadcasters, PumpFrame(b) PROVE Inv'
  BY <1>5, StutterInv DEF PumpFrame
<1>6. ASSUME NEW b \in Broadcasters, UpstreamEnds(b) \/ PumpEnds(b) PROVE Inv'
  BY <1>6, CloseInv
<1>7. ASSUME NEW b \in Broadcasters, b <= made, GraceThenStop(b) PROVE Inv'
  <2>1. b = made
    BY <1>7, LiveIsNewest DEF GraceThenStop
  <2> QED
    BY <1>7, <2>1, MarkStoppedInv DEF GraceThenStop
<1>8. ASSUME StopCameraStream PROVE Inv'
  <2>1. registry # None /\ MarkStopped(registry)
    BY <1>8 DEF StopCameraStream, Live
  <2> QED
    BY <1>8, <2>1, RegisteredIsNewest, MarkStoppedInv DEF StopCameraStream
<1>9. ASSUME NEW b \in Broadcasters, TeardownCompletes(b) PROVE Inv'
  BY <1>9, ReleaseInv DEF TeardownCompletes, PumpIsOver
<1>10. ASSUME ShutdownAll PROVE Inv'
  <2>1. CASE registry = None
    <3>1. /\ down' = TRUE /\ registry' = None
          /\ UNCHANGED <<made, predecessor, pump, stopped, torndown, timedOut, abandoned>>
      BY <1>10, <2>1 DEF ShutdownAll, Live
    <3> QED
      BY <3>1, CameraAssumption
         DEF CameraAssumption, Inv, Types, RegistryInv, ChainInv, StoppedInv, OutlivedInv, Unbroken, GivenUp, None
  <2>2. CASE Live(registry)
    <3>1. /\ MarkStopped(registry) /\ down' = TRUE /\ registry' = None
          /\ UNCHANGED <<made, predecessor, torndown, timedOut>>
      BY <1>10, <2>2 DEF ShutdownAll, Live
    <3> QED
      BY <2>2, <3>1, RegisteredIsNewest, MarkStoppedInv DEF Live
  <2>3. CASE registry # None /\ stopped[registry]
    <3>1. /\ torndown' = [torndown EXCEPT ![registry] = TRUE]
          /\ down' = TRUE /\ registry' = None
          /\ UNCHANGED <<made, predecessor, pump, stopped, timedOut, abandoned>>
      BY <1>10, <2>3 DEF ShutdownAll, Live
    <3> QED
      BY <2>3, <3>1, RegisteredIsNewest, ReleaseInv
  <2> QED
    BY <2>1, <2>2, <2>3 DEF Live
<1>11. CASE UNCHANGED vars
  BY <1>11, StutterInv DEF vars, broadcasterVars
<1>12. 1..made \subseteq Broadcasters /\ \A b \in 1..made : b <= made
  BY CameraAssumption DEF CameraAssumption, Inv, Types, Broadcasters
<1> QED
  BY <1>1, <1>2, <1>3, <1>4, <1>5, <1>6, <1>7, <1>8, <1>9, <1>10, <1>11, <1>12 DEF Next

\* In every reachable state the invariant holds.
THEOREM Invariant == Spec => []Inv
BY InitInv, StepInv, PTL DEF Spec

\* Two connections to one printer exist only if a broadcaster between them
\* gave up its wait: by its time-out, or because it was stopped meanwhile.
THEOREM OverlapNeedsGiveUp == Spec => []OverlapIsExcused
BY Invariant, OutlivedExcuses, PTL

-----------------------------------------------------------------------------
(* Viewers and their queues *)

Items == {"frame", "gone"}

\* What a viewer has not read yet fits its queue.
QueueInv ==
    /\ queue \in [Viewers -> Seq(Items)]
    /\ \A v \in Viewers : Len(queue[v]) <= QueueSize

ViewTypes ==
    /\ subscribers \in [Broadcasters -> SUBSET Viewers]
    /\ grace \in [Broadcasters -> BOOLEAN]
    /\ primed \in [Broadcasters -> BOOLEAN]
    /\ watching \in [Viewers -> 0..made]

\* A subscriber watches its broadcaster, and until the shutdown every watcher
\* is one. What has subscribers is not stopped.
WatchInv ==
    /\ \A b \in Broadcasters : \A v \in subscribers[b] : watching[v] = b
    /\ ~down => \A v \in Viewers : watching[v] # None => v \in subscribers[watching[v]]
    /\ \A b \in Broadcasters : subscribers[b] # {} => ~stopped[b]

\* The grace window runs exactly while a live broadcaster is not watched.
GraceInv ==
    \A b \in Broadcasters : grace[b] <=> b <= made /\ ~stopped[b] /\ subscribers[b] = {}

ViewInv == ViewTypes /\ WatchInv /\ GraceInv

\* An item that is put is taken by a queue with room and dropped by a full one.
LEMMA PutFits ==
    ASSUME NEW q \in Seq(Items), Len(q) <= QueueSize, NEW item \in Items
    PROVE  Put(q, item) \in Seq(Items) /\ Len(Put(q, item)) <= QueueSize
<1>1. CASE Len(q) < QueueSize
  <2>1. Append(q, item) \in Seq(Items) /\ Len(Append(q, item)) = Len(q) + 1
    BY AppendProperties
  <2>2. Len(q) \in Nat /\ QueueSize \in Nat
    BY LenProperties, CameraAssumption DEF CameraAssumption
  <2> QED
    BY <1>1, <2>1, <2>2 DEF Put
<1>2. CASE ~(Len(q) < QueueSize)
  BY <1>2 DEF Put
<1> QED
  BY <1>1, <1>2

\* Copying an item to the subscribers' queues fills none beyond its size.
LEMMA PutAllFits ==
    ASSUME QueueInv, NEW vs, NEW item \in Items, queue' = PutAll(vs, item)
    PROVE  QueueInv'
<1>1. \A v \in Viewers : Put(queue[v], item) \in Seq(Items) /\ Len(Put(queue[v], item)) <= QueueSize
  BY PutFits DEF QueueInv
<1>2. \A v \in Viewers : queue'[v] = IF v \in vs THEN Put(queue[v], item) ELSE queue[v]
  BY DEF PutAll
<1>3. \A v \in Viewers : queue'[v] \in Seq(Items) /\ Len(queue'[v]) <= QueueSize
  BY <1>1, <1>2, Zenon DEF QueueInv
<1>4. queue' = [v \in Viewers |-> queue'[v]]
  BY DEF PutAll
<1> QED
  BY <1>3, <1>4, Zenon DEF QueueInv

\* One viewer gets a queue that fits; the others keep theirs.
LEMMA OneQueueFits ==
    ASSUME QueueInv, NEW v \in Viewers, NEW q \in Seq(Items), Len(q) <= QueueSize,
           queue' = [queue EXCEPT ![v] = q]
    PROVE  QueueInv'
<1>1. \A u \in Viewers : queue'[u] = IF u = v THEN q ELSE queue[u]
  BY Zenon DEF QueueInv
<1>2. queue' = [u \in Viewers |-> queue'[u]]
  BY <1>1, Zenon DEF QueueInv
<1>3. \A u \in Viewers : queue'[u] \in Seq(Items) /\ Len(queue'[u]) <= QueueSize
  BY <1>1, Zenon DEF QueueInv
<1> QED
  BY <1>2, <1>3, Zenon DEF QueueInv

\* An empty queue and one with the last frame fit: the size is not zero.
LEMMA FirstQueueFits ==
    ASSUME NEW q \in {<<>>, <<"frame">>}
    PROVE  q \in Seq(Items) /\ Len(q) <= QueueSize
<1>1. QueueSize \in Nat /\ QueueSize >= 1
  BY CameraAssumption DEF CameraAssumption
<1>2. <<>> \in Seq(Items) /\ Len(<<>>) = 0
  OBVIOUS
<1>3. <<"frame">> \in Seq(Items) /\ Len(<<"frame">>) = 1
  BY DEF Items
<1>4. CASE q = <<>>
  BY <1>1, <1>2, <1>4
<1>5. CASE q = <<"frame">>
  BY <1>1, <1>3, <1>5
<1> QED
  BY <1>4, <1>5

\* Reading makes room.
LEMMA TailFits ==
    ASSUME NEW q \in Seq(Items), Len(q) <= QueueSize, q # <<>>
    PROVE  Tail(q) \in Seq(Items) /\ Len(Tail(q)) <= QueueSize
<1>1. Tail(q) \in Seq(Items) /\ Len(Tail(q)) = Len(q) - 1
  BY HeadTailProperties
<1>2. Len(q) \in Nat /\ QueueSize \in Nat
  BY LenProperties, CameraAssumption DEF CameraAssumption
<1> QED
  BY <1>1, <1>2

\* No step overfills a queue.
LEMMA QueueStep == QueueInv /\ [Next]_vars => QueueInv'
<1> SUFFICES ASSUME QueueInv, [Next]_vars PROVE QueueInv'
  OBVIOUS
<1>1. ASSUME NEW v \in Viewers, CreateBroadcaster(v) PROVE QueueInv'
  <2>1. queue' = [queue EXCEPT ![v] = <<>>]
    BY <1>1, Zenon DEF CreateBroadcaster
  <2> QED
    BY <2>1, FirstQueueFits, OneQueueFits
<1>2. ASSUME NEW v \in Viewers, Subscribe(v) PROVE QueueInv'
  <2>1. PICK q \in {<<>>, <<"frame">>} : queue' = [queue EXCEPT ![v] = q]
    BY <1>2, Zenon DEF Subscribe
  <2> QED
    BY <2>1, FirstQueueFits, OneQueueFits
<1>3. ASSUME NEW v \in Viewers, Read(v) PROVE QueueInv'
  <2>1. queue[v] # <<>> /\ queue' = [queue EXCEPT ![v] = Tail(queue[v])]
    BY <1>3, Zenon DEF Read
  <2>2. queue[v] \in Seq(Items) /\ Len(queue[v]) <= QueueSize
    BY Zenon DEF QueueInv
  <2> QED
    BY <2>1, <2>2, TailFits, OneQueueFits
<1>4. ASSUME NEW v \in Viewers, ReadGone(v) \/ Disconnect(v) PROVE QueueInv'
  <2>1. queue' = [queue EXCEPT ![v] = <<>>]
    BY <1>4, Zenon DEF ReadGone, Disconnect, Unsubscribe
  <2> QED
    BY <2>1, FirstQueueFits, OneQueueFits
<1>5. ASSUME NEW b \in 1..made, PumpFrame(b) \/ PumpEnds(b) PROVE QueueInv'
  <2>1. PICK item \in Items : queue' = PutAll(subscribers[b], item)
    BY <1>5, Zenon DEF PumpFrame, PumpEnds, Items
  <2> QED
    BY <2>1, PutAllFits
<1>6. ASSUME NEW b \in 1..made,
             PumpDials(b) \/ WaitTimesOut(b) \/ UpstreamEnds(b) \/ GraceThenStop(b) \/ TeardownCompletes(b)
      PROVE  queue' = queue
  BY <1>6, Zenon DEF PumpDials, WaitTimesOut, UpstreamEnds, GraceThenStop, TeardownCompletes, Dial
<1>7. StopCameraStream \/ UNCHANGED vars => queue' = queue
  BY Zenon DEF StopCameraStream, vars
<1>8. ASSUME ShutdownAll PROVE queue' = queue \/ queue' = PutAll(subscribers[registry], "gone")
  BY <1>8, Zenon DEF ShutdownAll
<1>9. queue' = queue => QueueInv'
  BY Zenon DEF QueueInv
<1> QED
  BY <1>1, <1>2, <1>3, <1>4, <1>5, <1>6, <1>7, <1>8, <1>9, PutAllFits, Zenon DEF Next, Items

\* Nobody watches at first.
LEMMA InitView == Init => QueueInv /\ ViewInv
<1> SUFFICES ASSUME Init PROVE QueueInv /\ ViewInv
  OBVIOUS
<1>1. QueueInv
  <2>1. queue = [v \in Viewers |-> <<>>]
    BY Zenon DEF Init
  <2> QED
    BY <2>1, FirstQueueFits DEF QueueInv
<1>2. ViewTypes
  BY DEF Init, ViewTypes, None
<1>3. WatchInv /\ GraceInv
  BY DEF Init, WatchInv, GraceInv, None, Broadcasters
<1> QED
  BY <1>1, <1>2, <1>3 DEF ViewInv

\* What is watched is a broadcaster.
LEMMA WatchedIsMade ==
    ASSUME Inv, ViewTypes, NEW v \in Viewers, watching[v] # None
    PROVE  watching[v] \in Broadcasters /\ watching[v] <= made
<1>1. watching[v] \in 0..made /\ watching[v] # 0
  BY DEF ViewTypes, None
<1>2. made \in Nat /\ MaxBroadcasters \in Nat /\ made <= MaxBroadcasters
  BY CameraAssumption DEF CameraAssumption, Inv, Types
<1> QED
  BY <1>1, <1>2 DEF Broadcasters

\* Nothing that ViewInv speaks of changes, or only what is primed.
LEMMA StutterView ==
    ASSUME ViewInv, UNCHANGED <<made, subscribers, grace, stopped, watching, down>>,
           primed' \in [Broadcasters -> BOOLEAN]
    PROVE  ViewInv'
BY DEF ViewInv, ViewTypes, WatchInv, GraceInv

\* The first viewer of a new broadcaster.
LEMMA CreateView ==
    ASSUME Inv, ViewInv, NEW v \in Viewers, CreateBroadcaster(v)
    PROVE  ViewInv'
<1> DEFINE n == made + 1
<1>1. /\ n \in Broadcasters /\ made' = n /\ ~down /\ watching[v] = None
      /\ subscribers' = [subscribers EXCEPT ![n] = {v}]
      /\ watching' = [watching EXCEPT ![v] = n]
      /\ UNCHANGED <<grace, stopped, primed, down>>
  BY DEF CreateBroadcaster
<1>2. made \in Nat /\ ~stopped[n] /\ ~grace[n]
  BY <1>1 DEF Inv, Types, ChainInv, ViewInv, GraceInv
<1>3. \A b \in Broadcasters : b # n => subscribers'[b] = subscribers[b]
  BY <1>1 DEF ViewInv, ViewTypes
<1>4. subscribers'[n] = {v} /\ watching'[v] = n
  BY <1>1 DEF ViewInv, ViewTypes
<1>5. \A u \in Viewers : u # v => watching'[u] = watching[u]
  BY <1>1 DEF ViewInv, ViewTypes
<1>6. ViewTypes'
  BY <1>1, <1>2 DEF ViewInv, ViewTypes, Broadcasters
<1>7. \A b \in Broadcasters : v \notin subscribers[b]
  BY <1>1 DEF ViewInv, WatchInv, Broadcasters, None
<1>8. \A u \in Viewers : watching[u] # n
  BY <1>2 DEF ViewInv, ViewTypes
<1>9. WatchInv'
  <2>1. \A b \in Broadcasters : \A u \in subscribers'[b] : watching'[u] = b
    <3> SUFFICES ASSUME NEW b \in Broadcasters, NEW u \in subscribers'[b]
                 PROVE  watching'[u] = b
      OBVIOUS
    <3>1. CASE b = n
      BY <1>4, <3>1
    <3>2. CASE b # n
      <4>1. u \in subscribers[b] /\ watching[u] = b
        BY <1>3, <3>2, Zenon DEF ViewInv, WatchInv
      <4>2. u \in Viewers /\ u # v
        BY <1>7, <4>1, Zenon DEF ViewInv, ViewTypes
      <4> QED
        BY <1>5, <4>1, <4>2, Zenon
    <3> QED
      BY <3>1, <3>2
  <2>2. \A u \in Viewers : watching'[u] # None => u \in subscribers'[watching'[u]]
    <3> SUFFICES ASSUME NEW u \in Viewers, u # v, watching'[u] # None
                 PROVE  u \in subscribers'[watching'[u]]
      BY <1>4, Zenon
    <3>1. watching'[u] = watching[u] /\ u \in subscribers[watching[u]]
      BY <1>1, <1>5, Zenon DEF ViewInv, WatchInv
    <3>2. watching[u] \in Broadcasters
      BY <3>1, WatchedIsMade, Zenon DEF ViewInv
    <3> QED
      BY <1>3, <1>8, <3>1, <3>2, Zenon
  <2>3. \A b \in Broadcasters : subscribers'[b] # {} => ~stopped'[b]
    BY <1>1, <1>2, <1>3, Zenon DEF ViewInv, WatchInv
  <2> QED
    BY <2>1, <2>2, <2>3, Zenon DEF WatchInv
<1>10. GraceInv'
  <2>1. grace'[n] <=> n <= made' /\ ~stopped'[n] /\ subscribers'[n] = {}
    BY <1>1, <1>2, <1>4
  <2>2. ASSUME NEW b \in Broadcasters, b # n
        PROVE  grace'[b] <=> b <= made' /\ ~stopped'[b] /\ subscribers'[b] = {}
    BY <1>1, <1>2, <1>3, <2>2 DEF ViewInv, GraceInv, Broadcasters
  <2> QED
    BY <2>1, <2>2, Zenon DEF GraceInv
<1> QED
  BY <1>6, <1>9, <1>10 DEF ViewInv

\* A viewer that joins a live broadcaster ends its window.
LEMMA SubscribeView ==
    ASSUME Inv, ViewInv, NEW v \in Viewers, Subscribe(v)
    PROVE  ViewInv'
<1> DEFINE n == registry
<1>1. /\ n \in Broadcasters /\ n = made /\ ~stopped[n] /\ ~down /\ watching[v] = None
      /\ subscribers' = [subscribers EXCEPT ![n] = @ \cup {v}]
      /\ grace' = [grace EXCEPT ![n] = FALSE]
      /\ watching' = [watching EXCEPT ![v] = n]
      /\ UNCHANGED <<made, stopped, primed, down>>
  BY RegisteredIsNewest DEF Subscribe, Live
<1>2. ViewTypes'
  BY <1>1 DEF ViewInv, ViewTypes, Inv, Types
<1>3. WatchInv'
  BY <1>1 DEF ViewInv, ViewTypes, WatchInv, Broadcasters, None
<1>4. GraceInv'
  BY <1>1 DEF ViewInv, ViewTypes, GraceInv
<1> QED
  BY <1>2, <1>3, <1>4 DEF ViewInv

\* A viewer leaves; the last one of a live broadcaster starts its window.
LEMMA UnsubscribeView ==
    ASSUME Inv, ViewInv, NEW v \in Viewers, watching[v] # None, Unsubscribe(v)
    PROVE  ViewInv'
<1> DEFINE n == watching[v]
<1>1. n \in Broadcasters /\ n <= made
  BY WatchedIsMade DEF ViewInv
<1>2. /\ subscribers' = [subscribers EXCEPT ![n] = subscribers[n] \ {v}]
      /\ grace' = [grace EXCEPT ![n] =
                      @ \/ (v \in subscribers[n] /\ subscribers[n] \ {v} = {} /\ ~stopped[n])]
      /\ watching' = [watching EXCEPT ![v] = None]
      /\ UNCHANGED <<made, stopped, primed, down>>
  BY Zenon DEF Unsubscribe, GraceStarts
<1>3. /\ subscribers'[n] = subscribers[n] \ {v}
      /\ grace'[n] <=> (grace[n] \/ (v \in subscribers[n] /\ subscribers[n] \ {v} = {} /\ ~stopped[n]))
      /\ \A b \in Broadcasters : b # n => subscribers'[b] = subscribers[b] /\ grace'[b] = grace[b]
      /\ watching'[v] = None
      /\ \A u \in Viewers : u # v => watching'[u] = watching[u]
  BY <1>1, <1>2, Zenon DEF ViewInv, ViewTypes
<1>4. ViewTypes'
  <2>1. subscribers' \in [Broadcasters -> SUBSET Viewers]
    BY <1>2 DEF ViewInv, ViewTypes
  <2>2. grace' \in [Broadcasters -> BOOLEAN]
    BY <1>2, Zenon DEF ViewInv, ViewTypes
  <2>3. watching' \in [Viewers -> 0..made]
    BY <1>2 DEF ViewInv, ViewTypes, Inv, Types, None
  <2> QED
    BY <1>2, <2>1, <2>2, <2>3, Zenon DEF ViewInv, ViewTypes
<1>5. WatchInv'
  <2>1. \A b \in Broadcasters : v \notin subscribers'[b]
    BY <1>3, Zenon DEF ViewInv, WatchInv
  <2>2. \A b \in Broadcasters : \A u \in subscribers'[b] : u \in subscribers[b] /\ u \in Viewers
    BY <1>3, Zenon DEF ViewInv, ViewTypes
  <2>3. \A b \in Broadcasters : \A u \in subscribers'[b] : watching'[u] = b
    <3> SUFFICES ASSUME NEW b \in Broadcasters, NEW u \in subscribers'[b] PROVE watching'[u] = b
      OBVIOUS
    <3>1. u \in subscribers[b] /\ u \in Viewers /\ u # v
      BY <2>1, <2>2
    <3>2. watching[u] = b
      BY <3>1, Zenon DEF ViewInv, WatchInv
    <3> QED
      BY <1>3, <3>1, <3>2, Zenon
  <2>4. ASSUME ~down, NEW u \in Viewers, watching'[u] # None
        PROVE  u \in subscribers'[watching'[u]]
    <3>1. u # v /\ watching'[u] = watching[u]
      BY <1>3, <2>4, Zenon
    <3>2. u \in subscribers[watching[u]] /\ watching[u] \in Broadcasters
      BY <2>4, <3>1, WatchedIsMade, Zenon DEF ViewInv, WatchInv
    <3> QED
      BY <1>3, <3>1, <3>2, Zenon
  <2>5. \A b \in Broadcasters : subscribers'[b] # {} => ~stopped'[b]
    BY <1>2, <2>2, Zenon DEF ViewInv, WatchInv
  <2> QED
    BY <1>2, <2>3, <2>4, <2>5, Zenon DEF WatchInv
<1>6. GraceInv'
  <2>1. grace'[n] <=> ~stopped[n] /\ subscribers'[n] = {}
    <3>1. grace[n] <=> ~stopped[n] /\ subscribers[n] = {}
      BY <1>1, Zenon DEF ViewInv, GraceInv
    <3> QED
      BY <1>3, <3>1
  <2> QED
    BY <1>1, <1>2, <1>3, <2>1, Zenon DEF ViewInv, GraceInv
<1> QED
  BY <1>4, <1>5, <1>6 DEF ViewInv

\* A broadcaster is stopped when nobody watches it, or by the shutdown, which
\* takes its viewers from it.
LEMMA MarkStoppedView ==
    ASSUME Inv, ViewInv, NEW n \in Broadcasters, MarkStopped(n),
           UNCHANGED <<made, primed, watching>>,
           \/ subscribers[n] = {} /\ UNCHANGED <<subscribers, down>>
           \/ subscribers' = [subscribers EXCEPT ![n] = {}] /\ down' = TRUE
    PROVE  ViewInv'
<1>1. stopped' = [stopped EXCEPT ![n] = TRUE] /\ grace' = [grace EXCEPT ![n] = FALSE]
  BY DEF MarkStopped
<1>2. /\ stopped'[n] /\ ~grace'[n] /\ subscribers'[n] = {}
      /\ \A b \in Broadcasters : b # n =>
            stopped'[b] = stopped[b] /\ grace'[b] = grace[b] /\ subscribers'[b] = subscribers[b]
  BY <1>1, Zenon DEF Inv, Types, ViewInv, ViewTypes
<1>3. ViewTypes'
  BY <1>1, Zenon DEF ViewInv, ViewTypes
<1>4. WatchInv'
  <2>1. \A b \in Broadcasters : subscribers'[b] # {} => ~stopped'[b]
    BY <1>2, Zenon DEF ViewInv, WatchInv
  <2>2. \A b \in Broadcasters : \A u \in subscribers'[b] : watching'[u] = b
    BY <1>2, Zenon DEF ViewInv, WatchInv
  <2>3. ~down' => \A u \in Viewers : watching'[u] # None => u \in subscribers'[watching'[u]]
    BY Zenon DEF ViewInv, WatchInv
  <2> QED
    BY <2>1, <2>2, <2>3, Zenon DEF WatchInv
<1>5. GraceInv'
  BY <1>2, Zenon DEF ViewInv, GraceInv
<1> QED
  BY <1>3, <1>4, <1>5 DEF ViewInv

\* Every step keeps ViewInv.
LEMMA ViewStep == Inv /\ ViewInv /\ [Next]_vars => ViewInv'
<1> SUFFICES ASSUME Inv, ViewInv, [Next]_vars PROVE ViewInv'
  OBVIOUS
<1>1. ASSUME NEW v \in Viewers, CreateBroadcaster(v) PROVE ViewInv'
  BY <1>1, CreateView
<1>2. ASSUME NEW v \in Viewers, Subscribe(v) PROVE ViewInv'
  BY <1>2, SubscribeView
<1>3. ASSUME NEW v \in Viewers, ReadGone(v) \/ Disconnect(v) PROVE ViewInv'
  BY <1>3, UnsubscribeView DEF ReadGone, Disconnect
<1>4. primed \in [Broadcasters -> BOOLEAN]
  BY DEF ViewInv, ViewTypes
<1>5. ASSUME NEW v \in Viewers, Read(v) PROVE ViewInv'
  BY <1>4, <1>5, StutterView DEF Read, broadcasterVars
<1>6. ASSUME NEW b \in Broadcasters, PumpDials(b) \/ WaitTimesOut(b) PROVE ViewInv'
  BY <1>4, <1>6, StutterView DEF PumpDials, WaitTimesOut, Dial
<1>7. ASSUME NEW b \in Broadcasters, PumpFrame(b) PROVE ViewInv'
  <2>1. primed' \in [Broadcasters -> BOOLEAN]
    BY <1>4, <1>7 DEF PumpFrame
  <2> QED
    BY <1>7, <2>1, StutterView DEF PumpFrame
<1>8. ASSUME NEW b \in Broadcasters, UpstreamEnds(b) \/ PumpEnds(b) \/ TeardownCompletes(b) PROVE ViewInv'
  BY <1>4, <1>8, StutterView DEF UpstreamEnds, PumpEnds, TeardownCompletes
<1>9. ASSUME NEW b \in Broadcasters, GraceThenStop(b) PROVE ViewInv'
  BY <1>9, MarkStoppedView DEF GraceThenStop, Unwatched
<1>10. ASSUME StopCameraStream PROVE ViewInv'
  <2>1. registry \in Broadcasters
    BY <1>10, RegisteredIsNewest DEF StopCameraStream, Live
  <2> QED
    BY <1>10, <2>1, MarkStoppedView DEF StopCameraStream, Unwatched
<1>11. ASSUME ShutdownAll PROVE ViewInv'
  <2>1. CASE Live(registry)
    <3>1. registry \in Broadcasters
      BY <2>1, RegisteredIsNewest DEF Live
    <3>2. /\ MarkStopped(registry) /\ subscribers' = [subscribers EXCEPT ![registry] = {}]
          /\ down' = TRUE /\ UNCHANGED <<made, primed, watching>>
      BY <1>11, <2>1 DEF ShutdownAll, Live
    <3> QED
      BY <3>1, <3>2, MarkStoppedView
  <2>2. CASE ~Live(registry)
    <3>1. down' = TRUE /\ UNCHANGED <<made, subscribers, grace, stopped, primed, watching>>
      BY <1>11, <2>2 DEF ShutdownAll, Live
    <3> QED
      BY <3>1 DEF ViewInv, ViewTypes, WatchInv, GraceInv
  <2> QED
    BY <2>1, <2>2
<1>12. CASE UNCHANGED vars
  BY <1>4, <1>12, StutterView DEF vars, broadcasterVars
<1>13. 1..made \subseteq Broadcasters
  BY CameraAssumption DEF CameraAssumption, Inv, Types, Broadcasters
<1> QED
  BY <1>1, <1>2, <1>3, <1>5, <1>6, <1>7, <1>8, <1>9, <1>10, <1>11, <1>12, <1>13, Zenon DEF Next

LEMMA ViewInvariant == Spec => [](Inv /\ QueueInv /\ ViewInv)
<1>1. Init => Inv /\ QueueInv /\ ViewInv
  BY InitInv, InitView
<1>2. (Inv /\ QueueInv /\ ViewInv) /\ [Next]_vars => (Inv /\ QueueInv /\ ViewInv)'
  BY StepInv, QueueStep, ViewStep
<1> QED
  BY <1>1, <1>2, PTL DEF Spec

\* Type correctness: what waits for a viewer is bounded by its queue, however
\* slowly it reads.
THEOREM CameraTypes == Spec => []TypeOK
<1>1. Inv /\ QueueInv /\ ViewInv => TypeOK
  <2> SUFFICES ASSUME Inv, QueueInv, ViewInv PROVE TypeOK
    OBVIOUS
  <2>1. registry \in 0..made
    BY DEF Inv, Types, RegistryInv, None
  <2> QED
    BY <2>1, Zenon DEF Inv, Types, QueueInv, ViewInv, ViewTypes, TypeOK, Items
<1> QED
  BY <1>1, ViewInvariant, PTL

\* A live broadcaster runs down its window exactly while nobody watches it.
THEOREM UnwatchedIsTimed == Spec => []WindowIsUnwatched
<1>1. Inv /\ QueueInv /\ ViewInv => WindowIsUnwatched
  BY CameraAssumption DEF CameraAssumption, Inv, Types, ViewInv, GraceInv, WindowIsUnwatched, Broadcasters
<1> QED
  BY <1>1, ViewInvariant, PTL

\* Until the shutdown nobody watches a broadcaster that is stopped.
THEOREM NoViewerIsCutOff == Spec => []StoppedUnwatched
<1>1. Inv /\ QueueInv /\ ViewInv => StoppedUnwatched
  <2> SUFFICES ASSUME Inv, ViewInv, NEW v \in Viewers, watching[v] # None, stopped[watching[v]], ~down
               PROVE  FALSE
    BY Zenon DEF StoppedUnwatched
  <2>1. watching[v] \in Broadcasters
    BY WatchedIsMade, Zenon DEF ViewInv
  <2>2. v \in subscribers[watching[v]]
    BY Zenon DEF ViewInv, WatchInv
  <2> QED
    BY <2>1, <2>2, Zenon DEF ViewInv, WatchInv
<1> QED
  BY <1>1, ViewInvariant, PTL

-----------------------------------------------------------------------------
(* The fan-out implements CameraUpstream *)

Held == {b \in Broadcasters : Connected(b)}
UpstreamStep == [Upstream!Next]_(Upstream!vars)

\* One more connection: a step of the contract if there was none, or if a
\* wait has been given up by then.
LEMMA StepOpens ==
    ASSUME NEW n \in Broadcasters, n \notin Held, Held' = Held \cup {n},
           timedOut \subseteq timedOut', abandoned \subseteq abandoned',
           Held = {} \/ timedOut' \cup abandoned' # {}
    PROVE  UpstreamStep
<1>1. (timedOut \cup abandoned # {})' \in {timedOut \cup abandoned # {}, TRUE}
  OBVIOUS
<1>2. Upstream!Open(n)
  BY <1>1 DEF Upstream!Open, Held
<1> QED
  BY <1>2 DEF UpstreamStep, Upstream!Next

\* A connection closes.
LEMMA StepCloses ==
    ASSUME NEW n \in Broadcasters, n \in Held, Held' = Held \ {n},
           UNCHANGED <<timedOut, abandoned>>
    PROVE  UpstreamStep
<1>1. Upstream!Close(n)
  BY DEF Upstream!Close, Held
<1> QED
  BY <1>1 DEF UpstreamStep, Upstream!Next

\* The connections stay as they are; a wait may be given up.
LEMMA StepKeeps ==
    ASSUME Held' = Held, timedOut \subseteq timedOut', abandoned \subseteq abandoned'
    PROVE  UpstreamStep
<1>1. CASE (timedOut \cup abandoned # {})' = (timedOut \cup abandoned # {})
  BY <1>1 DEF UpstreamStep, Upstream!vars, Held
<1>2. CASE (timedOut \cup abandoned # {})' = TRUE
  BY <1>2 DEF UpstreamStep, Upstream!Next, Upstream!GiveUp, Held
<1>3. timedOut \cup abandoned # {} => (timedOut \cup abandoned # {})'
  OBVIOUS
<1> QED
  BY <1>1, <1>2, <1>3

\* If nobody gave up a wait, the newest broadcaster, once it does not wait,
\* is the only one that can have a connection.
LEMMA OnlyTheNewest ==
    ASSUME Inv, NEW n \in Broadcasters, n = made, pump[n] # "waiting", GivenUp = {}
    PROVE  \A b \in Broadcasters : b # n => ~Connected(b)
<1> SUFFICES ASSUME NEW b \in Broadcasters, b # n PROVE ~Connected(b)
  OBVIOUS
<1>1. CASE b < n
  BY <1>1 DEF Inv, Types, OutlivedInv, Unbroken, Connected, Broadcasters
<1>2. CASE b > n
  BY <1>2 DEF Inv, ChainInv, Connected
<1> QED
  BY <1>1, <1>2 DEF Broadcasters

\* Creating a broadcaster opens the upstream or changes nothing.
LEMMA CreateRefines ==
    ASSUME Inv, NEW v \in Viewers, CreateBroadcaster(v)
    PROVE  UpstreamStep
<1>0. PICK n \in Broadcasters : n = made + 1
  BY DEF CreateBroadcaster
<1>1. /\ registry = made
      /\ pump' = [pump EXCEPT ![n] = IF made = 0 THEN "open" ELSE "waiting"]
      /\ UNCHANGED <<timedOut, abandoned>>
  BY <1>0 DEF CreateBroadcaster, Inv, RegistryInv, FirstPump, Registered, None
<1>2. ~Connected(n)
  BY <1>0 DEF Inv, Types, ChainInv, Connected
<1>3. \A b \in Broadcasters : b # n => (Connected(b)' <=> Connected(b))
  BY <1>1 DEF Inv, Types, Connected
<1>4. CASE made = 0
  <2>1. \A b \in Broadcasters : ~Connected(b)
    BY <1>4 DEF Inv, ChainInv, Connected, Broadcasters
  <2>2. Connected(n)'
    BY <1>1, <1>4 DEF Inv, Types, Connected
  <2>3. n \notin Held /\ Held' = Held \cup {n} /\ Held = {}
    BY <1>1, <1>3, <2>1, <2>2 DEF Held
  <2> QED
    BY <1>1, <2>3, StepOpens
<1>5. CASE made # 0
  <2>1. ~Connected(n)'
    BY <1>1, <1>5 DEF Inv, Types, Connected
  <2>2. Held' = Held
    BY <1>2, <1>3, <2>1 DEF Held
  <2> QED
    BY <1>1, <2>2, StepKeeps
<1> QED
  BY <1>4, <1>5

\* A restarted pump dials, and no other broadcaster has a connection.
LEMMA SubscribeRefines ==
    ASSUME Inv, NEW v \in Viewers, Subscribe(v)
    PROVE  UpstreamStep
<1> DEFINE n == registry
<1>1. /\ n = made /\ n \in Broadcasters
      /\ pump' = [pump EXCEPT ![n] = IF @ = "done" THEN "open" ELSE @]
      /\ UNCHANGED <<timedOut, abandoned>>
  BY RegisteredIsNewest DEF Subscribe, Live
<1>2. \A b \in Broadcasters : b # n => (Connected(b)' <=> Connected(b))
  BY <1>1 DEF Inv, Types, Connected
<1>3. CASE pump[n] = "done"
  <2>1. n \notin Held /\ Held' = Held \cup {n}
    BY <1>1, <1>2, <1>3 DEF Inv, Types, Connected, Held
  <2>2. CASE GivenUp = {}
    <3>1. \A b \in Broadcasters : b # n => ~Connected(b)
      BY <1>1, <1>3, <2>2, OnlyTheNewest
    <3>2. Held = {}
      BY <2>1, <3>1 DEF Held
    <3> QED
      BY <1>1, <2>1, <3>2, StepOpens
  <2>3. CASE GivenUp # {}
    BY <1>1, <2>1, <2>3, StepOpens DEF GivenUp
  <2> QED
    BY <2>2, <2>3
<1>4. CASE pump[n] # "done"
  <2>1. Held' = Held
    BY <1>1, <1>2, <1>4 DEF Inv, Types, Connected, Held
  <2> QED
    BY <1>1, <2>1, StepKeeps
<1> QED
  BY <1>3, <1>4

\* A pump that dials is the newest one's: all before it are closed, unless a
\* wait was given up before or now.
LEMMA DialRefines ==
    ASSUME Inv, NEW n \in Broadcasters, n <= made, PumpDials(n) \/ WaitTimesOut(n)
    PROVE  UpstreamStep
<1>1. /\ pump[n] = "waiting" /\ pump' = [pump EXCEPT ![n] = "open"]
      /\ UNCHANGED <<made, abandoned>>
      /\ \/ torndown[predecessor[n]] /\ timedOut' = timedOut
         \/ timedOut' = timedOut \cup {n}
  BY DEF PumpDials, WaitTimesOut, Dial, ReleasedBy
<1>2. n \notin Held /\ Held' = Held \cup {n}
  BY <1>1 DEF Inv, Types, Connected, Held
<1>3. Inv'
  BY DialInv
<1>4. n = made
  BY <1>1, LiveIsNewest DEF Inv, StoppedInv
<1>5. timedOut \subseteq timedOut' /\ abandoned \subseteq abandoned'
  BY <1>1
<1>6. CASE GivenUp' = {}
  <2>1. \A b \in Broadcasters : b # n => pump'[b] = "done" \/ pump'[b] = "none"
    <3> SUFFICES ASSUME NEW b \in Broadcasters, b # n
                 PROVE  pump'[b] = "done" \/ pump'[b] = "none"
      OBVIOUS
    <3>1. CASE b < n
      BY <1>1, <1>3, <1>4, <1>6, <3>1 DEF Inv, Types, OutlivedInv, Unbroken, Broadcasters
    <3>2. CASE b > n
      BY <1>1, <1>3, <1>4, <3>2 DEF Inv, Types, ChainInv, Broadcasters
    <3> QED
      BY <3>1, <3>2 DEF Broadcasters
  <2>2. Held = {}
    BY <1>1, <1>2, <2>1 DEF Inv, Types, Connected, Held
  <2> QED
    BY <1>2, <1>5, <2>2, StepOpens
<1>7. CASE GivenUp' # {}
  BY <1>2, <1>5, <1>7, StepOpens DEF GivenUp
<1> QED
  BY <1>6, <1>7

\* Stopping a broadcaster leaves the connections as they are.
LEMMA MarkStoppedRefines ==
    ASSUME Inv, NEW n \in Broadcasters, MarkStopped(n), timedOut' = timedOut
    PROVE  UpstreamStep
<1>1. Held' = Held
  BY DEF MarkStopped, Cancelled, Inv, Types, Connected, Held
<1>2. abandoned \subseteq abandoned'
  BY DEF MarkStopped
<1> QED
  BY <1>1, <1>2, StepKeeps

\* The pumps and the history of waits stay as they are.
LEMMA PumpsKept ==
    ASSUME UNCHANGED <<pump, timedOut, abandoned>>
    PROVE  UpstreamStep
<1>1. Held' = Held
  BY DEF Connected, Held
<1> QED
  BY <1>1, StepKeeps

\* Every step is a step of the abstract upstream or a stutter.
LEMMA StepRefines == Inv /\ [Next]_vars => UpstreamStep
<1> SUFFICES ASSUME Inv, [Next]_vars PROVE UpstreamStep
  OBVIOUS
<1>1. ASSUME NEW v \in Viewers, CreateBroadcaster(v) PROVE UpstreamStep
  BY <1>1, CreateRefines
<1>2. ASSUME NEW v \in Viewers, Subscribe(v) PROVE UpstreamStep
  BY <1>2, SubscribeRefines
<1>3. ASSUME NEW v \in Viewers, Read(v) \/ ReadGone(v) \/ Disconnect(v) PROVE UpstreamStep
  BY <1>3, PumpsKept DEF Read, ReadGone, Disconnect, Unsubscribe, broadcasterVars
<1>4. ASSUME NEW b \in Broadcasters, b <= made, PumpDials(b) \/ WaitTimesOut(b) PROVE UpstreamStep
  BY <1>4, DialRefines
<1>5. ASSUME NEW b \in Broadcasters, PumpFrame(b) \/ TeardownCompletes(b) PROVE UpstreamStep
  BY <1>5, PumpsKept DEF PumpFrame, TeardownCompletes
<1>6. ASSUME NEW b \in Broadcasters, UpstreamEnds(b) PROVE UpstreamStep
  <2>1. Held' = Held
    BY <1>6 DEF UpstreamEnds, Inv, Types, Connected, Held
  <2> QED
    BY <1>6, <2>1, StepKeeps DEF UpstreamEnds
<1>7. ASSUME NEW b \in Broadcasters, PumpEnds(b) PROVE UpstreamStep
  <2>1. b \in Held /\ Held' = Held \ {b}
    BY <1>7 DEF PumpEnds, Inv, Types, Connected, Held
  <2> QED
    BY <1>7, <2>1, StepCloses DEF PumpEnds
<1>8. ASSUME NEW b \in Broadcasters, GraceThenStop(b) PROVE UpstreamStep
  BY <1>8, MarkStoppedRefines DEF GraceThenStop
<1>9. ASSUME StopCameraStream PROVE UpstreamStep
  <2>1. registry \in Broadcasters /\ MarkStopped(registry)
    BY <1>9, RegisteredIsNewest DEF StopCameraStream, Live
  <2> QED
    BY <1>9, <2>1, MarkStoppedRefines DEF StopCameraStream
<1>10. ASSUME ShutdownAll PROVE UpstreamStep
  <2>1. CASE Live(registry)
    <3>1. registry \in Broadcasters /\ MarkStopped(registry)
      BY <1>10, <2>1, RegisteredIsNewest DEF ShutdownAll, Live
    <3> QED
      BY <1>10, <3>1, MarkStoppedRefines DEF ShutdownAll
  <2>2. CASE ~Live(registry)
    BY <1>10, <2>2, PumpsKept DEF ShutdownAll
  <2> QED
    BY <2>1, <2>2
<1>11. CASE UNCHANGED vars
  BY <1>11, PumpsKept DEF vars, broadcasterVars
<1>12. 1..made \subseteq Broadcasters /\ \A b \in 1..made : b <= made
  BY CameraAssumption DEF CameraAssumption, Inv, Types, Broadcasters
<1> QED
  BY <1>1, <1>2, <1>3, <1>4, <1>5, <1>6, <1>7, <1>8, <1>9, <1>10, <1>11, <1>12 DEF Next

\* The fan-out keeps the contract of the printer's one connection.
THEOREM FanoutImplementsUpstream == Spec => SingleUpstream
<1>1. Init => Upstream!Init
  BY DEF Init, Upstream!Init, Connected
<1>2. Inv /\ [Next]_vars => [Upstream!Next]_(Upstream!vars)
  BY StepRefines DEF UpstreamStep
<1> QED
  BY <1>1, <1>2, Invariant, PTL DEF Spec, SingleUpstream, Upstream!Spec
=============================================================================
