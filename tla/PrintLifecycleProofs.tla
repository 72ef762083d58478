------------------------ MODULE PrintLifecycleProofs ------------------------
(***************************************************************************)
(* Type correctness of PrintLifecycle, its latch invariant, and the proof  *)
(* that the callbacks it fires keep the contract of PrintEvents.           *)
(***************************************************************************)
EXTENDS PrintLifecycle, TLAPS

-----------------------------------------------------------------------------
(* The inductive invariant *)

Over == Ended \cup {"IDLE", "OFF"}

\* The printer shows the file of its last print, or none after a power cycle.
PrinterInv ==
    /\ shown \in {NoJob, job}
    /\ shown = NoJob => real \in {"IDLE", "OFF"}
    /\ link => real # "OFF"

\* What the client caches is the last report, but for a presumed power-off.
CacheInv ==
    /\ current \in {NoJob, prevJob}
    /\ state \in {prev, "unknown"}
    /\ saved \in {prev, "none"} \ {"unknown"}
    /\ prev \notin {"none", "unknown", "IDLE"} => prevJob # NoJob
    /\ state \notin {"unknown", "IDLE"} => current # NoJob
    /\ saved \notin {"none", "IDLE"} => current # NoJob

\* The latches: a print is followed from its start to its completion.
LatchInv ==
    /\ running => prevJob # NoJob /\ ~triggered
    /\ prev = "RUNNING" => running
    /\ prev \in Ended => ~running

Last == log[Len(log)]

\* The last callback tells which print is followed, and no print of which the
\* completion was reported still runs.
LogInv ==
    /\ log = <<>> => ~running
    /\ log # <<>> =>
          /\ Last.job <= prevJob
          /\ running <=> Last.kind # "complete"
          /\ ~running => triggered
          /\ ~running /\ Last.job = job => real \in Over

Inv == TypeOK /\ PrinterInv /\ CacheInv /\ LatchInv /\ LogInv

-----------------------------------------------------------------------------
(* The callback log *)

\* What a callback appends is an event, and the last one.
LEMMA FiresLast ==
    ASSUME log \in Seq(Event), NEW kind \in {"start", "observed", "complete"}, NEW j \in Jobs,
           Fires(kind, j)
    PROVE  /\ log' \in Seq(Event)
           /\ log' # <<>>
           /\ Last' = [kind |-> kind, job |-> j]
<1> DEFINE e == [kind |-> kind, job |-> j]
<1>1. e \in Event
  BY DEF Event, Contract!Event
<1>2. log' = Append(log, e)
  BY DEF Fires
<1>3. Append(log, e) \in Seq(Event) /\ Len(Append(log, e)) = Len(log) + 1
  BY <1>1
<1>4. Append(log, e)[Len(log) + 1] = e
  BY <1>1
<1> HIDE DEF e
<1>5. Last' = e
  BY <1>2, <1>3, <1>4 DEF Last
<1>6. log' # <<>>
  BY <1>2, <1>3
<1> QED
  BY <1>2, <1>3, <1>5, <1>6 DEF e

\* The last callback of a client that has fired one is an event.
LEMMA LastIsEvent ==
    ASSUME log \in Seq(Event), log # <<>>
    PROVE  /\ Last \in Event
           /\ Last.kind \in {"start", "observed", "complete"}
           /\ Last.job \in Jobs
<1>1. Len(log) \in 1..Len(log)
  OBVIOUS
<1>2. Last \in Event
  BY <1>1 DEF Last
<1> QED
  BY <1>2 DEF Event, Contract!Event

-----------------------------------------------------------------------------
(* The report handler *)

\* A report is full, or partial and leaves the cache as it was.
Report(s, c) ==
    \/ s = real /\ c = shown /\ link
    \/ s = Restored /\ c = current

\* What a report leaves in the cache is well typed.
LEMMA ReportType ==
    ASSUME Inv, NEW s, NEW c, Report(s, c)
    PROVE  s \in PrinterState \cup {"unknown"} /\ c \in 0..job
BY DEF Inv, TypeOK, PrinterInv, Report, Restored, PrinterState, NoJob

\* A report that starts, observes or completes a print is a full one.
LEMMA OnlyNewsFires ==
    ASSUME Inv, NEW s, NEW c, s = Restored, c = current
    PROVE  /\ ~IsNewPrint(s, c)
           /\ ~IsFileChange(s, c)
           /\ TracksRun(s, c) => running
           /\ ~IsCompletion(s)
<1>1. s \in {prev, "unknown"}
  BY DEF Inv, CacheInv, Restored
<1>2. ~IsNewPrint(s, c) /\ (TracksRun(s, c) => running)
  BY <1>1 DEF IsNewPrint, TracksRun, Inv, LatchInv
<1>3. ~IsFileChange(s, c)
  BY DEF IsFileChange, TracksRun, Inv, CacheInv
<1>4. ~IsCompletion(s)
  BY <1>1 DEF IsCompletion, EndsPrint, Aborts, Ended
<1> QED
  BY <1>2, <1>3, <1>4

\* A completion names the print whose file was reported last.
LEMMA CompletesKnownPrint ==
    ASSUME Inv, NEW s, IsCompletion(s)
    PROVE  prevJob # NoJob /\ ~triggered
BY DEF IsCompletion, EndsPrint, Aborts, Inv, CacheInv, LatchInv

\* A run that is reported while none is followed is one of a new print.
LEMMA NewRunIsNewer ==
    ASSUME Inv, NEW s, NEW c, Report(s, c), TracksRun(s, c), log # <<>>,
           ~running \/ IsFileChange(s, c)
    PROVE  Last.job < c
<1> USE DEF NoJob, Jobs
<1>1. s = real /\ c = shown /\ c = job /\ real = "RUNNING"
  BY OnlyNewsFires DEF Report, TracksRun, Inv, PrinterInv
<1>2. Last.job \in 1..MaxJobs
  BY LastIsEvent DEF Inv, TypeOK
<1>3. job \in Nat /\ prevJob \in 0..job /\ Last.job <= prevJob
  BY LifecycleAssumption DEF Inv, TypeOK, LogInv
<1>4. Last.job <= job
  BY <1>2, <1>3
<1>5. Last.job # job
  <2>1. CASE ~running
    BY <2>1, <1>1 DEF Inv, LogInv, Over, Ended
  <2>2. CASE IsFileChange(s, c)
    BY <2>2, <1>1, <1>2, <1>3 DEF IsFileChange
  <2> QED
    BY <2>1, <2>2
<1> QED
  BY <1>1, <1>2, <1>3, <1>4, <1>5

-----------------------------------------------------------------------------
(* One report keeps the contract and the invariant *)

\* The four outcomes of a report.
LEMMA Outcomes ==
    ASSUME Inv, NEW s, NEW c, Report(s, c), UpdateState(s, c)
    PROVE  \/ /\ TracksRun(s, c)
              /\ ~running \/ IsFileChange(s, c)
              /\ Fires("start", c) \/ Fires("observed", c)
           \/ IsCompletion(s) /\ Fires("complete", prevJob)
           \/ /\ ~IsCompletion(s)
              /\ TracksRun(s, c) => running
              /\ UNCHANGED log
BY CompletesKnownPrint DEF UpdateState, IsNewPrint, IsFileChange, TracksRun

\* Completed prints are numbered.
LEMMA KnownPrint ==
    ASSUME Inv, prevJob # NoJob
    PROVE  prevJob \in Jobs
BY LifecycleAssumption DEF Inv, TypeOK, Jobs, NoJob

LEMMA ShownPrint ==
    ASSUME Inv, NEW s, NEW c, Report(s, c), c # NoJob
    PROVE  c \in Jobs
BY ReportType, LifecycleAssumption DEF Inv, TypeOK, Jobs, NoJob

\* Whatever a report fires is in order.
LEMMA ReportKeepsContract ==
    ASSUME Inv, NEW s, NEW c, Report(s, c), UpdateState(s, c)
    PROVE  [Contract!Next]_log
<1> USE DEF Inv, TypeOK
<1>1. ASSUME NEW kind \in {"start", "observed"}, Fires(kind, c), TracksRun(s, c),
             ~running \/ IsFileChange(s, c)
      PROVE  Contract!Next
  <2> DEFINE e == [kind |-> kind, job |-> c]
  <2>1. e \in Contract!Event
    BY <1>1, ShownPrint DEF TracksRun, Contract!Event
  <2>2. log = <<>> \/ Contract!Rank(Last) < Contract!Rank(e)
    <3> SUFFICES ASSUME log # <<>> PROVE Contract!Rank(Last) < Contract!Rank(e)
      OBVIOUS
    <3>1. Last.job < c
      BY <1>1, NewRunIsNewer
    <3>2. Last.job \in Int /\ c \in Int
      BY <1>1, LastIsEvent, ShownPrint DEF TracksRun, Jobs
    <3> QED
      BY <3>1, <3>2, <1>1 DEF Contract!Rank
  <2> HIDE DEF e
  <2>3. log' = Append(log, e)
    BY <1>1 DEF Fires, e
  <2> QED
    BY <2>1, <2>2, <2>3 DEF Contract!Next, Contract!Report, Last
<1>2. ASSUME IsCompletion(s), Fires("complete", prevJob)
      PROVE  Contract!Next
  <2> DEFINE e == [kind |-> "complete", job |-> prevJob]
  <2>1. prevJob \in Jobs /\ ~triggered
    BY <1>2, CompletesKnownPrint, KnownPrint
  <2>2. e \in Contract!Event
    BY <2>1 DEF Contract!Event
  <2>3. log = <<>> \/ Contract!Rank(Last) < Contract!Rank(e)
    <3> SUFFICES ASSUME log # <<>> PROVE Contract!Rank(Last) < Contract!Rank(e)
      OBVIOUS
    <3>1. Last.job <= prevJob /\ Last.kind # "complete"
      BY <2>1 DEF LogInv
    <3>2. Last.job \in Int /\ prevJob \in Int
      BY <2>1, LastIsEvent DEF Jobs
    <3> QED
      BY <3>1, <3>2 DEF Contract!Rank
  <2> HIDE DEF e
  <2>4. log' = Append(log, e)
    BY <1>2 DEF Fires, e
  <2> QED
    BY <2>2, <2>3, <2>4 DEF Contract!Next, Contract!Report, Last
<1> QED
  BY <1>1, <1>2, Outcomes

\* A report keeps the invariant.
LEMMA ReportKeepsInv ==
    ASSUME Inv, NEW s, NEW c, Report(s, c), UpdateState(s, c),
           UNCHANGED <<printerVars, link, intact>>, connected' = TRUE, saved' = "none",
           news' \in BOOLEAN
    PROVE  Inv'
<1>1. s \in PrinterState \cup {"unknown"} /\ c \in 0..job
  BY ReportType
<1>2. /\ state' = s /\ current' = c /\ prev' = s
      /\ prevJob' = IF c # NoJob THEN c ELSE prevJob
      /\ running' = (TracksRun(s, c) \/ (running /\ ~IsCompletion(s)))
      /\ triggered' = (~TracksRun(s, c) /\ (triggered \/ IsCompletion(s) \/ (s \in Ended /\ prev # s)))
  BY DEF UpdateState
<1>3. prevJob \in 0..job /\ prevJob' \in 0..job /\ job \in Nat /\ prevJob <= prevJob'
  BY <1>1, <1>2, LifecycleAssumption DEF Inv, TypeOK, CacheInv, PrinterInv, Report, NoJob
<1>4. begun' \subseteq Jobs
  BY <1>2, ShownPrint DEF UpdateState, IsNewPrint, IsFileChange, TracksRun, Inv, TypeOK
<1>5. log' \in Seq(Event)
  BY Outcomes, FiresLast, ShownPrint, CompletesKnownPrint, KnownPrint DEF TracksRun, Inv, TypeOK
<1>6. TypeOK'
  BY <1>1, <1>2, <1>3, <1>4, <1>5 DEF Inv, TypeOK, printerVars
<1>7. PrinterInv'
  BY DEF Inv, PrinterInv, printerVars
<1>8. CacheInv'
  BY <1>1, <1>2, <1>3 DEF Inv, TypeOK, CacheInv, PrinterInv, Report, Restored, NoJob, Ended, PrinterState
<1>9. LatchInv'
  BY <1>1, <1>2, <1>3, CompletesKnownPrint DEF Inv, LatchInv, CacheInv, PrinterInv, Report, Restored,
     TracksRun, IsCompletion, EndsPrint, Aborts, NoJob, Ended
<1>10. LogInv'
  <2>1. ASSUME TracksRun(s, c), ~running \/ IsFileChange(s, c),
               NEW kind \in {"start", "observed"}, Fires(kind, c)
        PROVE  LogInv'
    <3>1. log' # <<>> /\ Last' = [kind |-> kind, job |-> c]
      BY <2>1, FiresLast, ShownPrint DEF TracksRun, Inv, TypeOK
    <3>2. Last'.job = c /\ Last'.kind # "complete" /\ c \in Int
      BY <3>1, <1>1, <1>3
    <3>3. prevJob' = c /\ running'
      BY <2>1, <1>2 DEF TracksRun
    <3> HIDE DEF Last
    <3> QED
      BY <3>1, <3>2, <3>3 DEF LogInv
  <2>2. ASSUME IsCompletion(s), Fires("complete", prevJob)
        PROVE  LogInv'
    <3>1. log' # <<>> /\ Last' = [kind |-> "complete", job |-> prevJob]
      BY <2>2, FiresLast, CompletesKnownPrint, KnownPrint DEF Inv, TypeOK
    <3>2. s = real /\ s \in Ended \cup {"IDLE"}
      BY <2>2, OnlyNewsFires DEF Report, IsCompletion, EndsPrint, Aborts
    <3>3. ~TracksRun(s, c)
      BY <3>2 DEF TracksRun, Ended
    <3> QED
      BY <2>2, <3>1, <3>2, <3>3, <1>2, <1>3 DEF LogInv, Over, printerVars
  <2>3. ASSUME ~IsCompletion(s), TracksRun(s, c) => running, UNCHANGED log
        PROVE  LogInv'
    <3>1. running' = running
      BY <2>3, <1>2 DEF Inv, TypeOK
    <3>2. ~running /\ triggered => triggered'
      BY <2>3, <1>2 DEF Inv, TypeOK
    <3>3. log # <<>> => Last.job \in Int
      BY LastIsEvent DEF Inv, TypeOK, Jobs
    <3> QED
      BY <2>3, <3>1, <3>2, <3>3, <1>3 DEF Inv, LogInv, Last, printerVars
  <2> QED
    BY <2>1, <2>2, <2>3, Outcomes
<1> QED
  BY <1>6, <1>7, <1>8, <1>9, <1>10 DEF Inv

-----------------------------------------------------------------------------
(* The inductive step *)

LEMMA InitInv == Init => Inv
<1> SUFFICES ASSUME Init PROVE Inv
  OBVIOUS
<1> USE DEF Init, NoJob
<1>1. log \in Seq(Event)
  OBVIOUS
<1> HIDE DEF Event
<1>2. TypeOK
  <2>1. job \in 0..MaxJobs /\ {shown, current, prevJob} \subseteq 0..job
    BY LifecycleAssumption
  <2>2. {real, state, prev, saved} \subseteq PrinterState \cup {"unknown", "none"}
    BY DEF PrinterState
  <2> QED
    BY <1>1, <2>1, <2>2 DEF TypeOK, PrinterState
<1>3. PrinterInv /\ CacheInv /\ LatchInv /\ LogInv
  BY DEF PrinterInv, CacheInv, LatchInv, LogInv, Ended
<1> QED
  BY <1>2, <1>3 DEF Inv

\* The printer may do what it likes, as long as a print that is over stays so.
LEMMA PrinterKeepsInv ==
    ASSUME Inv, PrinterStep
    PROVE  Inv' /\ UNCHANGED log
<1> USE DEF Inv, printerVars, clientVars
<1>1. ASSUME NEW t \in PrinterState, PrinterMoves(t) PROVE Inv' /\ UNCHANGED log
  <2>1. TypeOK' /\ PrinterInv' /\ CacheInv' /\ LatchInv' /\ UNCHANGED log
    BY <1>1 DEF PrinterMoves, Moves, TypeOK, PrinterInv, CacheInv, LatchInv, PrinterState, Ended
  <2>2. real \in Over => real' \in Over
    BY <1>1 DEF PrinterMoves, Moves, Over, Ended
  <2> QED
    BY <1>1, <2>1, <2>2 DEF PrinterMoves, LogInv, Last
<1>2. ASSUME NEW t \in {"PREPARE", "RUNNING"}, TakesJob(t) PROVE Inv' /\ UNCHANGED log
  <2>1. job' = job + 1 /\ job' \in 1..MaxJobs /\ job \in Nat
    BY <1>2, LifecycleAssumption DEF TakesJob, TypeOK
  <2>2. TypeOK'
    BY <1>2, <2>1 DEF TakesJob, TypeOK, PrinterState
  <2>3. PrinterInv' /\ CacheInv' /\ LatchInv' /\ UNCHANGED log
    BY <1>2, <2>1 DEF TakesJob, PrinterInv, CacheInv, LatchInv, NoJob
  <2>4. prevJob < job'
    BY <2>1 DEF TypeOK
  <2>5. log # <<>> => Last.job \in Int
    BY LastIsEvent DEF TypeOK, Jobs
  <2>6. log # <<>> => Last.job # job'
    BY <2>1, <2>4, <2>5 DEF LogInv, TypeOK
  <2> QED
    BY <1>2, <2>2, <2>3, <2>6 DEF TakesJob, LogInv, Last
<1>3. CASE PowerOff
  BY <1>3 DEF PowerOff, TypeOK, PrinterInv, CacheInv, LatchInv, LogInv, Last, Over
<1>4. CASE PowerOn
  BY <1>4, LifecycleAssumption DEF PowerOn, TypeOK, PrinterInv, CacheInv, LatchInv, LogInv, Last, Over,
     PrinterState, NoJob
<1> QED
  BY <1>1, <1>2, <1>3, <1>4 DEF PrinterStep

\* The session and the power-off mark touch neither the latches nor the log.
LEMMA SessionKeepsInv ==
    ASSUME Inv, LinkDrops \/ OnDisconnect \/ OnConnect \/ MarkPowerOff
    PROVE  Inv' /\ UNCHANGED log
<1>1. /\ UNCHANGED <<job, real, shown, file, current, prev, prevJob, running, triggered, log, begun>>
      /\ link' \in BOOLEAN /\ news' \in BOOLEAN /\ connected' \in BOOLEAN /\ intact' \in BOOLEAN
      /\ link' => real # "OFF"
  <2> USE DEF Inv, TypeOK, PrinterInv, printerVars, clientVars
  <2>1. CASE LinkDrops
    BY <2>1 DEF LinkDrops
  <2>2. CASE OnDisconnect
    BY <2>2 DEF OnDisconnect
  <2>3. CASE OnConnect
    BY <2>3 DEF OnConnect
  <2>4. CASE MarkPowerOff
    BY <2>4 DEF MarkPowerOff
  <2> QED
    BY <2>1, <2>2, <2>3, <2>4
<1>2. LogInv' /\ LatchInv'
  BY <1>1 DEF Inv, LogInv, Last, LatchInv
<1>3. PrinterInv'
  BY <1>1 DEF Inv, PrinterInv
<1>4. CacheInv' /\ state' \in PrinterState \cup {"unknown"} /\ saved' \in PrinterState \cup {"none"}
  <2>1. CASE LinkDrops \/ OnDisconnect \/ OnConnect
    <3>1. state' = state /\ saved' \in {saved, "none"}
      BY <2>1 DEF LinkDrops, OnDisconnect, OnConnect, clientVars
    <3> QED
      BY <1>1, <3>1 DEF Inv, TypeOK, CacheInv
  <2>2. CASE MarkPowerOff
    BY <1>1, <2>2 DEF MarkPowerOff, SavedOnMark, Inv, TypeOK, CacheInv, PrinterState, Ended
  <2> QED
    BY <2>1, <2>2
<1>5. TypeOK'
  BY <1>1, <1>4 DEF Inv, TypeOK
<1> QED
  BY <1>1, <1>2, <1>3, <1>4, <1>5 DEF Inv

LEMMA RestartKeepsInv ==
    ASSUME Inv, Restart
    PROVE  Inv' /\ log' = <<>>
<1>1. log' \in Seq(Event) /\ log' = <<>>
  BY DEF Restart
<1>2. PrinterInv'
  BY DEF Restart, Inv, PrinterInv, printerVars, NoJob
<1>3. TypeOK'
  <2>1. UNCHANGED <<real, job, shown, file, begun>> /\ {0} \subseteq 0..job
    BY LifecycleAssumption DEF Restart, Inv, TypeOK, printerVars
  <2> QED
    BY <1>1, <2>1 DEF Restart, Inv, TypeOK, NoJob
<1>4. CacheInv' /\ LatchInv' /\ LogInv'
  BY DEF Restart, CacheInv, LatchInv, LogInv, NoJob, Ended
<1> QED
  BY <1>1, <1>2, <1>3, <1>4 DEF Inv

\* A step keeps the invariant, and what it does to the log is in the contract.
LEMMA Step ==
    ASSUME Inv, [Next]_vars
    PROVE  Inv' /\ [Contract!Next]_log
<1>1. CASE PrinterStep
  BY <1>1, PrinterKeepsInv
<1>2. CASE LinkDrops \/ OnDisconnect \/ OnConnect \/ MarkPowerOff
  BY <1>2, SessionKeepsInv
<1>3. CASE FullReport
  <2>1. Report(real, shown) /\ UpdateState(real, shown)
    BY <1>3 DEF FullReport, Report
  <2>2. Inv'
    BY <1>3, <2>1, ReportKeepsInv DEF FullReport
  <2> QED
    BY <2>1, <2>2, ReportKeepsContract
<1>4. CASE PartialReport
  <2>1. Report(Restored, current) /\ UpdateState(Restored, current)
    BY <1>4 DEF PartialReport, Report
  <2>2. Inv'
    BY <1>4, <2>1, ReportKeepsInv DEF PartialReport, Inv, TypeOK
  <2> QED
    BY <2>1, <2>2, ReportKeepsContract
<1>5. CASE Restart
  BY <1>5, RestartKeepsInv DEF Contract!Next, Contract!NewClient
<1>6. CASE UNCHANGED vars
  BY <1>6 DEF vars, printerVars, clientVars, Inv, TypeOK, PrinterInv, CacheInv, LatchInv, LogInv, Last
<1> QED
  BY <1>1, <1>2, <1>3, <1>4, <1>5, <1>6 DEF Next, ClientStep

LEMMA Invariance == Spec => []Inv
<1>1. Init => Inv
  BY InitInv
<1>2. Inv /\ [Next]_vars => Inv'
  BY Step
<1> QED
  BY <1>1, <1>2, PTL DEF Spec

-----------------------------------------------------------------------------
(* The theorems *)

\* Every reachable state of the client and of its callback log is well typed:
\* a completion always names a print, and a restored state is one the printer
\* had reported.
THEOREM TypeCorrect == Spec => []TypeOK
<1>1. Inv => TypeOK
  BY DEF Inv
<1> QED
  BY <1>1, Invariance, PTL

\* No latch outlives a reported end, so a later start is never swallowed.
THEOREM LatchFalls == Spec => []RunEndsWithPrint
<1>1. Inv => RunEndsWithPrint
  BY DEF Inv, CacheInv, LatchInv, RunEndsWithPrint, Ended
<1> QED
  BY <1>1, Invariance, PTL

\* The client implements the contract of PrintEvents: one start and one
\* completion at most per print, in the order of the prints, whatever the
\* session, the plug and the printer do.
THEOREM ClientKeepsContract == Spec => EventsInOrder
<1>1. Init => Contract!Init
  BY DEF Init, Contract!Init
<1>2. Inv /\ [Next]_vars => [Contract!Next]_log
  BY Step
<1> QED
  BY <1>1, <1>2, Invariance, PTL DEF Spec, EventsInOrder, Contract!Spec

-----------------------------------------------------------------------------
(* As long as the session holds *)

Seen == prev \notin {"none", "unknown"}

\* Callbacks are about prints whose file was reported.
KnownJobs == \A k \in DOMAIN log : log[k].job <= prevJob

\* Before the first session the client knows nothing, nor before its first
\* full report.
FreshInv ==
    intact /\ (~link \/ ~Seen) =>
        /\ news /\ (~link => ~connected)
        /\ state = "unknown" /\ saved = "none" /\ prev \in {"none", "unknown"}
        /\ prevJob = NoJob /\ ~running /\ ~triggered /\ log = <<>>

\* From then on it is at most one change behind the printer.
AbreastInv ==
    intact /\ Seen =>
        /\ state = "unknown" => saved # "none"
        /\ shown = NoJob => prevJob = NoJob
        /\ ~news => prev = real
        /\ news => \/ <<prev, real>> \in Moves
                   \/ prev \in Ended \cup {"IDLE"} /\ real \in {"PREPARE", "RUNNING"}
        /\ prev \in {"IDLE", "PREPARE"} => ~running
        /\ prevJob # job /\ shown # NoJob =>
              news /\ prev \in Ended \cup {"IDLE"} /\ real \in {"PREPARE", "RUNNING"}

\* The print followed is the one reported last, and one that is not followed
\* any more was completed.
FollowedInv ==
    intact =>
        /\ running => Last.job = prevJob
        /\ ~running /\ InLog({"start", "observed"}, prevJob) => InLog({"complete"}, prevJob)

TrackInv == Inv /\ KnownJobs /\ FreshInv /\ AbreastInv /\ FollowedInv

\* What InLog says after a callback.
LEMMA FiresInLog ==
    ASSUME log \in Seq(Event), NEW kind \in {"start", "observed", "complete"}, NEW j \in Jobs,
           Fires(kind, j), KnownJobs, NEW m \in Nat, prevJob <= m, j <= m, prevJob \in Nat
    PROVE  /\ \A k \in DOMAIN log' : log'[k].job <= m
           /\ \E k \in DOMAIN log' : log'[k].kind = kind /\ log'[k].job = j
<1> DEFINE e == [kind |-> kind, job |-> j]
<1>1. e \in Event /\ e.kind = kind /\ e.job = j
  BY DEF Event, Contract!Event
<1> HIDE DEF e
<1>2. log' = Append(log, e)
  BY DEF Fires, e
<1>3. /\ DOMAIN log' = 1..(Len(log) + 1)
      /\ DOMAIN log = 1..Len(log) /\ Len(log) \in Nat
      /\ \A k \in 1..Len(log) : log'[k] = log[k]
      /\ log'[Len(log) + 1] = e
  BY <1>1, <1>2
<1>4. ASSUME NEW k \in DOMAIN log' PROVE log'[k].job <= m
  <2>1. CASE k = Len(log) + 1
    BY <2>1, <1>1, <1>3
  <2>2. CASE k \in 1..Len(log)
    <3>1. log[k] \in Event
      BY <2>2
    <3>2. log[k].job \in Nat
      BY <3>1, LifecycleAssumption DEF Event, Contract!Event, Jobs
    <3> QED
      BY <2>2, <3>2, <1>3 DEF KnownJobs
  <2> QED
    BY <2>1, <2>2, <1>3
<1> QED
  BY <1>1, <1>3, <1>4

LEMMA FreshStart == Init => KnownJobs /\ FreshInv /\ AbreastInv /\ FollowedInv
BY DEF Init, KnownJobs, FreshInv, AbreastInv, FollowedInv, Seen, InLog, NoJob

\* What a step leaves alone that fires nothing.
LEMMA LogKept ==
    ASSUME TypeOK, KnownJobs, FollowedInv, UNCHANGED <<log, prevJob, running>>,
           intact' \in {intact, FALSE}
    PROVE  KnownJobs' /\ FollowedInv'
<1>1. KnownJobs'
  BY DEF KnownJobs
<1>2. Last' = Last
  BY DEF Last
<1>3. \A K : InLog(K, prevJob)' = InLog(K, prevJob)
  BY DEF InLog
<1>4. FollowedInv'
  BY <1>2, <1>3 DEF FollowedInv
<1> QED
  BY <1>1, <1>4

\* The client gets ahead of neither the printer nor the log.
LEMMA PrinterKeepsTrack ==
    ASSUME TrackInv, PrinterStep
    PROVE  KnownJobs' /\ FreshInv' /\ AbreastInv' /\ FollowedInv'
<1> USE DEF TrackInv, Inv
<1>1. /\ UNCHANGED clientVars
      /\ UNCHANGED <<saved, connected>>
      /\ intact' \in {intact, FALSE}
      /\ intact' => link' = link
  BY DEF PrinterStep, PrinterMoves, TakesJob, PowerOff, PowerOn
<1>2. KnownJobs' /\ FollowedInv'
  BY <1>1, LogKept DEF clientVars
<1>3. FreshInv'
  <2> SUFFICES ASSUME intact', ~link' \/ ~Seen'
               PROVE  FreshInv'
    BY DEF FreshInv
  <2>0. intact /\ link' = link /\ prev' = prev
    BY <1>1 DEF clientVars, TypeOK
  <2>1. intact /\ (~link \/ ~Seen) /\ link' = link
    BY <2>0 DEF Seen
  <2>2. ~PowerOff
    BY DEF PowerOff
  <2>3. news'
    BY <2>1, <2>2 DEF PrinterStep, PrinterMoves, TakesJob, PowerOn
  <2> QED
    BY <1>1, <2>1, <2>3 DEF FreshInv, clientVars
<1>4. ASSUME intact', Seen' PROVE link /\ intact /\ Seen
  BY <1>1, <1>4 DEF FreshInv, Seen, clientVars, TypeOK
<1>5. AbreastInv'
  <2> SUFFICES ASSUME intact', Seen' PROVE AbreastInv'
    BY DEF AbreastInv
  <2>1. link /\ intact /\ Seen
    BY <1>4
  <2>2. ASSUME NEW t \in PrinterState, PrinterMoves(t) PROVE AbreastInv'
    BY <2>1, <2>2 DEF AbreastInv, PrinterMoves, Reported, clientVars, Seen
  <2>3. ASSUME NEW t \in {"PREPARE", "RUNNING"}, TakesJob(t) PROVE AbreastInv'
    BY <2>1, <2>3 DEF AbreastInv, TakesJob, Reported, clientVars, Seen, NoJob, TypeOK
  <2>4. CASE PowerOff
    BY <2>4 DEF PowerOff
  <2>5. CASE PowerOn
    BY <2>1, <2>5 DEF PowerOn, PrinterInv
  <2> QED
    BY <2>2, <2>3, <2>4, <2>5 DEF PrinterStep
<1> QED
  BY <1>2, <1>3, <1>5

LEMMA SessionKeepsTrack ==
    ASSUME TrackInv, LinkDrops \/ OnDisconnect \/ OnConnect \/ MarkPowerOff
    PROVE  KnownJobs' /\ FreshInv' /\ AbreastInv' /\ FollowedInv'
<1> USE DEF TrackInv, Inv
<1>1. /\ UNCHANGED <<real, job, shown, prev, prevJob, running, triggered, log>>
      /\ intact' \in {intact, FALSE}
  BY DEF LinkDrops, OnDisconnect, OnConnect, MarkPowerOff, printerVars, clientVars
<1>2. KnownJobs' /\ FollowedInv'
  BY <1>1, LogKept
<1>3. FreshInv'
  <2>1. CASE LinkDrops
    BY <2>1 DEF LinkDrops, FreshInv
  <2>2. CASE OnDisconnect
    BY <2>2, <1>1 DEF OnDisconnect, FreshInv, Seen, clientVars
  <2>3. CASE OnConnect
    BY <2>3, <1>1 DEF OnConnect, FreshInv, Seen, clientVars
  <2>4. CASE MarkPowerOff
    BY <2>4, <1>1 DEF MarkPowerOff, SavedOnMark, FreshInv, Seen
  <2> QED
    BY <2>1, <2>2, <2>3, <2>4
<1>4. AbreastInv'
  <2>1. CASE LinkDrops
    BY <2>1 DEF LinkDrops, AbreastInv
  <2>2. CASE OnDisconnect
    BY <2>2, <1>1 DEF OnDisconnect, AbreastInv, Seen, clientVars
  <2>3. CASE OnConnect
    BY <2>3, <1>1 DEF OnConnect, FreshInv, AbreastInv, Seen, clientVars
  <2>4. CASE MarkPowerOff
    <3>1. intact /\ Seen => saved' # "none"
      BY <2>4 DEF MarkPowerOff, SavedOnMark, AbreastInv, TypeOK, PrinterState, Ended
    <3>2. UNCHANGED <<news, intact>>
      BY <2>4 DEF MarkPowerOff
    <3> QED
      BY <1>1, <3>1, <3>2 DEF AbreastInv, Seen
  <2> QED
    BY <2>1, <2>2, <2>3, <2>4
<1> QED
  BY <1>2, <1>3, <1>4

\* A partial report repeats what the client knows.
LEMMA PartialKeepsTrack ==
    ASSUME TrackInv, PartialReport
    PROVE  KnownJobs' /\ FreshInv' /\ AbreastInv' /\ FollowedInv'
<1> USE DEF TrackInv
<1> DEFINE s == Restored
           c == current
<1>1. /\ ~IsNewPrint(s, c) /\ ~IsFileChange(s, c) /\ ~IsCompletion(s)
      /\ TracksRun(s, c) => running
  BY OnlyNewsFires
<1>2. /\ state' = s /\ prev' = s
      /\ prevJob' = IF c # NoJob THEN c ELSE prevJob
      /\ running' = (TracksRun(s, c) \/ (running /\ ~IsCompletion(s)))
      /\ triggered' = (~TracksRun(s, c) /\ (triggered \/ IsCompletion(s) \/ (s \in Ended /\ prev # s)))
      /\ link /\ saved' = "none"
      /\ UNCHANGED <<real, job, shown, link, news, intact>>
  BY DEF PartialReport, UpdateState, printerVars
<1>3. UNCHANGED log
  BY <1>1 DEF PartialReport, UpdateState
<1>4. running' = running /\ prevJob' = prevJob
  BY <1>1, <1>2 DEF Inv, TypeOK, CacheInv
<1>5. KnownJobs' /\ FollowedInv'
  BY <1>2, <1>3, <1>4 DEF KnownJobs, FollowedInv, InLog, Last
<1>6. ASSUME intact, Seen PROVE s = prev
  BY <1>6 DEF Restored, Inv, CacheInv, AbreastInv
<1>7. ASSUME intact, ~Seen PROVE s = "unknown"
  BY <1>7 DEF Restored, FreshInv
<1> HIDE DEF s, c
<1>8. FreshInv'
  BY <1>1, <1>2, <1>3, <1>4, <1>6, <1>7 DEF FreshInv, Seen, Ended
<1>9. AbreastInv'
  BY <1>2, <1>4, <1>6, <1>7 DEF AbreastInv, Seen
<1> QED
  BY <1>5, <1>8, <1>9

\* A full report catches up with the printer.
LEMMA FullKeepsTrack ==
    ASSUME TrackInv, FullReport
    PROVE  KnownJobs' /\ FreshInv' /\ AbreastInv' /\ FollowedInv'
<1> USE DEF TrackInv
<1> DEFINE s == real
           c == shown
<1>1. Report(s, c) /\ UpdateState(s, c)
  BY DEF FullReport, Report
<1>2. /\ state' = s /\ prev' = s
      /\ prevJob' = IF c # NoJob THEN c ELSE prevJob
      /\ running' = (TracksRun(s, c) \/ (running /\ ~IsCompletion(s)))
      /\ link /\ ~news' /\ saved' = "none"
      /\ UNCHANGED <<real, job, shown, link, intact>>
  BY DEF FullReport, UpdateState, printerVars
<1>3. /\ s \in PrinterState /\ c \in {NoJob, job}
      /\ prevJob \in Nat /\ prevJob <= job /\ job \in Nat
      /\ prevJob' \in Nat /\ prevJob <= prevJob' /\ prevJob' <= job
  BY <1>2, LifecycleAssumption DEF Inv, TypeOK, PrinterInv, NoJob
<1>4. \/ /\ TracksRun(s, c) /\ c \in Jobs /\ c <= prevJob' /\ c = prevJob'
         /\ Fires("start", c) \/ Fires("observed", c)
      \/ IsCompletion(s) /\ prevJob \in Jobs /\ Fires("complete", prevJob)
      \/ /\ ~IsCompletion(s)
         /\ TracksRun(s, c) => running
         /\ UNCHANGED log
  BY <1>1, <1>2, <1>3, Outcomes, ShownPrint, CompletesKnownPrint, KnownPrint DEF TracksRun
<1>5. KnownJobs'
  <2>1. ASSUME UNCHANGED log PROVE KnownJobs'
    <3> SUFFICES ASSUME NEW k \in DOMAIN log PROVE log[k].job <= prevJob'
      BY <2>1 DEF KnownJobs
    <3>1. log[k] \in Event
      BY DEF Inv, TypeOK
    <3>2. log[k].job \in Nat /\ log[k].job <= prevJob
      BY <3>1, LifecycleAssumption DEF KnownJobs, Event, Contract!Event, Jobs
    <3> QED
      BY <3>2, <1>3
  <2> QED
    BY <1>3, <1>4, <2>1, FiresInLog DEF KnownJobs, Inv, TypeOK
<1>6. FreshInv'
  BY <1>2, <1>3 DEF FreshInv, Seen, PrinterState, Ended
<1>7. ASSUME intact, running PROVE Seen /\ prevJob' = prevJob
  BY <1>7, <1>2, <1>3 DEF FreshInv, AbreastInv, Inv, LatchInv
<1>8. ASSUME intact, real \in {"IDLE", "PREPARE"} PROVE ~running'
  <2>1. ~TracksRun(s, c)
    BY <1>8 DEF TracksRun
  <2>2. ASSUME running PROVE prev = "RUNNING" /\ real = "IDLE"
    <3>1. Seen
      BY <1>7, <1>8, <2>2
    <3> QED
      BY <2>2, <3>1, <1>8 DEF AbreastInv, Moves, Inv, LatchInv, Ended
  <2>3. running => IsCompletion(s)
    BY <2>2 DEF IsCompletion, Aborts, Inv, LatchInv
  <2> QED
    BY <1>2, <2>1, <2>3 DEF Inv, TypeOK
<1>9. AbreastInv'
  <2>1. shown = NoJob /\ intact => prevJob' = NoJob
    BY <1>2 DEF FreshInv, AbreastInv
  <2> QED
    BY <1>2, <1>3, <1>8, <2>1 DEF AbreastInv, PrinterState, Ended
<1>10. FollowedInv'
  <2> SUFFICES ASSUME intact PROVE FollowedInv'
    BY <1>2 DEF FollowedInv
  <2>1. ASSUME TracksRun(s, c), c \in Jobs, c = prevJob', NEW kind \in {"start", "observed"},
               Fires(kind, c)
        PROVE  FollowedInv'
    <3>1. Last' = [kind |-> kind, job |-> c]
      BY <2>1, FiresLast DEF Inv, TypeOK
    <3>2. running'
      BY <2>1, <1>2
    <3> HIDE DEF Last
    <3> QED
      BY <2>1, <3>1, <3>2 DEF FollowedInv
  <2>2. ASSUME IsCompletion(s), prevJob \in Jobs, Fires("complete", prevJob)
        PROVE  FollowedInv'
    <3>1. s \in Ended \cup {"IDLE"} /\ ~TracksRun(s, c)
      BY <2>2 DEF IsCompletion, EndsPrint, Aborts, TracksRun, Ended
    <3>2. Seen
      BY <2>2 DEF IsCompletion, EndsPrint, Aborts, FreshInv, Seen
    <3>3. prevJob' = prevJob /\ ~running'
      BY <2>2, <3>1, <3>2, <1>2, <1>3 DEF AbreastInv, Ended
    <3>4. InLog({"complete"}, prevJob)'
      BY <2>2, <3>3, <1>3, FiresInLog DEF InLog, Inv, TypeOK
    <3> QED
      BY <3>3, <3>4 DEF FollowedInv
  <2>3. ASSUME ~IsCompletion(s), TracksRun(s, c) => running, UNCHANGED log
        PROVE  FollowedInv'
    <3>1. running' = running
      BY <2>3, <1>2 DEF Inv, TypeOK
    <3>2. CASE running
      BY <3>1, <3>2, <2>3, <1>7 DEF FollowedInv, Last
    <3>3. CASE ~running /\ prevJob' = prevJob
      BY <3>1, <3>3, <2>3 DEF FollowedInv, InLog
    <3>4. CASE ~running /\ prevJob' # prevJob
      <4>1. ASSUME NEW k \in DOMAIN log PROVE log[k].job # prevJob'
        <5>1. log[k] \in Event
          BY DEF Inv, TypeOK
        <5>2. log[k].job \in Nat /\ log[k].job <= prevJob
          BY <5>1, LifecycleAssumption DEF KnownJobs, Event, Contract!Event, Jobs
        <5> QED
          BY <5>2, <3>4, <1>3
      <4> QED
        BY <4>1, <3>1, <3>4, <2>3 DEF FollowedInv, InLog
    <3> QED
      BY <3>2, <3>3, <3>4
  <2> QED
    BY <2>1, <2>2, <2>3, <1>4
<1> QED
  BY <1>5, <1>6, <1>9, <1>10

LEMMA TrackStep ==
    ASSUME TrackInv, [Next]_vars
    PROVE  TrackInv'
<1>1. Inv'
  BY Step DEF TrackInv
<1>2. KnownJobs' /\ FreshInv' /\ AbreastInv' /\ FollowedInv'
  <2>1. CASE Restart
    BY <2>1 DEF Restart, KnownJobs, FreshInv, AbreastInv, FollowedInv, Seen, InLog, NoJob
  <2>2. CASE UNCHANGED vars
    BY <2>2 DEF vars, printerVars, clientVars, TrackInv, KnownJobs, FreshInv, AbreastInv, FollowedInv,
       Seen, InLog, Last
  <2> QED
    BY <2>1, <2>2, PrinterKeepsTrack, SessionKeepsTrack, PartialKeepsTrack, FullKeepsTrack
    DEF Next, ClientStep
<1> QED
  BY <1>1, <1>2 DEF TrackInv

LEMMA TrackImplies ==
    ASSUME TrackInv
    PROVE  TrackedWhileConnected
<1> USE DEF TrackInv
<1> SUFFICES ASSUME intact, link, ~news
             PROVE  /\ real = "RUNNING" => InLog({"start", "observed"}, job)
                    /\ real \in Ended \cup {"IDLE"} /\ InLog({"start", "observed"}, job)
                           => InLog({"complete"}, job)
  BY DEF TrackedWhileConnected
<1>1. Seen /\ prev = real /\ (prevJob = job \/ (shown = NoJob /\ prevJob = NoJob))
  <2>1. Seen
    BY DEF FreshInv
  <2>2. prev = real /\ (shown = NoJob => prevJob = NoJob) /\ (shown # NoJob => prevJob = job)
    BY <2>1 DEF AbreastInv
  <2> QED
    BY <2>1, <2>2
<1>2. ASSUME real = "RUNNING" PROVE InLog({"start", "observed"}, job)
  <2>1. running /\ prevJob = job /\ log # <<>>
    BY <1>1, <1>2 DEF Inv, LatchInv, PrinterInv, LogInv
  <2>2. Last.job = job /\ Last.kind \in {"start", "observed"}
    BY <2>1, LastIsEvent DEF FollowedInv, Inv, TypeOK, LogInv
  <2>3. Len(log) \in DOMAIN log
    BY <2>1 DEF Inv, TypeOK
  <2> QED
    BY <2>2, <2>3 DEF InLog, Last
<1>3. ASSUME real \in Ended \cup {"IDLE"}, InLog({"start", "observed"}, job)
      PROVE  InLog({"complete"}, job)
  <2>1. ~running
    BY <1>1, <1>3 DEF AbreastInv, Inv, LatchInv
  <2>2. PICK k \in DOMAIN log : log[k].job = job
    BY <1>3 DEF InLog
  <2>3. log[k] \in Event
    BY DEF Inv, TypeOK
  <2>4. job \in Jobs /\ job <= prevJob
    BY <2>2, <2>3 DEF Event, Contract!Event, KnownJobs
  <2>5. prevJob = job
    BY <2>4, <1>1 DEF Jobs, NoJob
  <2> QED
    BY <1>3, <2>1, <2>5 DEF FollowedInv
<1> QED
  BY <1>2, <1>3

\* While the session holds no print that runs goes unreported and no end of a
\* reported print is missed.
THEOREM NothingMissed == Spec => []TrackedWhileConnected
<1>1. Init => TrackInv
  BY InitInv, FreshStart DEF TrackInv
<1>2. TrackInv /\ [Next]_vars => TrackInv'
  BY TrackStep
<1>3. TrackInv => TrackedWhileConnected
  BY TrackImplies
<1> QED
  BY <1>1, <1>2, <1>3, PTL DEF Spec
=============================================================================
