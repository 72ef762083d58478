------------------------- MODULE SmartPlugOffProofs -------------------------
(***************************************************************************)
(* Pending power-offs, for any number of tasks, prints, polls and waiting  *)
(* callbacks: what is in the registry can still be cancelled, and what can *)
(* be cancelled is in it unless one task has replaced another; the flag    *)
(* that survives a restart tells whether one is pending; and the power-off *)
(* of a completed print never hits a printer that prints or whose last     *)
(* print failed.                                                           *)
(***************************************************************************)
EXTENDS SmartPlugOff, SequenceTheorems, TLAPS

-----------------------------------------------------------------------------
(* The inductive invariant *)

Callbacks == {"start", "completed", "failed", "dry"}
Causes == {"none", "auto", "queue", "dry", "resume", "startup"}

SettingTypes ==
    /\ mode \in {"time", "temperature"} /\ uses \subseteq {"auto", "queue", "dry"}
    /\ auto \in BOOLEAN
PrinterTypes ==
    /\ power \in BOOLEAN /\ printing \in BOOLEAN /\ known \in BOOLEAN
    /\ printing => power
    /\ prints \in 0..MaxPrints /\ lastEnd \in {"none", "completed", "failed"}
InboxType == inbox \in Seq(Callbacks)
TaskTypes ==
    /\ created \in 0..MaxTasks
    /\ phase \in [Tasks -> Phase]
    /\ cause \in [Tasks -> Causes]
    /\ polls \in [Tasks -> 0..MaxPolls]
    /\ entry \in 0..created
FlagTypes == flag \in BOOLEAN /\ marks \in Seq(BOOLEAN) /\ resuming \in BOOLEAN
HistoryType == mishaps \subseteq Mishap

Types == SettingTypes /\ PrinterTypes /\ InboxType /\ TaskTypes /\ FlagTypes /\ HistoryType

\* Types is TypeOK, one set at a time.
LEMMA TypesAreTypeOK == Types <=> TypeOK
BY DEF Types, TypeOK, SettingTypes, PrinterTypes, InboxType, TaskTypes, FlagTypes, HistoryType,
       Callbacks, Causes

\* Tasks are created in order, and the registered one is live and is not the
\* startup's own, whose end does not clear the registry.
RegistryInv ==
    /\ \A t \in Tasks : t > created => phase[t] = "none"
    /\ entry # None => Live(entry) /\ cause[entry] # "startup"
    /\ TimerIsCancellable

-----------------------------------------------------------------------------
(* Types *)

\* Taking one element out of a sequence leaves a sequence of the same set.
LEMMA TakenOut ==
    ASSUME NEW S, NEW s \in Seq(S), NEW k \in DOMAIN s
    PROVE  [n \in 1..(Len(s) - 1) |-> IF n < k THEN s[n] ELSE s[n + 1]] \in Seq(S)
<1> DEFINE f == [n \in 1..(Len(s) - 1) |-> IF n < k THEN s[n] ELSE s[n + 1]]
<1>1. Len(s) \in Nat /\ DOMAIN s = 1..Len(s)
  BY LenProperties
<1>2. Len(s) - 1 \in Nat
  BY <1>1
<1>3. ASSUME NEW n \in 1..(Len(s) - 1) PROVE f[n] \in S
  <2>1. n \in DOMAIN s /\ n + 1 \in DOMAIN s
    BY <1>1
  <2> QED
    BY <2>1, ElementOfSeq, <1>1
<1>4. f \in [1..(Len(s) - 1) -> S]
  BY <1>3
<1> QED
  BY <1>2, <1>4

\* A callback that is told or taken.
LEMMA InboxSteps ==
    ASSUME InboxType
    PROVE  /\ \A e \in Callbacks : Tell(e) => InboxType'
           /\ \A k : Take(k) => InboxType'
<1>1. ASSUME NEW e \in Callbacks, Tell(e) PROVE InboxType'
  BY <1>1, AppendProperties DEF Tell, InboxType
<1>2. ASSUME NEW k, Take(k) PROVE InboxType'
  BY <1>2, TakenOut DEF Take, InboxType
<1> QED
  BY <1>1, <1>2

\* A task that ends and the history it leaves.
LEMMA EndsTypes ==
    ASSUME TaskTypes, NEW t \in Tasks, Ends(t), UNCHANGED <<created, cause, polls>>
    PROVE  TaskTypes'
BY DEF TaskTypes, Ends, Phase, None

\* A flag that is cleared keeps the history typed.
LEMMA ClearsTypes ==
    ASSUME HistoryType, NEW others, Clears(others)
    PROVE  HistoryType' /\ flag' = FALSE
BY DEF HistoryType, Clears, Mishap

\* Cancelling an entry keeps the types.
LEMMA CancelTypes ==
    ASSUME TaskTypes, FlagTypes, CancelPendingOff, UNCHANGED <<created, cause, polls>>
    PROVE  TaskTypes' /\ marks' \in Seq(BOOLEAN)
<1>1. TaskTypes'
  <2>1. phase' \in [Tasks -> Phase]
    BY DEF TaskTypes, CancelPendingOff, Phase
  <2>2. entry' \in 0..created'
    <3>1. entry' = entry \/ entry' = 0
      BY DEF CancelPendingOff, None
    <3> QED
      BY <3>1, PlugAssumption DEF PlugAssumption, TaskTypes
  <2> QED
    BY <2>1, <2>2 DEF TaskTypes
<1>2. marks' \in Seq(BOOLEAN)
  BY AppendProperties DEF FlagTypes, CancelPendingOff
<1> QED
  BY <1>1, <1>2

\* Scheduling a task keeps the types.
LEMMA ScheduleTypes ==
    ASSUME TaskTypes, FlagTypes, NEW why \in Causes, NEW seen \in SUBSET Mishap,
           ScheduleOff(why, seen)
    PROVE  TaskTypes' /\ marks' \in Seq(BOOLEAN) /\ HistoryType'
<1>1. PICK t \in Tasks : t = created + 1 /\ created' = t
  BY DEF ScheduleOff
<1>2. /\ phase' = [s \in Tasks |-> IF s = t THEN "waiting" ELSE IF s = entry THEN "over" ELSE phase[s]]
      /\ cause' = [cause EXCEPT ![t] = why]
      /\ polls' = [polls EXCEPT ![t] = 0]
      /\ entry' = Registered(t)
  BY <1>1 DEF ScheduleOff
<1>3. TaskTypes'
  <2>1. phase' \in [Tasks -> Phase]
    BY <1>2 DEF TaskTypes, Phase
  <2>2. cause' \in [Tasks -> Causes]
    BY <1>2 DEF TaskTypes
  <2>3. polls' \in [Tasks -> 0..MaxPolls]
    BY <1>2, PlugAssumption DEF TaskTypes, PlugAssumption
  <2>4. created' \in 0..MaxTasks /\ entry' \in 0..created'
    BY <1>1, <1>2, PlugAssumption DEF PlugAssumption, Registered, None, Tasks
  <2> QED
    BY <2>1, <2>2, <2>3, <2>4 DEF TaskTypes
<1>4. marks' \in Seq(BOOLEAN)
  <2>1. CASE entry = None
    BY <2>1, AppendProperties DEF FlagTypes, ScheduleOff
  <2>2. CASE entry # None
    <3>1. marks' = marks \o <<FALSE, TRUE>>
      BY <2>2 DEF ScheduleOff
    <3>2. <<FALSE, TRUE>> \in Seq(BOOLEAN)
      OBVIOUS
    <3> QED
      BY <3>1, <3>2, ConcatProperties DEF FlagTypes
  <2> QED
    BY <2>1, <2>2
<1>5. HistoryType'
  BY DEF ScheduleOff, HistoryType, Mishap
<1> QED
  BY <1>3, <1>4, <1>5

\* Every step keeps the types.
LEMMA TypesStep ==
    ASSUME Types, [Next]_vars
    PROVE  Types'
<1> USE DEF Types
<1>1. CASE PrintStarts
  <2>1. HistoryType' /\ PrinterTypes'
    BY <1>1, PlugAssumption DEF PlugAssumption, PrintStarts, Tell, HistoryType, Mishap, PrinterTypes
  <2> QED
    BY <1>1, <2>1, InboxSteps DEF PrintStarts, settings, taskVars, SettingTypes, TaskTypes, FlagTypes, Callbacks
<1>2. ASSUME NEW how \in {"completed", "failed"}, PrintEnds(how) PROVE Types'
  <2>1. HistoryType' /\ PrinterTypes'
    BY <1>2 DEF PrintEnds, Tell, HistoryType, Mishap, PrinterTypes
  <2> QED
    BY <1>2, <2>1, InboxSteps DEF PrintEnds, settings, taskVars, SettingTypes, TaskTypes, FlagTypes, Callbacks
<1>3. CASE DryingEnds
  <2>1. HistoryType'
    BY <1>3 DEF DryingEnds, Tell, HistoryType, Mishap
  <2> QED
    BY <1>3, <2>1, InboxSteps DEF DryingEnds, settings, taskVars, printerVars, PrinterTypes, SettingTypes,
                         TaskTypes, FlagTypes, Callbacks
<1>4. CASE TurnedOff \/ TurnedOn \/ UserSetsAuto \/ SessionChanges
  <2>1. SettingTypes'
    BY <1>4 DEF TurnedOff, TurnedOn, UserSetsAuto, SessionChanges, settings, SettingTypes
  <2>2. /\ power' \in BOOLEAN /\ printing' \in BOOLEAN /\ known' \in BOOLEAN
        /\ printing' => power'
    <3>1. CASE TurnedOff
      BY <3>1 DEF TurnedOff
    <3>2. CASE TurnedOn
      BY <3>2 DEF TurnedOn, PrinterTypes
    <3>3. CASE UserSetsAuto
      BY <3>3 DEF UserSetsAuto, printerVars, PrinterTypes
    <3>4. CASE SessionChanges
      <4>1. UNCHANGED <<power, printing>> /\ known' = ~known
        BY <3>4 DEF SessionChanges
      <4> QED
        BY <4>1 DEF PrinterTypes
    <3> QED
      BY <1>4, <3>1, <3>2, <3>3, <3>4
  <2>3. prints' = prints /\ lastEnd' = lastEnd
    BY <1>4 DEF TurnedOff, TurnedOn, UserSetsAuto, SessionChanges, printerVars
  <2>4. UNCHANGED <<inbox, taskVars, flag, marks, resuming, mishaps>>
    BY <1>4 DEF TurnedOff, TurnedOn, UserSetsAuto, SessionChanges
  <2>5. PrinterTypes'
    BY <2>2, <2>3 DEF PrinterTypes
  <2>6. InboxType' /\ TaskTypes' /\ FlagTypes' /\ HistoryType'
    BY <2>4 DEF taskVars, InboxType, TaskTypes, FlagTypes, HistoryType
  <2> QED
    BY <2>1, <2>5, <2>6
<1>5. ASSUME NEW k \in 1..MaxCallbacks, OnPrintStart(k) PROVE Types'
  <2>1. InboxType'
    BY <1>5, InboxSteps DEF OnPrintStart
  <2>2. TaskTypes' /\ marks' \in Seq(BOOLEAN)
    BY <1>5, CancelTypes DEF OnPrintStart
  <2>3. HistoryType' /\ SettingTypes'
    BY <1>5 DEF OnPrintStart, Overtakes, HistoryType, Mishap, SettingTypes, settings
  <2>4. PrinterTypes'
    <3>1. power' \in BOOLEAN /\ (power => power')
      <4>1. power' = power \/ power' = TRUE
        BY <1>5 DEF OnPrintStart
      <4> QED
        BY <4>1, Zenon DEF PrinterTypes
    <3>2. UNCHANGED <<printing, prints, lastEnd, known>>
      BY <1>5 DEF OnPrintStart
    <3> QED
      BY <3>1, <3>2 DEF PrinterTypes
  <2>5. flag' = flag /\ resuming' = resuming
    BY <1>5 DEF OnPrintStart
  <2> QED
    BY <2>1, <2>2, <2>3, <2>4, <2>5 DEF FlagTypes
<1>6. ASSUME NEW why \in Causes, NEW seen \in SUBSET Mishap, ScheduleOff(why, seen),
             InboxType', UNCHANGED <<settings, auto, flag, printerVars>>, resuming' \in BOOLEAN
      PROVE  Types'
  <2>1. TaskTypes' /\ marks' \in Seq(BOOLEAN) /\ HistoryType'
    BY <1>6, ScheduleTypes
  <2> QED
    BY <1>6, <2>1 DEF settings, printerVars, SettingTypes, PrinterTypes, FlagTypes
<1>7. ASSUME NEW k \in 1..MaxCallbacks, OnPrintComplete(k) PROVE Types'
  <2>1. InboxType' /\ Overtakes(k) \in SUBSET Mishap
    BY <1>7, InboxSteps DEF OnPrintComplete, Overtakes, HistoryType, Mishap
  <2>2. CASE "auto" \in uses /\ AutoOffFor(inbox[k])
    BY <1>6, <1>7, <2>1, <2>2 DEF OnPrintComplete, FlagTypes, Causes
  <2>3. CASE ~("auto" \in uses /\ AutoOffFor(inbox[k]))
    BY <1>7, <2>1, <2>3 DEF OnPrintComplete, settings, printerVars, taskVars, SettingTypes,
                            PrinterTypes, TaskTypes, FlagTypes, HistoryType
  <2> QED
    BY <2>2, <2>3
<1>8. CASE ScheduleOffAfterQueueJob
  BY <1>6, <1>8 DEF ScheduleOffAfterQueueJob, FlagTypes, Causes, HistoryType, InboxType
<1>9. ASSUME NEW k \in 1..MaxCallbacks, OnDryingComplete(k) PROVE Types'
  <2>1. InboxType' /\ Overtakes(k) \in SUBSET Mishap
    BY <1>9, InboxSteps DEF OnDryingComplete, Overtakes, HistoryType, Mishap
  <2> QED
    BY <1>6, <1>9, <2>1 DEF OnDryingComplete, FlagTypes, Causes
<1>10. ASSUME NEW k, MarkAutoOffPending(k) PROVE Types'
  <2>1. flag' \in BOOLEAN
    BY <1>10, ElementOfSeq, LenProperties DEF MarkAutoOffPending, FlagTypes
  <2>2. marks' \in Seq(BOOLEAN)
    BY <1>10, TakenOut DEF MarkAutoOffPending, FlagTypes
  <2>3. HistoryType'
    BY <1>10 DEF MarkAutoOffPending, HistoryType, Overtakes, Mishap
  <2>4. SettingTypes' /\ PrinterTypes' /\ InboxType' /\ TaskTypes' /\ resuming' = resuming
    BY <1>10 DEF MarkAutoOffPending, settings, printerVars, taskVars, SettingTypes, PrinterTypes,
                 InboxType, TaskTypes
  <2> QED
    BY <2>1, <2>2, <2>3, <2>4 DEF FlagTypes
<1>11. ASSUME NEW t \in Tasks, TaskNext(t) PROVE Types'
  <2>1. CASE DelayIsOver(t) \/ HasCooled(t)
    <3>1. TaskTypes'
      BY <2>1 DEF DelayIsOver, HasCooled, TaskTypes, Phase
    <3> QED
      BY <2>1, <3>1 DEF DelayIsOver, HasCooled, settings, printerVars, SettingTypes, PrinterTypes,
                        InboxType, FlagTypes, HistoryType
  <2>2. CASE StaysHot(t)
    <3>1. TaskTypes'
      BY <2>2, PlugAssumption DEF PlugAssumption, StaysHot, PollsAfter, TaskTypes
    <3> QED
      BY <2>2, <3>1 DEF StaysHot, settings, printerVars, SettingTypes, PrinterTypes,
                        InboxType, FlagTypes, HistoryType
  <2>3. CASE Skips(t)
    <3>1. TaskTypes' /\ HistoryType' /\ flag' = FALSE
      BY <2>3, EndsTypes, ClearsTypes DEF Skips
    <3> QED
      BY <2>3, <3>1 DEF Skips, settings, printerVars, SettingTypes, PrinterTypes, InboxType, FlagTypes
  <2>4. CASE TimesOut(t) \/ TurnOffFails(t)
    <3>1. TaskTypes' /\ HistoryType'
      BY <2>4, EndsTypes DEF TimesOut, TurnOffFails, HistoryType, Mishap
    <3> QED
      BY <2>4, <3>1 DEF TimesOut, TurnOffFails, settings, printerVars, SettingTypes, PrinterTypes,
                        InboxType, FlagTypes
  <2>5. CASE PlugSwitches(t)
    <3>1. TaskTypes'
      BY <2>5 DEF PlugSwitches, TaskTypes, Phase
    <3> QED
      BY <2>5, <3>1 DEF PlugSwitches, settings, SettingTypes, PrinterTypes, InboxType, FlagTypes,
                        HistoryType
  <2>6. CASE MarkAutoOffExecuted(t)
    <3>1. TaskTypes' /\ HistoryType' /\ flag' = FALSE
      BY <2>6, EndsTypes, ClearsTypes DEF MarkAutoOffExecuted
    <3>2. SettingTypes' /\ PrinterTypes'
      BY <2>6 DEF MarkAutoOffExecuted, settings, SettingTypes, PrinterTypes
    <3> QED
      BY <2>6, <3>1, <3>2 DEF MarkAutoOffExecuted, InboxType, FlagTypes
  <2> QED
    BY <1>11, <2>1, <2>2, <2>3, <2>4, <2>5, <2>6 DEF TaskNext
<1>12. CASE Restart
  <2>1. TaskTypes'
    BY <1>12 DEF Restart, TaskTypes, Phase, None
  <2>2. InboxType' /\ marks' \in Seq(BOOLEAN)
    BY <1>12 DEF Restart, InboxType
  <2>3. HistoryType' /\ SettingTypes'
    BY <1>12 DEF Restart, HistoryType, Mishap, settings, SettingTypes
  <2>4. PrinterTypes' /\ flag' = flag /\ resuming' = TRUE
    BY <1>12 DEF Restart, PrinterTypes
  <2> QED
    BY <2>1, <2>2, <2>3, <2>4 DEF FlagTypes
<1>13. CASE ResumeFindsNothing \/ ResumeDrops
  <2>1. HistoryType' /\ flag' \in BOOLEAN /\ resuming' = FALSE
    BY <1>13, ClearsTypes DEF ResumeFindsNothing, ResumeDrops, HistoryType, FlagTypes
  <2>2. UNCHANGED <<settings, auto, printerVars, inbox, taskVars, marks>>
    BY <1>13 DEF ResumeFindsNothing, ResumeDrops
  <2>3. SettingTypes' /\ PrinterTypes' /\ InboxType' /\ TaskTypes'
    BY <2>2 DEF settings, printerVars, taskVars, SettingTypes, PrinterTypes, InboxType, TaskTypes
  <2> QED
    BY <2>1, <2>2, <2>3 DEF FlagTypes
<1>14. CASE ResumePendingAutoOff
  <2>1. CASE mode = "temperature"
    BY <1>6, <1>14, <2>1 DEF ResumePendingAutoOff, Causes, HistoryType, InboxType
  <2>2. CASE mode # "temperature"
    <3>1. TaskTypes'
      <4>1. PICK t \in Tasks : /\ t = created + 1 /\ created' = t
                               /\ phase' = [phase EXCEPT ![t] = "turning"]
                               /\ cause' = [cause EXCEPT ![t] = "startup"]
                               /\ UNCHANGED <<polls, entry>>
        BY <1>14, <2>2 DEF ResumePendingAutoOff
      <4> QED
        BY <4>1, PlugAssumption DEF PlugAssumption, TaskTypes, Phase, Causes, Tasks
    <3> QED
      BY <1>14, <2>2, <3>1 DEF ResumePendingAutoOff, settings, printerVars, SettingTypes, PrinterTypes,
                          InboxType, FlagTypes, HistoryType
  <2> QED
    BY <2>1, <2>2
<1>15. CASE UNCHANGED vars
  BY <1>15 DEF vars, settings, printerVars, taskVars, SettingTypes, PrinterTypes, InboxType,
               TaskTypes, FlagTypes, HistoryType
<1> QED
  BY <1>1, <1>2, <1>3, <1>4, <1>5, <1>7, <1>8, <1>9, <1>10, <1>11, <1>12, <1>13, <1>14, <1>15 DEF Next

-----------------------------------------------------------------------------
(* The registry *)

\* What the registry depends on.
registryVars == <<created, phase, cause, entry>>

\* A step that leaves registry and tasks alone keeps the registry right.
LEMMA RegistryFrame ==
    ASSUME RegistryInv, UNCHANGED registryVars, mishaps \subseteq mishaps'
    PROVE  RegistryInv'
BY DEF RegistryInv, TimerIsCancellable, registryVars, Live

\* A task that ends frees the registry, whether it was registered or not; what
\* else was live must have been replaced.
LEMMA EndsRegistry ==
    ASSUME TaskTypes, RegistryInv, NEW t \in Tasks, Live(t), Ends(t), UNCHANGED <<created, cause>>,
           mishaps \subseteq mishaps'
    PROVE  RegistryInv'
<1>1. /\ phase' = [phase EXCEPT ![t] = "over"]
      /\ entry' = IF cause[t] = "startup" THEN entry ELSE None
  BY DEF Ends
<1>2. \A s \in Tasks : Live(s)' <=> s # t /\ Live(s)
  BY <1>1 DEF TaskTypes, Live
<1>3. \A s \in Tasks : s > created' => phase'[s] = "none"
  BY <1>1 DEF TaskTypes, RegistryInv, Live
<1>4. entry' # None => Live(entry)' /\ cause'[entry'] # "startup"
  BY <1>1, <1>2, PlugAssumption DEF PlugAssumption, TaskTypes, RegistryInv, Tasks, None, Live
<1>5. TimerIsCancellable'
  BY <1>1, <1>2 DEF RegistryInv, TimerIsCancellable
<1> QED
  BY <1>3, <1>4, <1>5 DEF RegistryInv

\* A task that moves on and stays live.
LEMMA MovesRegistry ==
    ASSUME TaskTypes, RegistryInv, NEW t \in Tasks, Live(t),
           NEW p \in {"waiting", "turning", "switched", "skipping"},
           phase' = [phase EXCEPT ![t] = p],
           UNCHANGED <<created, cause, entry, mishaps>>
    PROVE  RegistryInv'
<1>1. \A s \in Tasks : Live(s)' <=> Live(s)
  BY DEF TaskTypes, Live
<1>2. \A s \in Tasks : s > created' => phase'[s] = "none"
  BY DEF TaskTypes, RegistryInv, Live
<1>3. entry' # None => Live(entry)' /\ cause'[entry'] # "startup"
  BY <1>1, PlugAssumption DEF PlugAssumption, TaskTypes, RegistryInv, None, Tasks
<1>4. TimerIsCancellable'
  BY <1>1 DEF RegistryInv, TimerIsCancellable
<1> QED
  BY <1>2, <1>3, <1>4 DEF RegistryInv

\* Cancelling an entry keeps the registry right.
LEMMA CancelRegistry ==
    ASSUME TaskTypes, RegistryInv, CancelPendingOff, UNCHANGED <<created, cause>>,
           mishaps \subseteq mishaps'
    PROVE  RegistryInv'
<1>1. CASE entry = None
  BY <1>1, RegistryFrame DEF CancelPendingOff, registryVars
<1>2. CASE entry # None
  <2>1. phase' = [phase EXCEPT ![entry] = "over"] /\ entry' = None
    BY <1>2 DEF CancelPendingOff
  <2>2. \A s \in Tasks : Live(s)' => s # entry /\ Live(s)
    BY <2>1 DEF TaskTypes, Live
  <2>3. \A s \in Tasks : s > created' => phase'[s] = "none"
    BY <2>1, <1>2 DEF TaskTypes, RegistryInv, Live
  <2>4. TimerIsCancellable'
    BY <2>2 DEF RegistryInv, TimerIsCancellable
  <2> QED
    BY <2>1, <2>3, <2>4 DEF RegistryInv
<1> QED
  BY <1>1, <1>2

\* If the registry is empty, nothing else is live unless something was
\* replaced before; if it is not, this is a replacement.
LEMMA ScheduleRegistry ==
    ASSUME TaskTypes, RegistryInv, NEW why \in Causes \ {"startup"}, NEW seen, mishaps \subseteq seen,
           ScheduleOff(why, seen)
    PROVE  RegistryInv'
<1>1. PICK t \in Tasks : t = created + 1 /\ created' = t
  BY DEF ScheduleOff
<1>2. /\ phase' = [s \in Tasks |-> IF s = t THEN "waiting" ELSE IF s = entry THEN "over" ELSE phase[s]]
      /\ cause' = [cause EXCEPT ![t] = why]
      /\ entry' = Registered(t)
      /\ mishaps' = IF entry = None THEN seen ELSE seen \cup {"replaced"}
  BY <1>1 DEF ScheduleOff
<1>3. \A s \in Tasks : s > created' => phase'[s] = "none"
  BY <1>1, <1>2 DEF TaskTypes, RegistryInv, Tasks, Live, None
<1>4. entry' # None => Live(entry)' /\ cause'[entry'] # "startup"
  BY <1>1, <1>2 DEF TaskTypes, Registered, Live
<1>5. TimerIsCancellable'
  <2> SUFFICES ASSUME "replaced" \notin mishaps', NEW s \in Tasks, Live(s)', cause'[s] # "startup"
               PROVE  entry' = s
    BY DEF TimerIsCancellable
  <2>1. entry = None /\ "replaced" \notin mishaps
    BY <1>2
  <2>2. entry' = t
    BY <1>2, <2>1 DEF Registered
  <2>3. s = t
    <3> SUFFICES ASSUME s # t PROVE FALSE
      OBVIOUS
    <3>1. Live(s) /\ cause[s] = cause'[s]
      BY <1>2, <2>1 DEF Live, TaskTypes, Tasks, None
    <3>2. entry = s
      BY <2>1, <3>1 DEF RegistryInv, TimerIsCancellable
    <3> QED
      BY <2>1, <3>2 DEF None, Tasks
  <2> QED
    BY <2>2, <2>3
<1> QED
  BY <1>3, <1>4, <1>5 DEF RegistryInv

\* Every step keeps the registry right.
LEMMA RegistryStep ==
    ASSUME Types, RegistryInv, [Next]_vars
    PROVE  RegistryInv'
<1>0. TaskTypes
  BY DEF Types
<1>1. CASE PrintStarts \/ (\E how \in {"completed", "failed"} : PrintEnds(how)) \/ DryingEnds
  <2>1. UNCHANGED registryVars /\ mishaps \subseteq mishaps'
    BY <1>1 DEF PrintStarts, PrintEnds, DryingEnds, Tell, taskVars, registryVars
  <2> QED
    BY <2>1, RegistryFrame
<1>2. CASE TurnedOff \/ TurnedOn \/ UserSetsAuto \/ SessionChanges \/ ResumeFindsNothing
  <2>1. UNCHANGED registryVars /\ mishaps \subseteq mishaps'
    BY <1>2 DEF TurnedOff, TurnedOn, UserSetsAuto, SessionChanges, ResumeFindsNothing, taskVars, registryVars
  <2> QED
    BY <2>1, RegistryFrame
<1>3. CASE ResumeDrops \/ (\E k \in 1..2 : MarkAutoOffPending(k))
  <2>1. UNCHANGED registryVars /\ mishaps \subseteq mishaps'
    BY <1>3 DEF ResumeDrops, Clears, MarkAutoOffPending, Overtakes, taskVars, registryVars
  <2> QED
    BY <2>1, RegistryFrame
<1>4. ASSUME NEW k \in 1..MaxCallbacks, OnPrintStart(k) PROVE RegistryInv'
  <2>1. mishaps \subseteq mishaps'
    BY <1>4 DEF OnPrintStart, Overtakes
  <2> QED
    BY <1>0, <1>4, <2>1, CancelRegistry DEF OnPrintStart
<1>5. ASSUME NEW k \in 1..MaxCallbacks, OnPrintComplete(k) PROVE RegistryInv'
  <2>1. mishaps \subseteq Overtakes(k)
    BY DEF Overtakes
  <2>2. CASE "auto" \in uses /\ AutoOffFor(inbox[k])
    <3>1. ScheduleOff("auto", Overtakes(k))
      BY <1>5, <2>2 DEF OnPrintComplete
    <3> QED
      BY <1>0, <2>1, <3>1, ScheduleRegistry DEF Causes
  <2>3. CASE ~("auto" \in uses /\ AutoOffFor(inbox[k]))
    BY <1>5, <2>1, <2>3, RegistryFrame DEF OnPrintComplete, taskVars, registryVars
  <2> QED
    BY <2>2, <2>3
<1>6. CASE ScheduleOffAfterQueueJob
  BY <1>0, <1>6, ScheduleRegistry DEF ScheduleOffAfterQueueJob, Causes
<1>7. ASSUME NEW k \in 1..MaxCallbacks, OnDryingComplete(k) PROVE RegistryInv'
  <2>1. mishaps \subseteq Overtakes(k)
    BY DEF Overtakes
  <2> QED
    BY <1>0, <1>7, <2>1, ScheduleRegistry DEF OnDryingComplete, Causes
<1>8. ASSUME NEW t \in Tasks, TaskNext(t) PROVE RegistryInv'
  <2>1. CASE DelayIsOver(t)
    BY <1>0, <2>1, MovesRegistry DEF DelayIsOver, Live
  <2>2. CASE HasCooled(t)
    BY <1>0, <2>2, MovesRegistry DEF HasCooled, Live
  <2>3. CASE PlugSwitches(t)
    BY <1>0, <2>3, MovesRegistry DEF PlugSwitches, Live
  <2>4. CASE StaysHot(t)
    BY <2>4, RegistryFrame DEF StaysHot, registryVars
  <2>5. CASE Skips(t) \/ MarkAutoOffExecuted(t)
    <3>1. mishaps \subseteq mishaps' /\ Live(t) /\ Ends(t) /\ UNCHANGED <<created, cause>>
      BY <2>5 DEF Skips, MarkAutoOffExecuted, Clears, Live
    <3> QED
      BY <1>0, <3>1, EndsRegistry
  <2>6. CASE TimesOut(t) \/ TurnOffFails(t)
    <3>1. mishaps \subseteq mishaps' /\ Live(t) /\ Ends(t) /\ UNCHANGED <<created, cause>>
      BY <2>6 DEF TimesOut, TurnOffFails, Live
    <3> QED
      BY <1>0, <3>1, EndsRegistry
  <2> QED
    BY <1>8, <2>1, <2>2, <2>3, <2>4, <2>5, <2>6 DEF TaskNext
<1>9. CASE Restart
  <2>1. \A t \in Tasks : ~Live(t)' /\ (phase[t] = "none" => phase'[t] = "none")
    BY <1>9 DEF Restart, Live
  <2>2. entry' = None /\ created' = created
    BY <1>9 DEF Restart
  <2> QED
    BY <2>1, <2>2 DEF RegistryInv, TimerIsCancellable
<1>10. CASE ResumePendingAutoOff
  <2>1. CASE mode = "temperature"
    <3>1. ScheduleOff("resume", mishaps)
      BY <1>10, <2>1 DEF ResumePendingAutoOff
    <3> QED
      BY <1>0, <3>1, ScheduleRegistry DEF Causes
  <2>2. CASE mode # "temperature"
    <3>1. PICK t \in Tasks : /\ t = created + 1 /\ created' = t
                             /\ phase' = [phase EXCEPT ![t] = "turning"]
                             /\ cause' = [cause EXCEPT ![t] = "startup"]
                             /\ UNCHANGED <<entry, mishaps>>
      BY <1>10, <2>2 DEF ResumePendingAutoOff
    <3>2. \A s \in Tasks : s > created' => phase'[s] = "none"
      BY <1>0, <3>1 DEF TaskTypes, RegistryInv, Tasks
    <3>3. entry' # None => Live(entry)' /\ cause'[entry'] # "startup"
      BY <1>0, <3>1, PlugAssumption DEF PlugAssumption, TaskTypes, RegistryInv, None, Tasks, Live
    <3>4. TimerIsCancellable'
      BY <1>0, <3>1 DEF TaskTypes, RegistryInv, TimerIsCancellable, Live
    <3> QED
      BY <3>2, <3>3, <3>4 DEF RegistryInv
  <2> QED
    BY <2>1, <2>2
<1>11. CASE UNCHANGED vars
  BY <1>11, RegistryFrame DEF vars, taskVars, registryVars
<1> QED
  BY <1>1, <1>2, <1>3, <1>4, <1>5, <1>6, <1>7, <1>8, <1>9, <1>10, <1>11 DEF Next

-----------------------------------------------------------------------------
(* The flag that survives a restart *)

\* Some power-off is pending, or executed by the startup itself.
SomeLive == \E t \in Tasks : Live(t)
StartupRuns == \E t \in Tasks : Live(t) /\ cause[t] = "startup"

\* Until the startup has read the flag, a power-off scheduled meanwhile is the
\* only reason for a write of it. Afterwards the last write tells.
FlagInv ==
    mishaps = {} =>
        IF resuming
        THEN /\ ~StartupRuns
             /\ SomeLive => LatestMark
             /\ ~SomeLive => marks = <<>>
        ELSE ~StartupRuns => (LatestMark <=> SomeLive)

-----------------------------------------------------------------------------
(* What a power-off knows of the printer *)

Ended == {"completed", "failed"}

\* A power-off that a start still can cancel, or that a restart would resume.
PendingOff ==
    \/ \E t \in Tasks : Live(t) /\ cause[t] # "startup"
    \/ mode = "temperature" /\ LatestMark

\* Between two ends of prints there is a start, and the last end is how the
\* printer is now.
InboxInv ==
    /\ \A k \in DOMAIN inbox : inbox[k] # "dry"
    /\ \A k \in DOMAIN inbox :
          inbox[k] \in Ended => IF k = Len(inbox) THEN ~printing /\ lastEnd = inbox[k]
                                ELSE inbox[k + 1] = "start"

\* The next callback of a pending power-off is the start that cancels it; if
\* there is none the printer is as the completed print has left it.
PendingInv ==
    PendingOff => IF inbox = <<>> THEN ~printing /\ lastEnd = "completed"
                  ELSE inbox[1] = "start"

\* Only timed power-offs are executed by the startup.
StartupInv == mode = "temperature" => ~StartupRuns

KeptInv == mishaps = {} /\ uses = {"auto"} => InboxInv /\ PendingInv /\ StartupInv

-----------------------------------------------------------------------------
(* Steps of tasks, of the inbox and of the writes *)

\* What has happened is not forgotten.
LEMMA MishapsGrow ==
    ASSUME [Next]_vars
    PROVE  mishaps \subseteq mishaps'
<1>1. CASE PrintStarts \/ (\E how \in {"completed", "failed"} : PrintEnds(how)) \/ DryingEnds
  BY <1>1 DEF PrintStarts, PrintEnds, DryingEnds, Tell
<1>2. CASE TurnedOff \/ TurnedOn \/ UserSetsAuto \/ SessionChanges
  BY <1>2 DEF TurnedOff, TurnedOn, UserSetsAuto, SessionChanges
<1>3. ASSUME NEW k \in 1..MaxCallbacks, OnPrintStart(k) \/ OnPrintComplete(k) \/ OnDryingComplete(k)
      PROVE  mishaps \subseteq mishaps'
  BY <1>3 DEF OnPrintStart, OnPrintComplete, OnDryingComplete, ScheduleOff, Overtakes
<1>4. CASE ScheduleOffAfterQueueJob \/ \E k \in 1..2 : MarkAutoOffPending(k)
  BY <1>4 DEF ScheduleOffAfterQueueJob, ScheduleOff, MarkAutoOffPending, Overtakes
<1>5. ASSUME NEW t \in Tasks, TaskNext(t) PROVE mishaps \subseteq mishaps'
  BY <1>5 DEF TaskNext, DelayIsOver, Skips, StaysHot, HasCooled, TimesOut, PlugSwitches, TurnOffFails,
              MarkAutoOffExecuted, Clears
<1>6. CASE Restart \/ ResumeFindsNothing \/ ResumeDrops \/ ResumePendingAutoOff
  BY <1>6 DEF Restart, ResumeFindsNothing, ResumeDrops, Clears, ResumePendingAutoOff, ScheduleOff
<1>7. CASE UNCHANGED vars
  BY <1>7 DEF vars
<1> QED
  BY <1>1, <1>2, <1>3, <1>4, <1>5, <1>6, <1>7 DEF Next

\* The first element of a sequence is taken out.
LEMMA TakenFirst ==
    ASSUME NEW S, NEW s \in Seq(S), 1 \in DOMAIN s, NEW r,
           r = [n \in 1..(Len(s) - 1) |-> IF n < 1 THEN s[n] ELSE s[n + 1]]
    PROVE  /\ Len(s) \in Nat \ {0} /\ r \in Seq(S) /\ Len(r) = Len(s) - 1
           /\ \A n \in 1..Len(r) : r[n] = s[n + 1]
<1>1. Len(s) \in Nat /\ DOMAIN s = 1..Len(s)
  BY LenProperties
<1>2. r \in Seq(S)
  BY TakenOut
<1>3. DOMAIN r = 1..(Len(s) - 1) /\ DOMAIN r = 1..Len(r) /\ Len(r) \in Nat
  BY <1>2, LenProperties
<1>4. Len(s) - 1 \in Nat
  BY <1>1
<1>5. Len(r) = Len(s) - 1
  BY <1>3, <1>4
<1>6. ASSUME NEW n \in 1..Len(r) PROVE r[n] = s[n + 1]
  BY <1>3, <1>6
<1> QED
  BY <1>1, <1>2, <1>4, <1>5, <1>6

\* A new write is the last.
LEMMA LastAppended ==
    ASSUME FlagTypes, NEW b \in BOOLEAN, marks' = Append(marks, b)
    PROVE  LatestMark' = b
<1>1. Len(marks') = Len(marks) + 1 /\ marks'[Len(marks) + 1] = b /\ Len(marks) \in Nat
  BY AppendProperties, LenProperties DEF FlagTypes
<1>2. marks' # <<>>
  BY <1>1
<1> QED
  BY <1>1, <1>2 DEF LatestMark

\* Writes that commit in order leave the last word as it is.
LEMMA LastKept ==
    ASSUME FlagTypes, MarkAutoOffPending(1)
    PROVE  LatestMark' = LatestMark
<1>1. /\ Len(marks) \in Nat \ {0} /\ marks' \in Seq(BOOLEAN) /\ Len(marks') = Len(marks) - 1
      /\ \A n \in 1..Len(marks') : marks'[n] = marks[n + 1]
  BY TakenFirst DEF MarkAutoOffPending, FlagTypes
<1>2. flag' = marks[1] /\ marks # <<>>
  BY <1>1 DEF MarkAutoOffPending
<1>3. CASE Len(marks) = 1
  <2>1. marks' = <<>>
    BY <1>1, <1>3, EmptySeq
  <2> QED
    BY <1>2, <1>3, <2>1 DEF LatestMark
<1>4. CASE Len(marks) # 1
  <2>1. Len(marks') \in 1..Len(marks') /\ Len(marks') + 1 = Len(marks) /\ marks' # <<>>
    BY <1>1, <1>4
  <2>2. marks'[Len(marks')] = marks[Len(marks)]
    BY <1>1, <2>1
  <2> QED
    BY <1>2, <2>1, <2>2 DEF LatestMark
<1> QED
  BY <1>3, <1>4

\* A task that clears the flag past no other task and no write is the last.
LEMMA EndsAlone ==
    ASSUME TaskTypes, NEW t \in Tasks, Ends(t), Clears(Tasks \ {t}), marks' = marks, mishaps' = {}
    PROVE  ~SomeLive' /\ marks' = <<>> /\ ~LatestMark'
<1>1. marks = <<>> /\ (\A s \in Tasks \ {t} : ~Live(s)) /\ flag' = FALSE
  BY DEF Clears
<1>2. \A s \in Tasks : ~Live(s)'
  BY <1>1 DEF Ends, TaskTypes, Live
<1> QED
  BY <1>1, <1>2 DEF SomeLive, LatestMark

\* A task that is scheduled when none is registered.
LEMMA ScheduledAlone ==
    ASSUME TaskTypes, FlagTypes, RegistryInv, NEW why \in Causes \ {"startup"}, NEW seen,
           ScheduleOff(why, seen), mishaps' = {}
    PROVE  /\ entry = None /\ SomeLive' /\ LatestMark'
           /\ StartupRuns' <=> StartupRuns
<1>1. PICK t \in Tasks : t = created + 1
  BY DEF ScheduleOff
<1>2. /\ entry = None /\ marks' = Append(marks, TRUE)
      /\ cause' = [cause EXCEPT ![t] = why]
      /\ phase' = [s \in Tasks |-> IF s = t THEN "waiting" ELSE IF s = entry THEN "over" ELSE phase[s]]
  BY <1>1 DEF ScheduleOff
<1>3. LatestMark'
  BY <1>2, LastAppended
<1>4. ~Live(t) /\ Live(t)' /\ cause'[t] # "startup"
  BY <1>1, <1>2 DEF TaskTypes, RegistryInv, Live
<1>5. \A s \in Tasks \ {t} : (Live(s)' <=> Live(s)) /\ cause'[s] = cause[s]
  BY <1>2 DEF TaskTypes, Live, None, Tasks
<1> QED
  BY <1>2, <1>3, <1>4, <1>5 DEF SomeLive, StartupRuns

\* A start in order leaves no power-off that it could cancel.
LEMMA StartCancels ==
    ASSUME TaskTypes, FlagTypes, RegistryInv, CancelPendingOff, cause' = cause, mishaps = {}, flag' = flag
    PROVE  /\ \A t \in Tasks : Live(t)' => Live(t) /\ cause[t] = "startup"
           /\ IF entry = None THEN UNCHANGED <<phase, marks>> ELSE ~LatestMark'
<1>1. CASE entry = None
  BY <1>1 DEF CancelPendingOff, RegistryInv, TimerIsCancellable, None, Tasks, Live
<1>2. CASE entry # None
  <2>1. phase' = [phase EXCEPT ![entry] = "over"] /\ marks' = Append(marks, FALSE)
    BY <1>2 DEF CancelPendingOff
  <2>2. ASSUME NEW t \in Tasks, Live(t)' PROVE Live(t) /\ cause[t] = "startup"
    <3>1. t # entry /\ Live(t)
      BY <2>1, <2>2 DEF TaskTypes, Live
    <3> QED
      BY <3>1 DEF RegistryInv, TimerIsCancellable
  <2> QED
    BY <1>2, <2>1, <2>2, LastAppended
<1> QED
  BY <1>1, <1>2

-----------------------------------------------------------------------------
(* The flag *)

\* A step that leaves the tasks as live, and the last word, as they are.
LEMMA FlagFrame ==
    ASSUME FlagInv, mishaps \subseteq mishaps', resuming' = resuming,
           \A t \in Tasks : (Live(t)' <=> Live(t)) /\ cause'[t] = cause[t],
           LatestMark' = LatestMark, marks = <<>> => marks' = <<>>
    PROVE  FlagInv'
BY DEF FlagInv, SomeLive, StartupRuns

\* A task that goes on leaves them so.
LEMMA MovesFlag ==
    ASSUME TaskTypes, FlagInv, NEW t \in Tasks, Live(t),
           NEW p \in {"waiting", "turning", "switched", "skipping"},
           phase' = [phase EXCEPT ![t] = p],
           UNCHANGED <<cause, flag, marks, resuming, mishaps>>
    PROVE  FlagInv'
<1>1. \A s \in Tasks : Live(s)' <=> Live(s)
  BY DEF TaskTypes, Live
<1>2. LatestMark' = LatestMark
  BY DEF LatestMark
<1> QED
  BY <1>1, <1>2, FlagFrame

\* A scheduled power-off has announced itself.
LEMMA ScheduleFlag ==
    ASSUME TaskTypes, FlagTypes, RegistryInv, FlagInv, mishaps = {},
           NEW why \in Causes \ {"startup"}, NEW seen, ScheduleOff(why, seen), resuming' \in {resuming, FALSE}
    PROVE  FlagInv'
<1>1. mishaps' = {} => SomeLive' /\ LatestMark' /\ (StartupRuns' <=> StartupRuns)
  BY ScheduledAlone
<1>2. CASE resuming'
  BY <1>1, <1>2 DEF FlagInv
<1>3. CASE ~resuming'
  BY <1>1, <1>3 DEF FlagInv
<1> QED
  BY <1>2, <1>3

\* Every step keeps the flag right.
LEMMA FlagStep ==
    ASSUME Types, RegistryInv, FlagInv, [Next]_vars
    PROVE  FlagInv'
<1> SUFFICES ASSUME mishaps' = {} PROVE FlagInv'
  BY DEF FlagInv
<1>0. /\ mishaps = {} /\ mishaps \subseteq mishaps'
      /\ TaskTypes /\ FlagTypes
  BY MishapsGrow DEF Types
<1>1. CASE UNCHANGED <<phase, cause, flag, marks, resuming>>
  <2>1. LatestMark' = LatestMark /\ \A t \in Tasks : (Live(t)' <=> Live(t)) /\ cause'[t] = cause[t]
    BY <1>1 DEF LatestMark, Live
  <2> QED
    BY <1>0, <1>1, <2>1, FlagFrame
<1>2. ASSUME NEW k \in 1..MaxCallbacks, OnPrintStart(k) PROVE FlagInv'
  <2>1. ~resuming /\ ~resuming'
    BY <1>2, <1>0 DEF OnPrintStart, FlagTypes
  <2>2. /\ \A t \in Tasks : Live(t)' => Live(t) /\ cause[t] = "startup"
        /\ IF entry = None THEN UNCHANGED <<phase, marks>> ELSE ~LatestMark'
    BY <1>0, <1>2, StartCancels DEF OnPrintStart
  <2>3. CASE entry = None
    BY <1>1, <1>2, <2>2, <2>3 DEF OnPrintStart
  <2>4. CASE entry # None
    <3>1. cause' = cause
      BY <1>2 DEF OnPrintStart
    <3> QED
      BY <2>1, <2>2, <2>4, <3>1 DEF FlagInv, SomeLive, StartupRuns
  <2> QED
    BY <2>3, <2>4
<1>3. ASSUME NEW k \in 1..MaxCallbacks, OnPrintComplete(k) PROVE FlagInv'
  <2>1. CASE "auto" \in uses /\ AutoOffFor(inbox[k])
    BY <1>0, <1>3, <2>1, ScheduleFlag DEF OnPrintComplete, Causes
  <2>2. CASE ~("auto" \in uses /\ AutoOffFor(inbox[k]))
    BY <1>1, <1>3, <2>2 DEF OnPrintComplete, taskVars
  <2> QED
    BY <2>1, <2>2
<1>4. ASSUME NEW k \in 1..MaxCallbacks, OnDryingComplete(k) PROVE FlagInv'
  BY <1>0, <1>4, ScheduleFlag DEF OnDryingComplete, Causes
<1>5. CASE ScheduleOffAfterQueueJob
  BY <1>0, <1>5, ScheduleFlag DEF ScheduleOffAfterQueueJob, Causes
<1>6. ASSUME NEW k \in 1..2, MarkAutoOffPending(k) PROVE FlagInv'
  <2>1. k = 1
    BY <1>6 DEF MarkAutoOffPending, Overtakes
  <2>2. LatestMark' = LatestMark
    BY <1>0, <1>6, <2>1, LastKept
  <2>3. marks # <<>> /\ resuming' = resuming
    BY <1>6 DEF MarkAutoOffPending
  <2>4. \A t \in Tasks : (Live(t)' <=> Live(t)) /\ cause'[t] = cause[t]
    BY <1>6 DEF MarkAutoOffPending, taskVars, Live
  <2> QED
    BY <1>0, <2>2, <2>3, <2>4, FlagFrame
<1>7. ASSUME NEW t \in Tasks, TaskNext(t) PROVE FlagInv'
  <2>1. CASE DelayIsOver(t)
    BY <1>0, <2>1, MovesFlag DEF DelayIsOver, Live
  <2>2. CASE HasCooled(t)
    BY <1>0, <2>2, MovesFlag DEF HasCooled, Live
  <2>3. CASE PlugSwitches(t)
    BY <1>0, <2>3, MovesFlag DEF PlugSwitches, Live
  <2>4. CASE StaysHot(t)
    BY <1>1, <2>4 DEF StaysHot
  <2>5. CASE Skips(t) \/ MarkAutoOffExecuted(t)
    <3>1. ~SomeLive' /\ marks' = <<>> /\ ~LatestMark'
      BY <1>0, <2>5, EndsAlone DEF Skips, MarkAutoOffExecuted
    <3> QED
      BY <3>1 DEF FlagInv, SomeLive, StartupRuns
  <2>6. CASE TimesOut(t) \/ TurnOffFails(t)
    BY <2>6 DEF TimesOut, TurnOffFails
  <2> QED
    BY <1>7, <2>1, <2>2, <2>3, <2>4, <2>5, <2>6 DEF TaskNext
<1>8. CASE Restart
  <2>1. marks' = <<>> /\ resuming' /\ \A t \in Tasks : ~Live(t)'
    BY <1>8 DEF Restart, Live
  <2> QED
    BY <2>1 DEF FlagInv, SomeLive, StartupRuns
<1>9. CASE ResumeFindsNothing
  <2>1. /\ resuming /\ ~resuming' /\ ~flag
        /\ UNCHANGED <<flag, marks, phase, cause>>
    BY <1>9 DEF ResumeFindsNothing, taskVars
  <2> QED
    BY <1>0, <2>1 DEF FlagInv, SomeLive, StartupRuns, LatestMark, Live
<1>10. CASE ResumeDrops
  <2>1. /\ ~resuming' /\ ~flag' /\ marks = <<>> /\ marks' = marks
        /\ phase' = phase /\ \A t \in Tasks : ~Live(t)
    BY <1>10 DEF ResumeDrops, Clears, taskVars
  <2> QED
    BY <2>1 DEF FlagInv, SomeLive, StartupRuns, LatestMark, Live
<1>11. CASE ResumePendingAutoOff
  <2>1. CASE mode = "temperature"
    BY <1>0, <1>11, <2>1, ScheduleFlag DEF ResumePendingAutoOff, Causes
  <2>2. CASE mode # "temperature"
    <3>1. PICK t \in Tasks : /\ phase' = [phase EXCEPT ![t] = "turning"]
                             /\ cause' = [cause EXCEPT ![t] = "startup"]
                             /\ ~resuming'
      BY <1>11, <2>2 DEF ResumePendingAutoOff
    <3>2. StartupRuns'
      BY <1>0, <3>1 DEF TaskTypes, StartupRuns, Live
    <3> QED
      BY <3>1, <3>2 DEF FlagInv
  <2> QED
    BY <2>1, <2>2
<1>12. CASE \/ PrintStarts \/ (\E how \in {"completed", "failed"} : PrintEnds(how)) \/ DryingEnds
            \/ TurnedOff \/ TurnedOn \/ UserSetsAuto \/ SessionChanges \/ UNCHANGED vars
  <2>1. UNCHANGED <<phase, cause, flag, marks, resuming>>
    BY <1>12 DEF PrintStarts, PrintEnds, DryingEnds, TurnedOff, TurnedOn, UserSetsAuto, SessionChanges,
                 vars, taskVars
  <2> QED
    BY <1>1, <2>1
<1> QED
  BY <1>2, <1>3, <1>4, <1>5, <1>6, <1>7, <1>8, <1>9, <1>10, <1>11, <1>12 DEF Next

-----------------------------------------------------------------------------
(* What a power-off knows of the printer *)

\* A step that leaves the inbox alone, starts no print and schedules nothing.
LEMMA KeptFrame ==
    ASSUME KeptInv, mishaps \subseteq mishaps', UNCHANGED <<settings, inbox, lastEnd>>,
           printing' => printing, PendingOff' => PendingOff,
           mode = "temperature" /\ StartupRuns' => StartupRuns
    PROVE  KeptInv'
BY DEF KeptInv, InboxInv, PendingInv, StartupInv, settings

\* Tasks that stay as live, with the same last word, are as pending.
LEMMA PendingFrame ==
    ASSUME mode' = mode, LatestMark' = LatestMark,
           \A t \in Tasks : (Live(t)' => Live(t)) /\ cause'[t] = cause[t]
    PROVE  (PendingOff' => PendingOff) /\ (StartupRuns' => StartupRuns)
BY DEF PendingOff, StartupRuns

\* A start is told after what was told before.
LEMMA StartTold ==
    ASSUME InboxType, InboxInv, inbox' = Append(inbox, "start")
    PROVE  InboxInv' /\ inbox' # <<>> /\ inbox'[1] = (IF inbox = <<>> THEN "start" ELSE inbox[1])
<1>1. /\ Len(inbox) \in Nat /\ DOMAIN inbox = 1..Len(inbox)
      /\ Len(inbox') = Len(inbox) + 1 /\ DOMAIN inbox' = 1..(Len(inbox) + 1)
      /\ inbox'[Len(inbox) + 1] = "start" /\ \A k \in 1..Len(inbox) : inbox'[k] = inbox[k]
  BY AppendProperties, LenProperties DEF InboxType
<1>2. inbox = <<>> <=> Len(inbox) = 0
  BY EmptySeq DEF InboxType
<1>3. inbox' # <<>> /\ inbox'[1] = (IF inbox = <<>> THEN "start" ELSE inbox[1])
  BY <1>1, <1>2
<1>4. InboxInv'
  <2> SUFFICES ASSUME NEW k \in DOMAIN inbox'
               PROVE  /\ inbox'[k] # "dry"
                      /\ inbox'[k] \in Ended => k # Len(inbox') /\ inbox'[k + 1] = "start"
    BY DEF InboxInv
  <2>1. CASE k = Len(inbox) + 1
    BY <1>1, <2>1 DEF Ended
  <2>2. CASE k \in DOMAIN inbox
    BY <1>1, <2>2 DEF InboxInv
  <2> QED
    BY <1>1, <2>1, <2>2
<1> QED
  BY <1>3, <1>4

\* An end is told when the printer has just become what it says.
LEMMA EndTold ==
    ASSUME InboxType, InboxInv, NEW how \in Ended, inbox' = Append(inbox, how),
           printing, ~printing', lastEnd' = how
    PROVE  InboxInv' /\ inbox' # <<>> /\ (inbox # <<>> => inbox'[1] = inbox[1])
<1>1. /\ Len(inbox) \in Nat /\ DOMAIN inbox = 1..Len(inbox)
      /\ Len(inbox') = Len(inbox) + 1 /\ DOMAIN inbox' = 1..(Len(inbox) + 1)
      /\ inbox'[Len(inbox) + 1] = how /\ \A k \in 1..Len(inbox) : inbox'[k] = inbox[k]
  BY AppendProperties, LenProperties DEF InboxType
<1>2. inbox = <<>> <=> Len(inbox) = 0
  BY EmptySeq DEF InboxType
<1>3. inbox' # <<>> /\ (inbox # <<>> => inbox'[1] = inbox[1])
  BY <1>1, <1>2
<1>4. InboxInv'
  <2> SUFFICES ASSUME NEW k \in DOMAIN inbox'
               PROVE  /\ inbox'[k] # "dry"
                      /\ inbox'[k] \in Ended => IF k = Len(inbox') THEN ~printing' /\ lastEnd' = inbox'[k]
                                                ELSE inbox'[k + 1] = "start"
    BY DEF InboxInv
  <2>1. CASE k = Len(inbox) + 1
    BY <1>1, <2>1 DEF Ended
  <2>2. CASE k \in DOMAIN inbox
    BY <1>1, <2>2 DEF InboxInv
  <2> QED
    BY <1>1, <2>1, <2>2
<1> QED
  BY <1>3, <1>4

\* The first callback is taken: what follows an end is a start, or nothing.
LEMMA FirstTaken ==
    ASSUME InboxType, InboxInv, Take(1), UNCHANGED <<printing, lastEnd>>
    PROVE  /\ InboxInv' /\ inbox # <<>>
           /\ inbox[1] \in Ended => IF inbox' = <<>> THEN ~printing' /\ lastEnd' = inbox[1]
                                    ELSE inbox'[1] = "start"
<1>1. /\ Len(inbox) \in Nat \ {0} /\ inbox' \in Seq(Callbacks) /\ Len(inbox') = Len(inbox) - 1
      /\ \A n \in 1..Len(inbox') : inbox'[n] = inbox[n + 1]
  BY TakenFirst DEF Take, InboxType
<1>2. DOMAIN inbox = 1..Len(inbox) /\ DOMAIN inbox' = 1..Len(inbox')
  BY <1>1, LenProperties DEF InboxType
<1>3. inbox' = <<>> <=> Len(inbox') = 0
  BY <1>1, EmptySeq
<1>4. inbox # <<>>
  BY <1>1
<1>5. InboxInv'
  <2> SUFFICES ASSUME NEW k \in DOMAIN inbox'
               PROVE  /\ inbox'[k] # "dry"
                      /\ inbox'[k] \in Ended => IF k = Len(inbox') THEN ~printing' /\ lastEnd' = inbox'[k]
                                                ELSE inbox'[k + 1] = "start"
    BY DEF InboxInv
  <2>1. k + 1 \in DOMAIN inbox /\ inbox'[k] = inbox[k + 1] /\ (k = Len(inbox') <=> k + 1 = Len(inbox))
    BY <1>1, <1>2
  <2>2. k # Len(inbox') => inbox'[k + 1] = inbox[(k + 1) + 1]
    BY <1>1, <1>2
  <2> QED
    BY <2>1, <2>2 DEF InboxInv
<1>6. ASSUME inbox[1] \in Ended
      PROVE  IF inbox' = <<>> THEN ~printing' /\ lastEnd' = inbox[1] ELSE inbox'[1] = "start"
  <2>1. 1 \in DOMAIN inbox /\ (inbox' = <<>> <=> Len(inbox) = 1)
    BY <1>1, <1>2, <1>3
  <2>2. inbox' # <<>> => inbox'[1] = inbox[1 + 1]
    BY <1>1, <1>3
  <2> QED
    BY <1>6, <2>1, <2>2 DEF InboxInv
<1> QED
  BY <1>4, <1>5, <1>6

\* Every step keeps what a power-off knows.
LEMMA KeptStep ==
    ASSUME Types, RegistryInv, FlagInv, KeptInv, [Next]_vars
    PROVE  KeptInv'
<1> SUFFICES ASSUME mishaps' = {}, uses' = {"auto"} PROVE KeptInv'
  BY DEF KeptInv
<1>0. /\ mishaps = {} /\ mishaps \subseteq mishaps'
      /\ TaskTypes /\ FlagTypes /\ InboxType /\ PrinterTypes
  BY MishapsGrow DEF Types
<1>1. UNCHANGED settings
  BY DEF Next, PrintStarts, PrintEnds, DryingEnds, TurnedOff, TurnedOn, UserSetsAuto, SessionChanges,
         OnPrintStart, OnPrintComplete, OnDryingComplete, ScheduleOffAfterQueueJob, MarkAutoOffPending,
         TaskNext, DelayIsOver, Skips, StaysHot, HasCooled, TimesOut, PlugSwitches, TurnOffFails,
         MarkAutoOffExecuted, Restart, ResumeFindsNothing, ResumeDrops, ResumePendingAutoOff, vars
<1>2. uses = {"auto"} /\ mode' = mode /\ InboxInv /\ PendingInv /\ StartupInv
  BY <1>0, <1>1 DEF KeptInv, settings
<1>3. ASSUME UNCHANGED <<phase, cause, flag, marks>>
      PROVE  (PendingOff' => PendingOff) /\ (StartupRuns' => StartupRuns)
  <2>1. LatestMark' = LatestMark /\ \A t \in Tasks : (Live(t)' => Live(t)) /\ cause'[t] = cause[t]
    BY <1>3 DEF LatestMark, Live
  <2> QED
    BY <1>2, <2>1, PendingFrame
<1>4. ASSUME UNCHANGED <<phase, cause, flag, marks, inbox, lastEnd>>, printing' => printing
      PROVE  KeptInv'
  BY <1>0, <1>1, <1>3, <1>4, KeptFrame
<1>5. CASE PrintStarts
  <2>1. inbox' = Append(inbox, "start") /\ UNCHANGED <<phase, cause, flag, marks>>
    BY <1>0, <1>5 DEF PrintStarts, Tell, taskVars
  <2>2. InboxInv' /\ inbox' # <<>> /\ inbox'[1] = (IF inbox = <<>> THEN "start" ELSE inbox[1])
    BY <1>0, <1>2, <2>1, StartTold
  <2> QED
    BY <1>2, <1>3, <2>1, <2>2 DEF KeptInv, PendingInv, StartupInv
<1>6. ASSUME NEW how \in {"completed", "failed"}, PrintEnds(how) PROVE KeptInv'
  <2>1. /\ inbox' = Append(inbox, how) /\ UNCHANGED <<phase, cause, flag, marks>>
        /\ printing /\ ~printing' /\ lastEnd' = how
    BY <1>0, <1>6 DEF PrintEnds, Tell, taskVars
  <2>2. InboxInv' /\ inbox' # <<>> /\ (inbox # <<>> => inbox'[1] = inbox[1])
    BY <1>0, <1>2, <2>1, EndTold DEF Ended
  <2> QED
    BY <1>2, <1>3, <2>1, <2>2 DEF KeptInv, PendingInv, StartupInv
<1>7. CASE DryingEnds \/ ScheduleOffAfterQueueJob
  BY <1>2, <1>7 DEF DryingEnds, ScheduleOffAfterQueueJob
<1>8. CASE TurnedOff \/ TurnedOn \/ UserSetsAuto \/ SessionChanges \/ UNCHANGED vars
  <2>1. UNCHANGED <<phase, cause, flag, marks, inbox, lastEnd>> /\ (printing' => printing)
    BY <1>8 DEF TurnedOff, TurnedOn, UserSetsAuto, SessionChanges, vars, printerVars, taskVars
  <2> QED
    BY <1>4, <2>1
<1>9. ASSUME NEW k \in 1..MaxCallbacks, OnPrintStart(k) PROVE KeptInv'
  <2>1. k = 1 /\ ~resuming /\ Take(1) /\ UNCHANGED <<printing, lastEnd, cause, flag>>
    BY <1>9, <1>0 DEF OnPrintStart, Overtakes
  <2>2. InboxInv'
    BY <1>0, <1>2, <2>1, FirstTaken
  <2>3. /\ \A t \in Tasks : Live(t)' => Live(t) /\ cause[t] = "startup"
        /\ IF entry = None THEN UNCHANGED <<phase, marks>> ELSE ~LatestMark'
    BY <1>0, <1>9, <2>1, StartCancels DEF OnPrintStart
  <2>4. StartupRuns' => StartupRuns
    BY <2>1, <2>3 DEF StartupRuns
  <2>5. mode = "temperature" => ~LatestMark'
    <3>1. SUFFICES ASSUME mode = "temperature", entry = None PROVE ~LatestMark'
      BY <2>3
    <3>2. LatestMark' = LatestMark /\ \A t \in Tasks : Live(t) => cause[t] = "startup"
      BY <2>1, <2>3, <3>1 DEF LatestMark, Live
    <3>3. ~StartupRuns /\ ~SomeLive
      BY <1>2, <3>1, <3>2 DEF StartupInv, StartupRuns, SomeLive
    <3> QED
      BY <1>0, <2>1, <3>2, <3>3 DEF FlagInv
  <2>6. ~PendingOff'
    BY <1>2, <2>1, <2>3, <2>5 DEF PendingOff
  <2> QED
    BY <1>2, <2>2, <2>4, <2>6 DEF KeptInv, PendingInv, StartupInv
<1>10. ASSUME NEW k \in 1..MaxCallbacks, OnPrintComplete(k) PROVE KeptInv'
  <2>1. UNCHANGED <<printing, lastEnd, flag>> /\ Take(k) /\ inbox[k] \in Ended
    BY <1>10 DEF OnPrintComplete, printerVars, Ended
  <2>2. k = 1
    BY <1>10 DEF OnPrintComplete, ScheduleOff, Overtakes
  <2>3. /\ InboxInv' /\ inbox # <<>>
        /\ IF inbox' = <<>> THEN ~printing' /\ lastEnd' = inbox[1] ELSE inbox'[1] = "start"
    BY <1>0, <1>2, <2>1, <2>2, FirstTaken
  <2>4. ~PendingOff
    BY <1>2, <2>1, <2>2, <2>3 DEF PendingInv, Ended
  <2>5. CASE "auto" \in uses /\ AutoOffFor(inbox[k])
    <3>1. ScheduleOff("auto", Overtakes(k)) /\ inbox[1] = "completed"
      BY <1>10, <2>2, <2>5 DEF OnPrintComplete, AutoOffFor
    <3>2. StartupRuns' <=> StartupRuns
      BY <1>0, <3>1, ScheduledAlone DEF Types, Causes
    <3> QED
      BY <1>2, <2>3, <3>1, <3>2 DEF KeptInv, PendingInv, StartupInv
  <2>6. CASE ~("auto" \in uses /\ AutoOffFor(inbox[k]))
    <3>1. UNCHANGED <<phase, cause, flag, marks>>
      BY <1>10, <2>6 DEF OnPrintComplete, taskVars
    <3> QED
      BY <1>2, <1>3, <2>3, <2>4, <3>1 DEF KeptInv, PendingInv, StartupInv
  <2> QED
    BY <2>5, <2>6
<1>11. ASSUME NEW k \in 1..MaxCallbacks, OnDryingComplete(k) PROVE KeptInv'
  BY <1>2, <1>11 DEF OnDryingComplete, Take, InboxInv
<1>12. ASSUME NEW k \in 1..2, MarkAutoOffPending(k) PROVE KeptInv'
  <2>1. k = 1
    BY <1>12 DEF MarkAutoOffPending, Overtakes
  <2>2. LatestMark' = LatestMark
    BY <1>0, <1>12, <2>1, LastKept
  <2>3. UNCHANGED <<phase, cause, inbox, lastEnd, printing>>
    BY <1>12 DEF MarkAutoOffPending, taskVars, printerVars
  <2>4. \A t \in Tasks : (Live(t)' => Live(t)) /\ cause'[t] = cause[t]
    BY <2>3 DEF Live
  <2> QED
    BY <1>0, <1>1, <1>2, <2>2, <2>3, <2>4, PendingFrame, KeptFrame
<1>13. ASSUME NEW t \in Tasks, TaskNext(t) PROVE KeptInv'
  <2>1. CASE DelayIsOver(t) \/ HasCooled(t) \/ PlugSwitches(t) \/ StaysHot(t)
    <3>1. /\ UNCHANGED <<cause, flag, marks, inbox, lastEnd>> /\ (printing' => printing)
          /\ \A s \in Tasks : Live(s)' => Live(s)
      BY <1>0, <2>1 DEF DelayIsOver, HasCooled, PlugSwitches, StaysHot, printerVars, TaskTypes, Live
    <3>2. LatestMark' = LatestMark
      BY <3>1 DEF LatestMark
    <3> QED
      BY <1>0, <1>1, <1>2, <3>1, <3>2, PendingFrame, KeptFrame
  <2>2. CASE Skips(t) \/ MarkAutoOffExecuted(t)
    <3>1. ~SomeLive' /\ ~LatestMark'
      BY <1>0, <2>2, EndsAlone DEF Skips, MarkAutoOffExecuted
    <3>2. ~PendingOff' /\ ~StartupRuns'
      BY <3>1 DEF PendingOff, StartupRuns, SomeLive
    <3>3. UNCHANGED <<inbox, lastEnd, printing>>
      BY <2>2 DEF Skips, MarkAutoOffExecuted, printerVars
    <3> QED
      BY <1>0, <1>1, <3>2, <3>3, KeptFrame
  <2>3. CASE TimesOut(t) \/ TurnOffFails(t)
    BY <2>3 DEF TimesOut, TurnOffFails
  <2> QED
    BY <1>13, <2>1, <2>2, <2>3 DEF TaskNext
<1>14. CASE Restart
  <2>1. /\ inbox = <<>> /\ marks = <<>> /\ UNCHANGED <<inbox, marks, flag, cause, lastEnd, printing>>
        /\ \A t \in Tasks : ~Live(t)'
    BY <1>14 DEF Restart, Live
  <2>2. LatestMark' = LatestMark
    BY <2>1 DEF LatestMark
  <2> QED
    BY <1>0, <1>1, <1>2, <2>1, <2>2, PendingFrame, KeptFrame
<1>15. CASE ResumeFindsNothing
  <2>1. UNCHANGED <<phase, cause, flag, marks, inbox, lastEnd, printing>>
    BY <1>15 DEF ResumeFindsNothing, taskVars, printerVars
  <2> QED
    BY <1>4, <2>1
<1>16. CASE ResumeDrops
  <2>1. /\ ~flag' /\ marks' = <<>> /\ UNCHANGED <<phase, cause, inbox, lastEnd, printing>>
        /\ \A t \in Tasks : ~Live(t)
    BY <1>16 DEF ResumeDrops, Clears, taskVars, printerVars
  <2>2. ~PendingOff' /\ ~StartupRuns'
    BY <2>1 DEF PendingOff, LatestMark, StartupRuns, Live
  <2> QED
    BY <1>0, <1>1, <2>1, <2>2, KeptFrame
<1>17. CASE ResumePendingAutoOff
  <2>1. UNCHANGED <<inbox, lastEnd, printing>> /\ flag
    BY <1>17 DEF ResumePendingAutoOff, printerVars
  <2>2. CASE mode = "temperature"
    <3>1. ScheduleOff("resume", mishaps)
      BY <1>17, <2>2 DEF ResumePendingAutoOff
    <3>2. StartupRuns' <=> StartupRuns
      BY <1>0, <3>1, ScheduledAlone DEF Types, Causes
    <3>3. PendingOff
      BY <2>1, <2>2, <3>1 DEF ScheduleOff, Fits, PendingOff, LatestMark
    <3> QED
      BY <1>0, <1>1, <2>1, <3>2, <3>3, KeptFrame
  <2>3. CASE mode # "temperature"
    <3>1. PICK t \in Tasks : /\ phase' = [phase EXCEPT ![t] = "turning"]
                             /\ cause' = [cause EXCEPT ![t] = "startup"]
      BY <1>17, <2>3 DEF ResumePendingAutoOff
    <3>2. PendingOff' => PendingOff
      BY <1>0, <1>2, <2>3, <3>1 DEF TaskTypes, PendingOff, Live
    <3> QED
      BY <1>0, <1>1, <2>1, <2>3, <3>2, KeptFrame
  <2> QED
    BY <2>2, <2>3
<1> QED
  BY <1>5, <1>6, <1>7, <1>8, <1>9, <1>10, <1>11, <1>12, <1>13, <1>14, <1>15, <1>16, <1>17 DEF Next

-----------------------------------------------------------------------------
(* The theorems *)

\* The initial state is well typed and the registry is empty.
LEMMA InitTypes == Init => Types /\ RegistryInv
<1> SUFFICES ASSUME Init PROVE Types /\ RegistryInv
  OBVIOUS
<1>1. SettingTypes /\ InboxType
  BY PlugAssumption DEF PlugAssumption, Init, SettingTypes, InboxType
<1>2. PrinterTypes
  <2>1. power = TRUE /\ printing = FALSE /\ known = TRUE /\ prints = 0 /\ lastEnd = "none"
    BY DEF Init
  <2>2. 0 \in 0..MaxPrints
    BY PlugAssumption DEF PlugAssumption
  <2> QED
    BY <2>1, <2>2, Zenon DEF PrinterTypes
<1>3. TaskTypes
  BY PlugAssumption DEF PlugAssumption, Init, TaskTypes, Phase, Causes, None
<1>4. marks \in Seq(BOOLEAN) /\ flag = FALSE /\ resuming = FALSE
  BY DEF Init
<1>5. HistoryType
  BY DEF Init, HistoryType
<1>6. RegistryInv
  BY DEF Init, RegistryInv, TimerIsCancellable, Live
<1> QED
  BY <1>1, <1>2, <1>3, <1>4, <1>5, <1>6 DEF Types, FlagTypes

\* No power-off is pending at first, and no callback waits.
LEMMA InitHistory == Init => FlagInv /\ KeptInv
<1> SUFFICES ASSUME Init PROVE FlagInv /\ KeptInv
  OBVIOUS
<1>1. ~SomeLive /\ ~StartupRuns
  BY DEF Init, SomeLive, StartupRuns, Live
<1>2. ~LatestMark /\ ~resuming
  BY DEF Init, LatestMark
<1>3. InboxInv
  <2>1. DOMAIN inbox = {}
    BY DEF Init
  <2> QED
    BY <2>1, Zenon DEF InboxInv
<1>4. ~PendingOff
  BY <1>1, <1>2, Zenon DEF PendingOff, SomeLive
<1> QED
  BY <1>1, <1>2, <1>3, <1>4, Zenon DEF FlagInv, KeptInv, PendingInv, StartupInv

\* What holds in every reachable state.
Inv == Types /\ RegistryInv /\ FlagInv /\ KeptInv

LEMMA Invariance == Spec => []Inv
<1>1. Init => Inv
  BY InitTypes, InitHistory, Zenon DEF Inv
<1>2. Inv /\ [Next]_vars => Inv'
  BY TypesStep, RegistryStep, FlagStep, KeptStep, Zenon DEF Inv
<1> QED
  BY <1>1, <1>2, PTL DEF Spec

\* Type correctness.
THEOREM PlugTypes == Spec => []TypeOK
<1>1. Inv => TypeOK
  BY TypesAreTypeOK, Zenon DEF Inv
<1> QED
  BY <1>1, Invariance, PTL

\* A task that can still cut the power can be cancelled, through the registry,
\* unless one task has replaced another.
THEOREM TimersAreCancellable == Spec => []TimerIsCancellable
<1>1. Inv => TimerIsCancellable
  BY DEF Inv, RegistryInv
<1> QED
  BY <1>1, Invariance, PTL

\* The registry keeps no task that is over.
THEOREM RegisteredIsLive == Spec => []EntryIsLive
<1>1. Inv => EntryIsLive
  BY DEF Inv, RegistryInv, EntryIsLive
<1> QED
  BY <1>1, Invariance, PTL

\* When nothing it has no answer to has happened and the startup has read the
\* flag, the last write of the flag says whether a power-off is pending.
THEOREM FlagIsRight == Spec => []FlagTells
<1>1. Inv => FlagTells
  <2> SUFFICES ASSUME FlagInv, mishaps = {}, ~resuming,
                      \A t \in Tasks : Live(t) => cause[t] # "startup"
               PROVE  LatestMark <=> \E t \in Tasks : Live(t)
    BY Zenon DEF Inv, FlagTells
  <2>1. ~StartupRuns
    BY Zenon DEF StartupRuns
  <2> QED
    BY <2>1, Zenon DEF FlagInv, SomeLive
<1> QED
  BY <1>1, Invariance, PTL

\* A task that cuts the power is pending, so with no callback waiting the
\* printer is as the last completed print has left it.
LEMMA CutsAfterCompleted ==
    KeptInv => \A t \in Tasks :
        Cuts(t) /\ cause[t] # "startup" /\ uses = {"auto"} /\ inbox = <<>> /\ mishaps = {}
            => ~printing /\ lastEnd = "completed"
<1> SUFFICES ASSUME KeptInv, NEW t \in Tasks, Cuts(t), cause[t] # "startup", uses = {"auto"},
                    inbox = <<>>, mishaps = {}
             PROVE  ~printing /\ lastEnd = "completed"
  OBVIOUS
<1>1. Live(t)
  BY DEF Cuts, Live
<1>2. PendingOff
  BY <1>1, Zenon DEF PendingOff
<1> QED
  BY <1>2, Zenon DEF KeptInv, PendingInv

\* The power-off of a completed print never hits a printer that prints, or one
\* that is kept on because its last print failed.
THEOREM KeptOn == Spec => KeptOnAfterFailure
<1>1. Inv /\ [Next]_vars =>
        [\A t \in Tasks :
            Cuts(t) /\ cause[t] # "startup" /\ uses = {"auto"} /\ inbox = <<>> /\ mishaps = {}
                => ~printing /\ lastEnd = "completed"]_vars
  BY CutsAfterCompleted, Zenon DEF Inv
<1> QED
  BY <1>1, Invariance, PTL DEF Spec, KeptOnAfterFailure
=============================================================================
