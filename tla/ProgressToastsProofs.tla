------------------------ MODULE ProgressToastsProofs ------------------------
(***************************************************************************)
(* The progress toasts, for any number of queue rows, slice jobs,          *)
(* messages, requests and faults: what the toasts tell is so.              *)
(***************************************************************************)
EXTENDS ProgressToasts, SequenceTheorems, TLAPS

Message == [type : {"uploading", "acked", "failed"}, job : Jobs]

\* The word on the end of the dispatch of j comes after position i.
EndFollows(j, i) == \E k \in (i + 1)..Len(wire) : wire[k].job = j /\ wire[k].type # "uploading"

\* What ToastTells rests on: the same holds for an upload on the wire that
\* is yet to be shown.
AnnouncedEnds ==
    \A j \in Jobs : \A i \in 1..Len(wire) :
        wire[i].type = "uploading" /\ wire[i].job = j =>
            dispatch[j] # "idle" \/ j \in silent \/ EndFollows(j, i)

\* What SpinnerTells rests on: a finished slice has no start time.
FinishedForgets == finished \cap started = {}

IInv == TypeOK /\ ToastTells /\ AnnouncedEnds /\ SpinnerTells /\ FinishedForgets

WireInv == TypeOK /\ ToastTells /\ AnnouncedEnds


-----------------------------------------------------------------------------

\* Nothing is shown in the initial state.
LEMMA InitInv == Init => IInv
  <1> SUFFICES ASSUME Init PROVE IInv
    OBVIOUS
  <1>1. TypeOK
    <2>1. dispatches \in [Jobs -> 0..MaxDispatches] /\ polls \in [Slices -> 0..MaxPolls]
      BY ToastAssumption DEF Init, ToastAssumption
    <2>2. wire \in Seq([type : {"uploading", "acked", "failed"}, job : Jobs]) /\ Len(wire) <= MaxWire
      BY ToastAssumption DEF Init, ToastAssumption
    <2>3. faults \in 0..MaxFaults
      BY ToastAssumption DEF Init, ToastAssumption
    <2>4. online \in BOOLEAN /\ armed \in BOOLEAN
      BY DEF Init
    <2> QED BY <2>1, <2>2, <2>3, <2>4 DEF Init, TypeOK
  <1>2. ToastTells /\ AnnouncedEnds
    BY DEF Init, ToastTells, AnnouncedEnds
  <1>3. SpinnerTells /\ FinishedForgets
    BY DEF Init, SpinnerTells, FinishedForgets
  <1> QED BY <1>1, <1>2, <1>3 DEF IInv

\* A word stays a word, and follows what it followed, while the wire grows.
LEMMA WordsStay ==
  ASSUME Len(wire) \in Nat, Len(wire') \in Nat, Len(wire) <= Len(wire'),
         \A i \in 1..Len(wire) : wire'[i] = wire[i],
         NEW j
  PROVE /\ j \in Words => j \in Words'
        /\ \A i \in Nat : EndFollows(j, i) => EndFollows(j, i)'
  <1>1. ASSUME j \in Words PROVE j \in Words'
    <2>1. PICK k \in 1..Len(wire) : wire[k].type # "uploading" /\ wire[k].job = j
      BY <1>1 DEF Words
    <2>2. k \in 1..Len(wire') /\ wire'[k] = wire[k]
      BY <2>1
    <2> QED BY <2>1, <2>2 DEF Words
  <1>2. ASSUME NEW i \in Nat, EndFollows(j, i) PROVE EndFollows(j, i)'
    <2>1. PICK k \in (i + 1)..Len(wire) : wire[k].job = j /\ wire[k].type # "uploading"
      BY <1>2 DEF EndFollows
    <2>2. k \in (i + 1)..Len(wire') /\ wire'[k] = wire[k]
      BY <2>1
    <2> QED BY <2>1, <2>2 DEF EndFollows
  <1> QED BY <1>1, <1>2

\* A message sent on the wire: the wire stays a sequence of messages, and
\* what was on it stays where it was.
LEMMA SendTypes ==
  ASSUME TypeOK, NEW j \in Jobs, NEW type \in {"uploading", "acked", "failed"}, Send(type, j)
  PROVE /\ wire' \in Seq(Message) /\ Len(wire') <= MaxWire
        /\ online => /\ Len(wire') = Len(wire) + 1
                     /\ wire'[Len(wire')] = [type |-> type, job |-> j]
                     /\ \A i \in 1..Len(wire) : wire'[i] = wire[i]
        /\ ~online => wire' = wire
  <1>1. wire \in Seq(Message) /\ Len(wire) <= MaxWire /\ MaxWire \in Nat
    BY ToastAssumption DEF TypeOK, Message, ToastAssumption
  <1>2. [type |-> type, job |-> j] \in Message
    BY DEF Message
  <1>3. CASE online
    <2>1. wire' = Append(wire, [type |-> type, job |-> j]) /\ Len(wire) < MaxWire
      BY <1>3 DEF Send
    <2> QED BY <1>1, <1>2, <1>3, <2>1
  <1>4. CASE ~online
    BY <1>1, <1>4 DEF Send
  <1> QED BY <1>3, <1>4

-----------------------------------------------------------------------------
(* The dispatches *)

\* An upload that begins answers for its own message and its card.
LEMMA StartUploadStep ==
  ASSUME WireInv, NEW j \in Jobs, StartUpload(j)
  PROVE WireInv'
  <1>1. /\ dispatch' = [dispatch EXCEPT ![j] = "uploading"] /\ silent' = silent \ {j}
        /\ Send("uploading", j) /\ UNCHANGED <<card, online>>
    BY DEF StartUpload, sliceVars
  <1>2. /\ wire' \in Seq(Message) /\ Len(wire') <= MaxWire
        /\ online => /\ Len(wire') = Len(wire) + 1
                     /\ wire'[Len(wire')] = [type |-> "uploading", job |-> j]
                     /\ \A i \in 1..Len(wire) : wire'[i] = wire[i]
        /\ ~online => wire' = wire
    BY <1>1, SendTypes DEF WireInv
  <1>3. Len(wire) \in Nat /\ dispatch \in [Jobs -> {"idle", "uploading", "awaiting"}]
    BY DEF WireInv, TypeOK
  <1>4. TypeOK'
    <2>1. dispatches' \in [Jobs -> 0..MaxDispatches]
      BY ToastAssumption DEF StartUpload, WireInv, TypeOK, ToastAssumption
    <2> QED BY <1>1, <1>2, <2>1 DEF StartUpload, WireInv, TypeOK, Message, sliceVars
  <1>5. ToastTells'
    <2> SUFFICES ASSUME NEW h \in Jobs, card'[h] = "processing"
                 PROVE dispatch'[h] # "idle" \/ h \in Words' \/ h \in silent'
      BY DEF ToastTells
    <2>1. CASE h = j
      BY <1>1, <1>3, <2>1
    <2>2. CASE h # j
      <3>1. dispatch[h] # "idle" \/ h \in Words \/ h \in silent
        BY <1>1 DEF WireInv, ToastTells
      <3>2. h \in Words => h \in Words'
        BY <1>2, <1>3, WordsStay
      <3> QED BY <1>1, <1>3, <2>2, <3>1, <3>2
    <2> QED BY <2>1, <2>2
  <1>6. AnnouncedEnds'
    <2> SUFFICES ASSUME NEW h \in Jobs, NEW i \in 1..Len(wire'),
                        wire'[i].type = "uploading", wire'[i].job = h, h # j
                 PROVE dispatch'[h] # "idle" \/ h \in silent' \/ EndFollows(h, i)'
      BY <1>1, <1>3 DEF AnnouncedEnds
    <2>1. i \in 1..Len(wire) /\ wire'[i] = wire[i] /\ Len(wire') \in Nat /\ Len(wire) <= Len(wire')
      BY <1>2, <1>3
    <2>2. dispatch[h] # "idle" \/ h \in silent \/ EndFollows(h, i)
      BY <2>1 DEF WireInv, AnnouncedEnds
    <2>3. EndFollows(h, i) => EndFollows(h, i)'
      <3>1. \A n \in Nat : EndFollows(h, n) => EndFollows(h, n)'
        BY <1>2, <1>3, <2>1, WordsStay
      <3> QED BY <3>1, <1>3, <2>1
    <2> QED BY <1>1, <1>3, <2>2, <2>3
  <1> QED BY <1>4, <1>5, <1>6 DEF WireInv

\* However a dispatch ends, its end is reported or the row is silent.
LEMMA EndStep ==
  ASSUME WireInv, TypeOK', NEW j \in Jobs, NEW type \in {"acked", "failed"},
         UNCHANGED card, \A h \in Jobs : h # j => dispatch'[h] = dispatch[h],
         \/ Report(type, j)
         \/ silent' = silent \cup {j} /\ UNCHANGED wire
  PROVE WireInv'
  <1>1. Len(wire) \in Nat
    BY DEF WireInv, TypeOK
  <1>2. silent \subseteq silent'
    BY DEF Report
  <1>3. /\ Len(wire') \in Nat
        /\ Len(wire) <= Len(wire') /\ \A i \in 1..Len(wire) : wire'[i] = wire[i]
        /\ \A i \in 1..Len(wire') : i > Len(wire) => wire'[i] = [type |-> type, job |-> j]
        /\ j \in silent' \/ Len(wire') = Len(wire) + 1
    <2>1. CASE silent' = silent \cup {j} /\ UNCHANGED wire
      BY <1>1, <2>1
    <2>2. CASE Report(type, j)
      <3>1. Send(type, j) /\ (~online => j \in silent')
        BY <2>2 DEF Report
      <3>2. /\ online => /\ Len(wire') = Len(wire) + 1
                         /\ wire'[Len(wire')] = [type |-> type, job |-> j]
                         /\ \A i \in 1..Len(wire) : wire'[i] = wire[i]
            /\ ~online => wire' = wire
        BY <3>1, SendTypes DEF WireInv
      <3>3. CASE online
        BY <1>1, <3>2, <3>3
      <3>4. CASE ~online
        BY <1>1, <3>1, <3>2, <3>4
      <3> QED BY <3>3, <3>4
    <2> QED BY <2>1, <2>2
  <1>4. ToastTells'
    <2> SUFFICES ASSUME NEW h \in Jobs, card'[h] = "processing"
                 PROVE dispatch'[h] # "idle" \/ h \in Words' \/ h \in silent'
      BY DEF ToastTells
    <2>1. CASE h = j /\ j \notin silent'
      <3>1. Len(wire') = Len(wire) + 1 /\ Len(wire') \in 1..Len(wire')
        BY <1>1, <1>3, <2>1
      <3>2. wire'[Len(wire')] = [type |-> type, job |-> j]
        BY <1>1, <1>3, <3>1
      <3>3. wire'[Len(wire')].job = h /\ wire'[Len(wire')].type # "uploading"
        BY <2>1, <3>2
      <3> QED BY <3>1, <3>3 DEF Words
    <2>2. CASE h # j
      <3>1. dispatch[h] # "idle" \/ h \in Words \/ h \in silent
        BY DEF WireInv, ToastTells
      <3>2. h \in Words => h \in Words'
        BY <1>1, <1>3, WordsStay
      <3> QED BY <1>2, <2>2, <3>1, <3>2
    <2> QED BY <2>1, <2>2
  <1>5. AnnouncedEnds'
    <2> SUFFICES ASSUME NEW h \in Jobs, NEW i \in 1..Len(wire'),
                        wire'[i].type = "uploading", wire'[i].job = h
                 PROVE dispatch'[h] # "idle" \/ h \in silent' \/ EndFollows(h, i)'
      BY DEF AnnouncedEnds
    <2>1. i \in 1..Len(wire) /\ wire'[i] = wire[i]
      BY <1>1, <1>3
    <2>2. dispatch[h] # "idle" \/ h \in silent \/ EndFollows(h, i)
      BY <2>1 DEF WireInv, AnnouncedEnds
    <2>3. EndFollows(h, i) => EndFollows(h, i)'
      <3>1. \A n \in Nat : EndFollows(h, n) => EndFollows(h, n)'
        BY <1>1, <1>3, WordsStay
      <3> QED BY <3>1, <1>1, <2>1
    <2>4. CASE h = j /\ j \notin silent'
      <3>1. Len(wire') = Len(wire) + 1 /\ Len(wire') \in (i + 1)..Len(wire')
        BY <1>1, <1>3, <2>1, <2>4
      <3>2. wire'[Len(wire')] = [type |-> type, job |-> j]
        BY <1>1, <1>3, <3>1
      <3>3. wire'[Len(wire')].job = h /\ wire'[Len(wire')].type # "uploading"
        BY <2>4, <3>2
      <3> QED BY <3>1, <3>3 DEF EndFollows
    <2> QED BY <1>2, <2>2, <2>3, <2>4
  <1> QED BY <1>4, <1>5 DEF WireInv

\* A refused dispatch is reported or its row is silent.
LEMMA RefuseStep ==
  ASSUME WireInv, NEW j \in Jobs, RefuseDispatch(j)
  PROVE WireInv'
  <1>1. /\ Report("failed", j) /\ Send("failed", j)
        /\ UNCHANGED <<card, dispatch, slice, online, faults, armed, sliceVars>>
    BY DEF RefuseDispatch, Report
  <1>2. wire' \in Seq(Message) /\ Len(wire') <= MaxWire
    BY <1>1, SendTypes DEF WireInv
  <1>3. dispatches' \in [Jobs -> 0..MaxDispatches] /\ silent' \subseteq Jobs
    BY ToastAssumption DEF RefuseDispatch, Report, WireInv, TypeOK, ToastAssumption
  <1>4. TypeOK'
    BY <1>1, <1>2, <1>3 DEF WireInv, TypeOK, Message, sliceVars
  <1> QED BY <1>1, <1>4, EndStep

\* So is every other dispatch that ends; one that goes on stays one.
LEMMA DispatchStep ==
  ASSUME WireInv, NEW j \in Jobs,
         \/ DispatchFails(j) \/ DispatchDeferred(j) \/ StartPrint(j)
         \/ PrintAcked(j) \/ WatchdogGivesUp(j) \/ WatchdogIsSilent(j)
  PROVE WireInv'
  <1>1. /\ dispatch' \in [Jobs -> {"idle", "uploading", "awaiting"}]
        /\ \A h \in Jobs : h # j => dispatch'[h] = dispatch[h]
        /\ UNCHANGED <<dispatches, slice, online, faults, card, armed, sliceVars>>
    BY DEF DispatchFails, DispatchDeferred, StartPrint, PrintAcked, WatchdogGivesUp,
           WatchdogIsSilent, Dispatched, WireInv, TypeOK
  <1>2. CASE StartPrint(j)
    <2>1. \A h \in Jobs : dispatch[h] # "idle" => dispatch'[h] # "idle"
      BY <1>2 DEF StartPrint, Dispatched, WireInv, TypeOK
    <2>2. UNCHANGED <<wire, silent, card>>
      BY <1>1, <1>2 DEF StartPrint
    <2>3. TypeOK'
      BY <1>1, <2>2 DEF WireInv, TypeOK, sliceVars
    <2>4. ToastTells'
      BY <2>1, <2>2 DEF WireInv, ToastTells, Words
    <2>5. AnnouncedEnds'
      BY <2>1, <2>2 DEF WireInv, AnnouncedEnds, EndFollows
    <2> QED BY <2>3, <2>4, <2>5 DEF WireInv
  <1>3. ASSUME NEW type \in {"acked", "failed"}, Report(type, j)
        PROVE WireInv'
    <2>1. Send(type, j) /\ silent' \subseteq Jobs
      BY <1>3 DEF Report, WireInv, TypeOK
    <2>2. wire' \in Seq(Message) /\ Len(wire') <= MaxWire
      BY <2>1, SendTypes DEF WireInv
    <2>3. TypeOK'
      BY <1>1, <2>1, <2>2 DEF WireInv, TypeOK, Message, sliceVars
    <2> QED BY <1>1, <1>3, <2>3, EndStep
  <1>4. CASE silent' = silent \cup {j} /\ UNCHANGED wire
    <2>1. TypeOK'
      BY <1>1, <1>4 DEF WireInv, TypeOK, sliceVars
    <2> QED BY <1>1, <1>4, <2>1, EndStep
  <1> QED BY <1>2, <1>3, <1>4
      DEF DispatchFails, DispatchDeferred, PrintAcked, WatchdogGivesUp, WatchdogIsSilent

-----------------------------------------------------------------------------
(* The wire *)

\* A word that is lost with the wire leaves its row silent.
LEMMA LostStep ==
  ASSUME WireInv, ConnectionLost \/ ServerRestarts
  PROVE WireInv'
  <1>1. /\ wire' = <<>> /\ UNCHANGED card /\ silent \cup Words \subseteq silent'
        /\ \A j \in Jobs : dispatch'[j] = dispatch[j] \/ j \in silent' \/ dispatch[j] = "idle"
    BY DEF ConnectionLost, ServerRestarts, WireInv, TypeOK
  <1>2. Words \subseteq Jobs
    <2> SUFFICES ASSUME NEW j \in Words PROVE j \in Jobs
      OBVIOUS
    <2>1. PICK i \in 1..Len(wire) : wire[i].job = j
      BY DEF Words
    <2>2. wire \in Seq(Message)
      BY DEF WireInv, TypeOK, Message
    <2>3. wire[i] \in Message
      BY <2>2, ElementOfSeq
    <2> QED BY <2>1, <2>3 DEF Message
  <1>3. TypeOK'
    <2>1. faults' \in 0..MaxFaults /\ silent' \subseteq Jobs
      BY <1>2, ToastAssumption DEF ConnectionLost, ServerRestarts, WireInv, TypeOK, ToastAssumption
    <2>2. wire' \in Seq([type : {"uploading", "acked", "failed"}, job : Jobs]) /\ Len(wire') <= MaxWire
      BY <1>1, ToastAssumption DEF ToastAssumption
    <2>3. /\ dispatch' \in [Jobs -> {"idle", "uploading", "awaiting"}]
          /\ slice' \in [Slices -> {"none", "running", "gone"} \cup Terminal]
          /\ online' \in BOOLEAN
      BY DEF ConnectionLost, ServerRestarts, WireInv, TypeOK
    <2> QED BY <2>1, <2>2, <2>3 DEF ConnectionLost, ServerRestarts, WireInv, TypeOK, sliceVars
  <1>4. ToastTells'
    BY <1>1 DEF WireInv, ToastTells
  <1>5. AnnouncedEnds'
    BY <1>1 DEF AnnouncedEnds
  <1> QED BY <1>3, <1>4, <1>5 DEF WireInv

\* A message that is shown leaves the wire; what followed it still does.
LEMMA EventStep ==
  ASSUME WireInv, OnDispatchEvent
  PROVE WireInv'
  <1>1. wire \in Seq(Message) /\ wire # <<>> /\ wire' = Tail(wire)
    BY DEF OnDispatchEvent, WireInv, TypeOK, Message
  <1>2. /\ Len(wire) \in Nat \ {0} /\ Len(wire') = Len(wire) - 1 /\ wire' \in Seq(Message)
        /\ \A i \in 1..Len(wire') : wire'[i] = wire[i + 1]
    BY <1>1
  <1>3. PICK m \in Message : m = wire[1] /\ card' = [card EXCEPT ![m.job] = Shown(@, m.type)]
    <2>1. Head(wire) = wire[1] /\ wire[1] \in Message
      BY <1>1, <1>2, ElementOfSeq
    <2> QED BY <2>1 DEF OnDispatchEvent
  <1>4. m.job \in Jobs /\ m.type \in {"uploading", "acked", "failed"}
    BY DEF Message
  <1>5. UNCHANGED <<dispatch, dispatches, slice, online, faults, silent, sliceVars>>
    BY DEF OnDispatchEvent
  <1>6. TypeOK'
    <2>1. card' \in [Jobs -> {"absent", "processing"} \cup Terminal]
      BY <1>3, <1>4 DEF Shown, WireInv, TypeOK, Terminal
    <2>2. armed' \in BOOLEAN
      BY DEF OnDispatchEvent, Arms, WireInv, TypeOK
    <2>3. Len(wire') <= MaxWire
      BY <1>2, ToastAssumption DEF WireInv, TypeOK, ToastAssumption
    <2> QED BY <1>2, <1>5, <2>1, <2>2, <2>3 DEF WireInv, TypeOK, Message, sliceVars
  <1>7. ASSUME NEW j \in Jobs, NEW k \in 2..Len(wire), wire[k].job = j, wire[k].type # "uploading"
        PROVE j \in Words'
    <2>1. k - 1 \in 1..Len(wire') /\ wire'[k - 1] = wire[k]
      BY <1>2
    <2> QED BY <1>7, <2>1 DEF Words
  <1>8. ToastTells'
    <2> SUFFICES ASSUME NEW j \in Jobs, card'[j] = "processing"
                 PROVE dispatch'[j] # "idle" \/ j \in Words' \/ j \in silent'
      BY DEF ToastTells
    <2>1. CASE j = m.job /\ m.type = "uploading"
      <3>1. dispatch[j] # "idle" \/ j \in silent \/ EndFollows(j, 1)
        BY <1>2, <1>3, <2>1 DEF WireInv, AnnouncedEnds
      <3>2. EndFollows(j, 1) => j \in Words'
        BY <1>7 DEF EndFollows
      <3> QED BY <1>5, <3>1, <3>2
    <2>2. CASE j = m.job /\ m.type # "uploading"
      BY <1>3, <1>4, <2>2 DEF Shown, WireInv, TypeOK
    <2>3. CASE j # m.job
      <3>1. dispatch[j] # "idle" \/ j \in silent \/ j \in Words
        BY <1>3, <2>3 DEF WireInv, ToastTells, TypeOK
      <3>2. ASSUME j \in Words PROVE j \in Words'
        <4>1. PICK k \in 1..Len(wire) : wire[k].type # "uploading" /\ wire[k].job = j
          BY <3>2 DEF Words
        <4>2. k \in 2..Len(wire)
          BY <1>2, <1>3, <2>3, <4>1
        <4> QED BY <1>7, <4>1, <4>2
      <3> QED BY <1>5, <3>1, <3>2
    <2> QED BY <2>1, <2>2, <2>3
  <1>9. AnnouncedEnds'
    <2> SUFFICES ASSUME NEW j \in Jobs, NEW i \in 1..Len(wire'), wire'[i].type = "uploading", wire'[i].job = j
                 PROVE dispatch'[j] # "idle" \/ j \in silent' \/ EndFollows(j, i)'
      BY DEF AnnouncedEnds
    <2>1. i + 1 \in 1..Len(wire) /\ wire[i + 1] = wire'[i]
      BY <1>2
    <2>2. dispatch[j] # "idle" \/ j \in silent \/ EndFollows(j, i + 1)
      BY <2>1 DEF WireInv, AnnouncedEnds
    <2>3. ASSUME EndFollows(j, i + 1) PROVE EndFollows(j, i)'
      <3>1. PICK k \in (i + 2)..Len(wire) : wire[k].job = j /\ wire[k].type # "uploading"
        BY <2>3 DEF EndFollows
      <3>2. k - 1 \in (i + 1)..Len(wire') /\ wire'[k - 1] = wire[k]
        BY <1>2, <3>1
      <3> QED BY <3>1, <3>2 DEF EndFollows
    <2> QED BY <1>5, <2>2, <2>3
  <1> QED BY <1>6, <1>8, <1>9 DEF WireInv

-----------------------------------------------------------------------------
(* The rest *)

\* A step that touches neither the wire nor the dispatches, and only takes
\* cards away, leaves what they tell.
LEMMA OtherTells ==
  ASSUME WireInv, UNCHANGED <<dispatch, wire, silent>>,
         card' = card \/ card' = [j \in Jobs |-> "absent"]
  PROVE ToastTells' /\ AnnouncedEnds'
  BY DEF WireInv, ToastTells, AnnouncedEnds, Words, EndFollows

\* The steps that leave the slice toasts alone.
LEMMA TabStep ==
  ASSUME WireInv,
         \/ Reconnect \/ DismissToast \/ DismissTimer
         \/ \E s \in Slices : Enqueue(s) \/ RunJob(s) \/ Sweep(s)
  PROVE WireInv'
  <1>1. CASE Reconnect
    <2>1. TypeOK'
      BY <1>1 DEF Reconnect, WireInv, TypeOK, sliceVars
    <2> QED BY <1>1, <2>1, OtherTells DEF Reconnect, WireInv
  <1>2. CASE DismissToast \/ DismissTimer
    <2>1. TypeOK'
      BY <1>2 DEF DismissToast, DismissTimer, WireInv, TypeOK, serverVars, sliceVars
    <2> QED BY <1>2, <2>1, OtherTells DEF DismissToast, DismissTimer, WireInv, serverVars
  <1>3. ASSUME NEW s \in Slices, Enqueue(s) \/ RunJob(s) \/ Sweep(s)
        PROVE WireInv'
    <2>1. PICK to \in {"running", "gone"} \cup Terminal : slice' = [slice EXCEPT ![s] = to]
      BY <1>3 DEF Enqueue, RunJob, Sweep, SliceSteps
    <2>2. UNCHANGED <<dispatch, dispatches, online, wire, faults, silent, card, armed, sliceVars>>
      BY <1>3 DEF Enqueue, RunJob, Sweep, SliceSteps
    <2>3. TypeOK'
      BY <2>1, <2>2 DEF WireInv, TypeOK, sliceVars
    <2> QED BY <2>2, <2>3, OtherTells DEF WireInv
  <1> QED BY <1>1, <1>2, <1>3

\* The steps of the slice toasts.
LEMMA SliceStep ==
  ASSUME IInv,
         \/ Render \/ Tick \/ Poll
         \/ \E s \in Slices : TrackJob(s) \/ DismissSpinner(s) \/ PollTellsNothing(s) \/ CompleteJob(s)
  PROVE IInv'
  <1>1. UNCHANGED <<serverVars, card, armed>>
    BY DEF Render, Tick, Poll, TrackJob, DismissSpinner, PollTellsNothing, CompleteJob
  <1>2. /\ tracked' \subseteq Slices /\ listed' \subseteq Slices /\ started' \subseteq Slices
        /\ spinner' \subseteq Slices /\ finished' \subseteq Slices
    BY DEF IInv, TypeOK, Render, Tick, Rendered, Poll, TrackJob, DismissSpinner, PollTellsNothing,
           CompleteJob, DismissedOnCompletion
  <1>3. polls' \in [Slices -> 0..MaxPolls]
    <2>1. polls \in [Slices -> 0..MaxPolls] /\ MaxPolls \in Nat
      BY ToastAssumption DEF IInv, TypeOK, ToastAssumption
    <2>2. CASE Poll
      BY <2>1, <2>2 DEF Poll
    <2>3. ASSUME NEW s \in Slices, PollTellsNothing(s) \/ CompleteJob(s)
          PROVE polls' \in [Slices -> 0..MaxPolls]
      BY <2>1, <2>3 DEF PollTellsNothing, CompleteJob
    <2>4. CASE UNCHANGED polls
      BY <2>1, <2>4
    <2> QED BY <2>2, <2>3, <2>4 DEF Render, Tick, TrackJob, DismissSpinner
  <1>4. TypeOK'
    BY <1>1, <1>2, <1>3 DEF IInv, TypeOK, serverVars
  <1>5. ToastTells' /\ AnnouncedEnds'
    BY <1>1, OtherTells DEF IInv, WireInv, serverVars
  <1>6. SpinnerTells' /\ FinishedForgets'
    BY DEF IInv, SpinnerTells, FinishedForgets, Render, Tick, Rendered, Poll, TrackJob, DismissSpinner,
           PollTellsNothing, CompleteJob, DismissedOnCompletion
  <1> QED BY <1>4, <1>5, <1>6 DEF IInv

\* Every step keeps the invariant.
LEMMA InvNext == IInv /\ [Next]_vars => IInv'
  <1> SUFFICES ASSUME IInv, [Next]_vars PROVE IInv'
    OBVIOUS
  <1>1. ASSUME WireInv', UNCHANGED sliceVars PROVE IInv'
    BY <1>1 DEF IInv, WireInv, SpinnerTells, FinishedForgets, sliceVars
  <1>2. WireInv
    BY DEF IInv, WireInv
  <1>3. CASE UNCHANGED vars
    <2>1. TypeOK' /\ UNCHANGED sliceVars
      BY <1>3 DEF IInv, TypeOK, vars, serverVars, sliceVars
    <2>2. ToastTells' /\ AnnouncedEnds'
      BY <1>2, <1>3, OtherTells DEF vars, serverVars
    <2> QED BY <1>1, <2>1, <2>2 DEF WireInv
  <1>4. ASSUME NEW j \in Jobs,
               \/ StartUpload(j) \/ RefuseDispatch(j) \/ DispatchFails(j) \/ DispatchDeferred(j)
               \/ StartPrint(j) \/ PrintAcked(j) \/ WatchdogGivesUp(j) \/ WatchdogIsSilent(j)
        PROVE IInv'
    <2>1. UNCHANGED sliceVars
      BY <1>4 DEF StartUpload, RefuseDispatch, DispatchFails, DispatchDeferred, StartPrint,
                  PrintAcked, WatchdogGivesUp, WatchdogIsSilent, Dispatched
    <2>2. WireInv'
      BY <1>2, <1>4, StartUploadStep, RefuseStep, DispatchStep
    <2> QED BY <1>1, <2>1, <2>2
  <1>5. CASE ConnectionLost \/ ServerRestarts
    BY <1>1, <1>2, <1>5, LostStep DEF ConnectionLost, ServerRestarts
  <1>6. CASE OnDispatchEvent
    BY <1>1, <1>2, <1>6, EventStep DEF OnDispatchEvent
  <1>7. CASE Reconnect \/ DismissToast \/ DismissTimer
    BY <1>1, <1>2, <1>7, TabStep DEF Reconnect, DismissToast, DismissTimer
  <1>8. ASSUME NEW s \in Slices, Enqueue(s) \/ RunJob(s) \/ Sweep(s)
        PROVE IInv'
    <2>1. UNCHANGED sliceVars
      BY <1>8 DEF Enqueue, RunJob, Sweep, SliceSteps
    <2> QED BY <1>1, <1>2, <1>8, <2>1, TabStep
  <1>9. CASE \/ Render \/ Tick \/ Poll
             \/ \E s \in Slices : TrackJob(s) \/ DismissSpinner(s) \/ PollTellsNothing(s) \/ CompleteJob(s)
    BY <1>9, SliceStep
  <1> QED BY <1>3, <1>4, <1>5, <1>6, <1>7, <1>8, <1>9 DEF Next, SchedulerNext, SliceNext

-----------------------------------------------------------------------------

\* The invariant holds in every reachable state.
THEOREM Invariant == Spec => []IInv
  BY InitInv, InvNext, PTL DEF Spec

\* Every reachable state is well typed.
THEOREM ToastTypes == Spec => []TypeOK
  <1>1. IInv => TypeOK
    BY DEF IInv
  <1> QED BY <1>1, Invariant, PTL

\* The dispatch toast tells what the scheduler does, or its end is on its
\* way or was never told (ToastContext.tsx:196-295).
THEOREM ToastIsRight == Spec => []ToastTells
  <1>1. IInv => ToastTells
    BY DEF IInv
  <1> QED BY <1>1, Invariant, PTL

\* No tick and no late answer brings the progress toast of a finished slice
\* back (SliceJobTrackerContext.tsx:162-243).
THEOREM SpinnerIsRight == Spec => []SpinnerTells
  <1>1. IInv => SpinnerTells
    BY DEF IInv
  <1> QED BY <1>1, Invariant, PTL
=============================================================================
