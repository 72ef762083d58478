---------------------------- MODULE LiveUpdates ----------------------------
(***************************************************************************)
(* How a browser tab keeps its cached status of one printer up to date.    *)
(* The hook useWebSocket runs once for every time the provider is mounted: *)
(* it fetches a token, opens a socket and, when the socket closes, tries   *)
(* again 3 seconds later. The server pushes statuses over the socket; the  *)
(* hook collects them for 100 ms and writes them into the query cache in   *)
(* the next animation frame. The page also fetches the status over HTTP    *)
(* every 30 seconds and whenever a print starts.                           *)
(*                                                                         *)
(* A status is its number in the order of the printer's changes. The hook  *)
(* awaits one thing only, the token, so everything between two callbacks   *)
(* is one step.                                                            *)
(***************************************************************************)
EXTENDS Integers, Sequences

CONSTANTS
    MaxMounts,    \* bound: times the provider is mounted
    MaxChanges,   \* bound: statuses of the printer
    MaxWire,      \* bound: statuses on the wire
    MaxFaults     \* bound: connections lost

Mounts == 1..MaxMounts
Statuses == 1..MaxChanges
None == 0

ASSUME LiveAssumption ==
    /\ MaxMounts \in Nat /\ MaxFaults \in Nat
    /\ MaxChanges \in Nat \ {0}

VARIABLES
    \* the server
    status,      \* the printer's status
    auth,        \* authentication is enabled
    allowed,     \* the session may mint a token
    wire,        \* statuses sent to the open socket
    faults,      \* connections lost so far
    \* the hook, for each mount
    mounts,      \* mounts so far
    mounted,     \* the mount that is not disposed, or None
    minting,     \* connect() awaits the token
    token,       \* the socket was opened with a token
    socket,      \* wsRef
    reconnect,   \* reconnectTimeoutRef is scheduled
    \* the cache
    pending,     \* pendingPrinterStatus
    frame,       \* the animation frame that writes the cache
    fetch,       \* the request for the status
    answer,      \* the status it was answered with
    cache,       \* the cached status
    \* history
    refused      \* mounts that were denied a token or a socket

serverVars == <<status, auth, allowed, faults>>
hookVars == <<mounts, mounted, minting, token, socket, reconnect, refused>>
cacheVars == <<pending, frame, fetch, answer, cache>>
vars == <<serverVars, wire, hookVars, cacheVars>>

SocketState == {"none", "connecting", "open", "closing"}

Init ==
    /\ status = 1 /\ auth \in BOOLEAN /\ allowed = TRUE /\ wire = <<>> /\ faults = 0
    /\ mounts = 0 /\ mounted = None
    /\ minting = [m \in Mounts |-> FALSE] /\ token = [m \in Mounts |-> FALSE]
    /\ socket = [m \in Mounts |-> "none"] /\ reconnect = [m \in Mounts |-> FALSE]
    /\ pending = None /\ frame = None /\ fetch = "none" /\ answer = None /\ cache = None
    /\ refused = {}

-----------------------------------------------------------------------------
(* The server *)

\* A status that differs from the last one sent in a field the interface
\* shows is sent; other changes are not.
StatusChanges ==
    /\ status < MaxChanges
    /\ status' = status + 1
    /\ \/ UNCHANGED wire
       \/ /\ mounted # None /\ socket[mounted] = "open" /\ Len(wire) < MaxWire
          /\ wire' = Append(wire, status')
    /\ UNCHANGED <<auth, allowed, faults, hookVars, cacheVars>>

\* The session expires or its group loses the permission.
Revoked ==
    /\ auth /\ allowed /\ allowed' = FALSE
    /\ UNCHANGED <<status, auth, faults, wire, hookVars, cacheVars>>

-----------------------------------------------------------------------------
(* The hook *)

\* The provider mounts: connect().
Mount ==
    LET m == mounts + 1 IN
    /\ mounted = None /\ m \in Mounts
    /\ mounts' = m /\ mounted' = m
    /\ minting' = [minting EXCEPT ![m] = TRUE]
    /\ UNCHANGED <<serverVars, wire, token, socket, reconnect, refused, cacheVars>>

\* The cleanup of the effect. What was pending is not written any more; a
\* frame that has been requested is.
Unmount ==
    /\ mounted # None /\ mounted' = None
    /\ reconnect' = [reconnect EXCEPT ![mounted] = FALSE]
    /\ socket' = [socket EXCEPT ![mounted] = IF @ = "none" THEN @ ELSE "closing"]
    /\ wire' = <<>> /\ pending' = None
    /\ UNCHANGED <<serverVars, mounts, minting, token, refused, frame, fetch, answer, cache>>

\* Mutation: connect() looks at disposedRef only when it starts.
DialsUnchecked(m) == TRUE

\* After the await, connect() asks again whether the provider is mounted.
Dials(m) == m = mounted

\* The token arrives; or the request fails for a reason that is no refusal,
\* and the socket is opened without a token.
Minted(m, granted) ==
    /\ minting[m] /\ minting' = [minting EXCEPT ![m] = FALSE]
    /\ socket' = [socket EXCEPT ![m] = IF Dials(m) THEN "connecting" ELSE @]
    /\ token' = [token EXCEPT ![m] = granted]
    /\ UNCHANGED <<serverVars, wire, mounts, mounted, reconnect, refused, cacheVars>>

MintGranted(m) == (auth => allowed) /\ Minted(m, TRUE)
MintFails(m) == Minted(m, FALSE)

\* 401 or 403: connect() returns, nothing will reconnect.
MintRefused(m) ==
    /\ auth /\ ~allowed
    /\ minting[m] /\ minting' = [minting EXCEPT ![m] = FALSE]
    /\ refused' = refused \cup {m}
    /\ UNCHANGED <<serverVars, wire, mounts, mounted, token, socket, reconnect, cacheVars>>

\* The server admits the socket and sends it the status.
SocketOpens(m) ==
    /\ socket[m] = "connecting" /\ (auth => token[m])
    /\ socket' = [socket EXCEPT ![m] = "open"]
    /\ wire' = <<status>>
    /\ UNCHANGED <<serverVars, mounts, mounted, minting, token, reconnect, refused, cacheVars>>

\* Mutation: onclose looks at the close code only.
ReconnectsDisposed(m, code) == code # "unauthorized"

\* Mutation: onclose reconnects a socket that had been open.
ReconnectsOpened(m, code) == m = mounted /\ code # "unauthorized" /\ socket[m] = "open"

Reconnects(m, code) == m = mounted /\ code # "unauthorized"

\* onclose. The socket is gone and with it what was on the wire.
Closed(m, code) ==
    /\ socket' = [socket EXCEPT ![m] = "none"]
    /\ reconnect' = [reconnect EXCEPT ![m] = Reconnects(m, code)]
    /\ wire' = IF socket[m] = "open" THEN <<>> ELSE wire
    /\ UNCHANGED <<status, auth, allowed, mounts, mounted, minting, token, cacheVars>>

SocketDrops(m) ==
    /\ socket[m] \in {"connecting", "open"} /\ faults < MaxFaults
    /\ faults' = faults + 1
    /\ Closed(m, "dropped") /\ UNCHANGED refused

\* The server closes a socket without a token before it accepts it. The tab
\* sees the code 4401, or a handshake that failed.
SocketRefused(m) ==
    /\ socket[m] = "connecting" /\ auth /\ ~token[m]
    /\ \/ Closed(m, "unauthorized") /\ refused' = refused \cup {m}
       \/ Closed(m, "dropped") /\ UNCHANGED refused
    /\ UNCHANGED faults

SocketCloses(m) ==
    /\ socket[m] = "closing"
    /\ Closed(m, "closed") /\ UNCHANGED <<refused, faults>>

Reconnect(m) ==
    /\ reconnect[m] /\ reconnect' = [reconnect EXCEPT ![m] = FALSE]
    /\ minting' = [minting EXCEPT ![m] = minting[m] \/ (m = mounted /\ socket[m] # "open")]
    /\ UNCHANGED <<serverVars, wire, mounts, mounted, token, socket, refused, cacheVars>>

-----------------------------------------------------------------------------
(* The cache *)

\* A pushed status joins the pending ones; the newest wins.
OnPrinterStatus ==
    /\ wire # <<>>
    /\ pending' = Head(wire) /\ wire' = Tail(wire)
    /\ UNCHANGED <<serverVars, hookVars, frame, fetch, answer, cache>>

\* The 100 ms are over: the pending status is handed to the next frame.
FlushPending ==
    /\ pending # None /\ frame = None
    /\ frame' = pending /\ pending' = None
    /\ UNCHANGED <<serverVars, wire, hookVars, fetch, answer, cache>>

WriteCache ==
    /\ frame # None
    /\ cache' = frame /\ frame' = None
    /\ UNCHANGED <<serverVars, wire, hookVars, pending, fetch, answer>>

\* Mutation: the page polls only while no socket is open.
PollsOffline == mounted # None /\ fetch = "none" /\ socket[mounted] # "open"

\* refetchInterval, "Fallback polling": with a socket as well as without.
Polls == mounted # None /\ fetch = "none"

Poll ==
    /\ Polls /\ fetch' = "sent"
    /\ UNCHANGED <<serverVars, wire, hookVars, pending, frame, answer, cache>>

\* Mutation: an answer that has arrived stays.
AnswerStays == answer

\* cancelRefetch: the request under way is dropped.
AnswerKept == None

\* A print starts: the query is invalidated and fetched anew.
Invalidate ==
    /\ mounted # None /\ fetch' = "sent" /\ answer' = AnswerKept
    /\ UNCHANGED <<serverVars, wire, hookVars, pending, frame, cache>>

FetchAnswered ==
    /\ fetch = "sent" /\ fetch' = "answered" /\ answer' = status
    /\ UNCHANGED <<serverVars, wire, hookVars, pending, frame, cache>>

FetchFails ==
    /\ fetch = "sent" /\ fetch' = "none"
    /\ UNCHANGED <<serverVars, wire, hookVars, pending, frame, answer, cache>>

\* The answer replaces what is cached, were it newer.
FetchLands ==
    /\ fetch = "answered" /\ fetch' = "none"
    /\ cache' = answer /\ answer' = None
    /\ UNCHANGED <<serverVars, wire, hookVars, pending, frame>>

-----------------------------------------------------------------------------

HookNext ==
    \/ Mount \/ Unmount
    \/ \E m \in Mounts :
        \/ MintGranted(m) \/ MintFails(m) \/ MintRefused(m)
        \/ SocketOpens(m) \/ SocketDrops(m) \/ SocketRefused(m) \/ SocketCloses(m)
        \/ Reconnect(m)

CacheNext ==
    \/ OnPrinterStatus \/ FlushPending \/ WriteCache
    \/ Poll \/ Invalidate \/ FetchAnswered \/ FetchFails \/ FetchLands

Next == StatusChanges \/ Revoked \/ HookNext \/ CacheNext

Spec == Init /\ [][Next]_vars

\* Timers, frames and messages are served in the end; a request that is made
\* again and again is answered, and so is a handshake.
Fairness ==
    /\ WF_vars(OnPrinterStatus) /\ WF_vars(FlushPending) /\ WF_vars(WriteCache)
    /\ WF_vars(Poll) /\ SF_vars(FetchAnswered) /\ SF_vars(FetchLands)
    /\ \A m \in Mounts :
        /\ SF_vars(MintGranted(m)) /\ SF_vars(MintRefused(m)) /\ WF_vars(Reconnect(m))
        /\ WF_vars(SocketOpens(m)) /\ WF_vars(SocketRefused(m)) /\ WF_vars(SocketCloses(m))

FairSpec == Spec /\ Fairness

-----------------------------------------------------------------------------
(* Properties *)

\* Every variable stays in its domain; only a request that was answered
\* carries an answer.
TypeOK ==
    /\ status \in Statuses /\ auth \in BOOLEAN /\ allowed \in BOOLEAN
    /\ faults \in 0..MaxFaults
    /\ mounts \in 0..MaxMounts /\ mounted \in {None, mounts}
    /\ minting \in [Mounts -> BOOLEAN] /\ token \in [Mounts -> BOOLEAN]
    /\ reconnect \in [Mounts -> BOOLEAN] /\ socket \in [Mounts -> SocketState]
    /\ refused \subseteq 1..mounts
    /\ wire \in Seq(Statuses) /\ pending \in Statuses \cup {None} /\ frame \in Statuses \cup {None}
    /\ fetch \in {"none", "sent", "answered"} /\ cache \in Statuses \cup {None}
    /\ answer \in Statuses \cup {None} /\ (answer = None) = (fetch # "answered")

\* The chain of attempts never forks and never breaks: a mount awaits a
\* token, has one socket or waits to reconnect, one of them at a time, and a
\* mounted provider that was not refused does one of them.
OneAttempt ==
    \A m \in Mounts :
        /\ ~(minting[m] /\ socket[m] # "none")
        /\ reconnect[m] => ~minting[m] /\ socket[m] = "none"
        /\ m = mounted /\ m \notin refused => minting[m] \/ socket[m] # "none" \/ reconnect[m]

\* A provider that is unmounted or refused is done: it requests no token,
\* opens no socket and schedules no attempt (useWebSocket.ts:33-36).
DoneIsQuiet ==
    [][\A m \in 1..mounts : m # mounted \/ m \in refused =>
        /\ minting'[m] => minting[m]
        /\ socket'[m] \in {socket[m], "closing", "none"}
        /\ reconnect'[m] => reconnect[m]]_vars

\* A mounted provider gets its socket, unless it is refused.
Reconnected ==
    \A m \in Mounts : m = mounted ~> (socket[m] = "open" \/ m # mounted \/ m \in refused)

\* Once the printer's status changes no more, the cache comes to hold it and
\* keeps it: late answers, late frames and pushes that were lost are mended,
\* with a socket and without.
CacheConverges == <>[](mounted # None => cache = status)
=============================================================================
