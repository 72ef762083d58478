------------------------- MODULE LiveUpdatesProofs -------------------------
(***************************************************************************)
(* The chain of connection attempts of useWebSocket, for any number of     *)
(* mounts, statuses and lost connections: its state is well typed, the     *)
(* chain neither forks nor breaks, and a provider that is unmounted or     *)
(* refused starts nothing any more.                                        *)
(***************************************************************************)
EXTENDS LiveUpdates, TLAPS

\* What OneAttempt rests on: only the mounted provider has a timer and a
\* socket that is not being closed, a mount to come has nothing, and a
\* refused one is left with nothing.
Quiet ==
    \A m \in Mounts :
        /\ m # mounted => ~reconnect[m] /\ socket[m] \in {"none", "closing"}
        /\ m > mounts => ~minting[m] /\ socket[m] = "none"
        /\ m \in refused => ~minting[m] /\ socket[m] = "none" /\ ~reconnect[m]

IInv == TypeOK /\ OneAttempt /\ Quiet

-----------------------------------------------------------------------------

\* The initial states are well typed and nothing is attempted.
LEMMA InitInv == Init => IInv
  BY LiveAssumption, SMTT(30)
  DEF LiveAssumption, Init, IInv, TypeOK, OneAttempt, Quiet, Mounts, Statuses, SocketState, None

\* A step of the cache or of the server's session leaves the hook alone.
LEMMA CacheStepTypes ==
  ASSUME TypeOK, CacheNext \/ Revoked \/ StatusChanges
  PROVE TypeOK'
  <1>1. CASE StatusChanges
    <2>1. status + 1 \in Statuses
      BY <1>1, LiveAssumption DEF StatusChanges, TypeOK, Statuses, LiveAssumption
    <2>2. wire' \in Seq(Statuses)
      BY <1>1, <2>1 DEF StatusChanges, TypeOK
    <2> QED BY <1>1, <2>1, <2>2 DEF StatusChanges, TypeOK, hookVars, cacheVars
  <1>2. CASE Revoked
    BY <1>2 DEF Revoked, TypeOK, hookVars, cacheVars
  <1>3. CASE OnPrinterStatus
    BY <1>3 DEF OnPrinterStatus, TypeOK, hookVars, serverVars
  <1>4. CASE FlushPending
    BY <1>4 DEF FlushPending, TypeOK, hookVars, serverVars
  <1>5. CASE WriteCache
    BY <1>5 DEF WriteCache, TypeOK, hookVars, serverVars
  <1>6. CASE Poll
    BY <1>6 DEF Poll, Polls, TypeOK, hookVars, serverVars
  <1>7. CASE Invalidate
    BY <1>7 DEF Invalidate, AnswerKept, TypeOK, hookVars, serverVars, None
  <1>8. CASE FetchAnswered
    BY <1>8, LiveAssumption DEF FetchAnswered, TypeOK, hookVars, serverVars, Statuses, None, LiveAssumption
  <1>9. CASE FetchFails
    BY <1>9 DEF FetchFails, TypeOK, hookVars, serverVars
  <1>10. CASE FetchLands
    BY <1>10 DEF FetchLands, TypeOK, hookVars, serverVars
  <1> QED BY <1>1, <1>2, <1>3, <1>4, <1>5, <1>6, <1>7, <1>8, <1>9, <1>10 DEF CacheNext

\* The invariant survives the steps that leave the hook alone.
LEMMA CacheStep ==
  ASSUME IInv, CacheNext \/ Revoked \/ StatusChanges
  PROVE IInv'
  <1>1. TypeOK'
    BY CacheStepTypes DEF IInv
  <1>2. UNCHANGED hookVars
    BY DEF CacheNext, Revoked, StatusChanges, OnPrinterStatus, FlushPending, WriteCache, Poll,
           Invalidate, FetchAnswered, FetchFails, FetchLands
  <1> QED BY <1>1, <1>2 DEF IInv, OneAttempt, Quiet, hookVars

-----------------------------------------------------------------------------
(* The hook *)

\* A new mount starts with one token request.
LEMMA MountStep ==
  ASSUME IInv, Mount
  PROVE IInv'
  <1>1. mounts + 1 \in Mounts /\ mounts' = mounts + 1 /\ mounted' = mounts + 1
    BY DEF Mount
  <1>2. minting' \in [Mounts -> BOOLEAN] /\ refused \subseteq 1..mounts'
    BY <1>1 DEF Mount, IInv, TypeOK, Mounts
  <1>3. TypeOK'
    BY <1>1, <1>2 DEF Mount, IInv, TypeOK, Mounts, serverVars, cacheVars
  <1>4. OneAttempt'
    BY <1>1, LiveAssumption DEF Mount, IInv, TypeOK, OneAttempt, Quiet, Mounts, None, LiveAssumption
  <1>5. Quiet'
    BY <1>1, LiveAssumption DEF Mount, IInv, TypeOK, Quiet, Mounts, None, LiveAssumption
  <1> QED BY <1>3, <1>4, <1>5 DEF IInv

\* Unmounting clears the timer and closes the socket.
LEMMA UnmountStep ==
  ASSUME IInv, Unmount
  PROVE IInv'
  <1>1. mounted \in Mounts
    BY LiveAssumption DEF Unmount, IInv, TypeOK, Mounts, None, LiveAssumption
  <1>2. TypeOK'
    <2>1. reconnect' \in [Mounts -> BOOLEAN] /\ socket' \in [Mounts -> SocketState]
      BY DEF Unmount, IInv, TypeOK, SocketState
    <2>2. wire' \in Seq(Statuses)
      BY DEF Unmount
    <2> QED BY <2>1, <2>2 DEF Unmount, IInv, TypeOK, serverVars
  <1>3. OneAttempt'
    BY <1>1 DEF Unmount, IInv, TypeOK, OneAttempt, Mounts, None
  <1>4. Quiet'
    BY <1>1 DEF Unmount, IInv, TypeOK, Quiet, Mounts, None
  <1> QED BY <1>2, <1>3, <1>4 DEF IInv

\* A token, or a failed request for one, becomes a socket or nothing.
LEMMA MintedStep ==
  ASSUME IInv, NEW m \in Mounts, MintGranted(m) \/ MintFails(m)
  PROVE IInv'
  <1>1. PICK granted \in BOOLEAN : Minted(m, granted)
    BY DEF MintGranted, MintFails
  <1>2. TypeOK'
    BY <1>1 DEF Minted, IInv, TypeOK, SocketState, serverVars, cacheVars
  <1>3. OneAttempt'
    BY <1>1 DEF Minted, Dials, IInv, TypeOK, OneAttempt
  <1>4. Quiet'
    BY <1>1 DEF Minted, Dials, IInv, TypeOK, Quiet, Mounts
  <1> QED BY <1>2, <1>3, <1>4 DEF IInv

\* A refused request leaves the mount with nothing.
LEMMA MintRefusedStep ==
  ASSUME IInv, NEW m \in Mounts, MintRefused(m)
  PROVE IInv'
  <1>1. m \in 1..mounts
    BY DEF MintRefused, IInv, Quiet, TypeOK, Mounts
  <1>2. TypeOK'
    BY <1>1 DEF MintRefused, IInv, TypeOK, serverVars, cacheVars
  <1>3. OneAttempt'
    BY DEF MintRefused, IInv, TypeOK, OneAttempt
  <1>4. Quiet'
    BY DEF MintRefused, IInv, TypeOK, OneAttempt, Quiet
  <1> QED BY <1>2, <1>3, <1>4 DEF IInv

\* Only the mounted provider's socket opens.
LEMMA SocketOpensStep ==
  ASSUME IInv, NEW m \in Mounts, SocketOpens(m)
  PROVE IInv'
  <1>1. TypeOK'
    BY DEF SocketOpens, IInv, TypeOK, SocketState, serverVars, cacheVars
  <1>2. OneAttempt'
    BY DEF SocketOpens, IInv, TypeOK, OneAttempt
  <1>3. Quiet'
    BY DEF SocketOpens, IInv, TypeOK, Quiet
  <1> QED BY <1>1, <1>2, <1>3 DEF IInv

\* However a socket closes, a refusal is recorded with the code that ends
\* the chain, so it is reconnected exactly when the provider is mounted and
\* was not refused.
LEMMA ClosedStep ==
  ASSUME IInv, NEW m \in Mounts, SocketDrops(m) \/ SocketRefused(m) \/ SocketCloses(m)
  PROVE IInv'
  <1>1. PICK code \in {"dropped", "closed", "unauthorized"} :
            /\ Closed(m, code)
            /\ refused' = IF code = "unauthorized" THEN refused \cup {m} ELSE refused
    BY DEF SocketDrops, SocketRefused, SocketCloses
  <1>2. socket[m] # "none" /\ m \in 1..mounts /\ m \notin refused
    BY DEF SocketDrops, SocketRefused, SocketCloses, IInv, Quiet, TypeOK, Mounts
  <1>3. faults' \in 0..MaxFaults
    BY LiveAssumption DEF SocketDrops, SocketRefused, SocketCloses, IInv, TypeOK, LiveAssumption
  <1>4. TypeOK'
    BY <1>1, <1>2, <1>3 DEF Closed, Reconnects, IInv, TypeOK, SocketState, cacheVars
  <1>5. OneAttempt'
    BY <1>1, <1>2 DEF Closed, Reconnects, IInv, TypeOK, OneAttempt
  <1>6. Quiet'
    BY <1>1, <1>2 DEF Closed, Reconnects, IInv, TypeOK, OneAttempt, Quiet
  <1> QED BY <1>4, <1>5, <1>6 DEF IInv

\* The timer becomes a token request.
LEMMA ReconnectStep ==
  ASSUME IInv, NEW m \in Mounts, Reconnect(m)
  PROVE IInv'
  <1>1. m = mounted /\ m \notin refused /\ ~minting[m] /\ socket[m] = "none" /\ m \in 1..mounts
    BY DEF Reconnect, IInv, OneAttempt, Quiet, TypeOK, Mounts, None
  <1>2. minting' = [minting EXCEPT ![m] = TRUE]
    BY <1>1 DEF Reconnect
  <1>3. TypeOK'
    BY <1>2 DEF Reconnect, IInv, TypeOK, serverVars, cacheVars
  <1>4. OneAttempt'
    BY <1>1, <1>2 DEF Reconnect, IInv, TypeOK, OneAttempt
  <1>5. Quiet'
    BY <1>1, <1>2 DEF Reconnect, IInv, TypeOK, Quiet, Mounts
  <1> QED BY <1>3, <1>4, <1>5 DEF IInv

\* Every step keeps the invariant.
LEMMA InvNext == IInv /\ [Next]_vars => IInv'
  <1> SUFFICES ASSUME IInv, [Next]_vars PROVE IInv'
    OBVIOUS
  <1>1. CASE UNCHANGED vars
    BY <1>1 DEF IInv, TypeOK, OneAttempt, Quiet, vars, serverVars, hookVars, cacheVars
  <1>2. CASE CacheNext \/ Revoked \/ StatusChanges
    BY <1>2, CacheStep
  <1>3. CASE Mount
    BY <1>3, MountStep
  <1>4. CASE Unmount
    BY <1>4, UnmountStep
  <1>5. ASSUME NEW m \in Mounts,
               \/ MintGranted(m) \/ MintFails(m) \/ MintRefused(m) \/ SocketOpens(m)
               \/ SocketDrops(m) \/ SocketRefused(m) \/ SocketCloses(m) \/ Reconnect(m)
        PROVE IInv'
    BY <1>5, MintedStep, MintRefusedStep, SocketOpensStep, ClosedStep, ReconnectStep
  <1> QED BY <1>1, <1>2, <1>3, <1>4, <1>5 DEF Next, HookNext

-----------------------------------------------------------------------------

\* The invariant holds in every reachable state.
THEOREM Invariant == Spec => []IInv
  BY InitInv, InvNext, PTL DEF Spec

\* Every reachable state is well typed.
THEOREM LiveTypes == Spec => []TypeOK
  <1>1. IInv => TypeOK
    BY DEF IInv
  <1> QED BY <1>1, Invariant, PTL

\* A mounted provider that was not refused always has one attempt under way
\* and never two (useWebSocket.ts:90-195).
THEOREM ChainIsWhole == Spec => []OneAttempt
  <1>1. IInv => OneAttempt
    BY DEF IInv
  <1> QED BY <1>1, Invariant, PTL

\* A provider that is unmounted or refused starts nothing any more.
LEMMA QuietStep ==
  ASSUME IInv, [Next]_vars, NEW m \in 1..mounts, m # mounted \/ m \in refused
  PROVE /\ minting'[m] => minting[m]
        /\ socket'[m] \in {socket[m], "closing", "none"}
        /\ reconnect'[m] => reconnect[m]
  <1>0. m \in Mounts /\ mounts + 1 # m
    <2>1. mounts \in 0..MaxMounts
      BY DEF IInv, TypeOK
    <2> QED BY <2>1, LiveAssumption DEF Mounts, LiveAssumption
  <1>1. CASE UNCHANGED hookVars
    BY <1>1 DEF hookVars
  <1>2. CASE Mount
    BY <1>0, <1>2 DEF Mount, IInv, TypeOK
  <1>3. CASE Unmount
    BY <1>0, <1>3 DEF Unmount, IInv, TypeOK
  <1>4. ASSUME NEW k \in Mounts, MintGranted(k) \/ MintFails(k) \/ MintRefused(k)
        PROVE /\ minting'[m] => minting[m]
              /\ socket'[m] \in {socket[m], "closing", "none"}
              /\ reconnect'[m] => reconnect[m]
    BY <1>0, <1>4 DEF MintGranted, MintFails, Minted, MintRefused, Dials, IInv, TypeOK, Quiet
  <1>5. ASSUME NEW k \in Mounts, SocketOpens(k) \/ SocketDrops(k) \/ SocketRefused(k) \/ SocketCloses(k)
        PROVE /\ minting'[m] => minting[m]
              /\ socket'[m] \in {socket[m], "closing", "none"}
              /\ reconnect'[m] => reconnect[m]
    <2>1. socket[k] # "none" /\ k \notin refused /\ (socket[k] # "closing" => k = mounted)
      BY <1>5 DEF SocketOpens, SocketDrops, SocketRefused, SocketCloses, IInv, Quiet
    <2> QED BY <1>0, <1>5, <2>1 DEF SocketOpens, SocketDrops, SocketRefused, SocketCloses, Closed,
               Reconnects, IInv, TypeOK
  <1>6. ASSUME NEW k \in Mounts, Reconnect(k)
        PROVE /\ minting'[m] => minting[m]
              /\ socket'[m] \in {socket[m], "closing", "none"}
              /\ reconnect'[m] => reconnect[m]
    <2>1. k # m
      BY <1>0, <1>6 DEF Reconnect, IInv, Quiet
    <2> QED BY <1>0, <1>6, <2>1 DEF Reconnect, IInv, TypeOK
  <1>7. CASE CacheNext \/ Revoked \/ StatusChanges
    BY <1>1, <1>7 DEF CacheNext, Revoked, StatusChanges, OnPrinterStatus, FlushPending, WriteCache,
                      Poll, Invalidate, FetchAnswered, FetchFails, FetchLands
  <1> QED BY <1>1, <1>2, <1>3, <1>4, <1>5, <1>6, <1>7 DEF Next, HookNext, vars

\* useWebSocket.ts:33-36: no step leaks an attempt past the unmounting or a
\* refusal.
THEOREM NothingLeaks == Spec => DoneIsQuiet
  <1>1. IInv /\ [Next]_vars =>
            [\A m \in 1..mounts : m # mounted \/ m \in refused =>
                /\ minting'[m] => minting[m]
                /\ socket'[m] \in {socket[m], "closing", "none"}
                /\ reconnect'[m] => reconnect[m]]_vars
    BY QuietStep
  <1> QED BY <1>1, Invariant, PTL DEF Spec, DoneIsQuiet
=============================================================================
