------------------------------ MODULE WebLink -------------------------------
(***************************************************************************)
(* The WebSocket links of the web terminal (web/src/App.tsx).  connectWS   *)
(* makes a socket and points wsRef at it; onclose schedules connectWS      *)
(* again; the mount effect and the browser's online event call it too,     *)
(* without closing the socket that is there.  A chain is a socket and the  *)
(* sockets that its onclose leads to.                                      *)
(*                                                                         *)
(* Sockets are numbered in the order connectWS makes them, so that wsRef   *)
(* is the number of sockets made.  What the handlers capture of the render *)
(* they come from is the subject of WebMarket.                             *)
(***************************************************************************)
EXTENDS Integers, FiniteSets

CONSTANT MaxSockets   \* bound: sockets made, and so connections lost

ASSUME LinkAssumption == MaxSockets \in Nat

VARIABLES sockets,        \* state of every socket
          timers,         \* sockets whose onclose has a setTimeout(connectWS) pending
          wsRef,
          isWsConnected,
          isReconnecting,
          isOnline,
          chains          \* history: connectWS calls of the mount effect and of online

flags == <<isWsConnected, isReconnecting, isOnline>>
linkVars == <<sockets, timers, wsRef, flags, chains>>

Ids == 1..MaxSockets
Live == {"connecting", "open", "closing"}
LiveSockets == {i \in Ids : sockets[i] \in Live}

\* The sockets made, and those that pending retries and the online event will make.
Due ==
    wsRef + Cardinality(timers) + Cardinality({i \in Ids : sockets[i] = "closing"})
      + (IF isOnline THEN 0 ELSE 1)
\* The bound: they leave room for one more.
Room == Due < MaxSockets

LinkTypeOK ==
    /\ sockets \in [Ids -> Live \cup {"none", "closed"}]
    /\ timers \in SUBSET Ids
    /\ wsRef \in 0..MaxSockets
    /\ isWsConnected \in BOOLEAN
    /\ isReconnecting \in BOOLEAN
    /\ isOnline \in BOOLEAN
    /\ chains \in Nat

LinkInit ==
    /\ sockets = [i \in Ids |-> "none"]
    /\ timers = {}
    /\ wsRef = 0
    /\ isWsConnected = FALSE
    /\ isReconnecting = FALSE
    /\ isOnline = TRUE
    /\ chains = 0

-----------------------------------------------------------------------------
(***************************************************************************)
(* connectWS and the handlers it installs                                  *)
(***************************************************************************)
\* A browser never opens a socket inside its constructor, so that the test of
\* readyState does not set isWsConnected here.
connectWS ==
    /\ wsRef < MaxSockets
    /\ sockets' = [sockets EXCEPT ![wsRef + 1] = "connecting"]
    /\ wsRef' = wsRef + 1
    /\ isReconnecting' = FALSE

\* MUTANT: the retry is scheduled for the newest socket only.
onclose_NewestOnly(i) ==
    /\ sockets' = [sockets EXCEPT ![i] = "closed"]
    /\ isWsConnected' = FALSE
    /\ isReconnecting' = TRUE
    /\ timers' = IF i = wsRef THEN timers \cup {i} ELSE timers

\* MUTANT: the retry is not scheduled while another socket is up.
onclose_OthersUp(i) ==
    /\ sockets' = [sockets EXCEPT ![i] = "closed"]
    /\ isWsConnected' = FALSE
    /\ isReconnecting' = TRUE
    /\ timers' = IF LiveSockets = {i} THEN timers \cup {i} ELSE timers

onclose(i) ==
    /\ sockets' = [sockets EXCEPT ![i] = "closed"]
    /\ isWsConnected' = FALSE
    /\ isReconnecting' = TRUE
    /\ timers' = timers \cup {i}

onopen(i) ==
    /\ sockets[i] = "connecting"
    /\ sockets' = [sockets EXCEPT ![i] = "open"]
    /\ isReconnecting' = FALSE
    /\ isWsConnected' = TRUE
    /\ UNCHANGED <<timers, wsRef, isOnline, chains>>

\* The first assignment of onmessage, whatever the message is.
onmessage(i) ==
    /\ sockets[i] = "open"
    /\ isWsConnected' = TRUE
    /\ UNCHANGED <<sockets, timers, wsRef, isReconnecting, isOnline, chains>>

\* The BFF is unreachable (onerror, then onclose), or an open link is lost.
Lost(i) ==
    /\ sockets[i] \in {"connecting", "open"}
    /\ Room
    /\ onclose(i)
    /\ UNCHANGED <<wsRef, isOnline, chains>>

\* The socket that the cleanup of the mount effect closed reports it.
Closed(i) ==
    /\ sockets[i] = "closing"
    /\ onclose(i)
    /\ UNCHANGED <<wsRef, isOnline, chains>>

TimerFires(i) ==
    /\ i \in timers
    /\ timers' = timers \ {i}
    /\ connectWS
    /\ UNCHANGED <<isWsConnected, isOnline, chains>>

-----------------------------------------------------------------------------
(***************************************************************************)
(* Effects                                                                 *)
(***************************************************************************)
Mount ==
    /\ wsRef = 0
    /\ connectWS
    /\ chains' = 1
    /\ UNCHANGED <<timers, isWsConnected, isOnline>>

\* A development build of main.tsx's StrictMode mounts, unmounts and mounts.
MountStrict ==
    /\ wsRef = 0
    /\ MaxSockets >= 3
    /\ sockets' = [sockets EXCEPT ![1] = "closing", ![2] = "connecting"]
    /\ wsRef' = 2
    /\ isReconnecting' = FALSE
    /\ chains' = 2
    /\ UNCHANGED <<timers, isWsConnected, isOnline>>

handleOnline ==
    /\ wsRef > 0
    /\ ~isOnline
    /\ isOnline' = TRUE
    /\ connectWS
    /\ chains' = chains + 1
    /\ UNCHANGED <<timers, isWsConnected>>

handleOffline ==
    /\ wsRef > 0
    /\ isOnline
    /\ Room
    /\ isOnline' = FALSE
    /\ isWsConnected' = FALSE
    /\ UNCHANGED <<sockets, timers, wsRef, isReconnecting, chains>>

LinkNext ==
    \/ Mount \/ MountStrict \/ handleOnline \/ handleOffline
    \/ \E i \in Ids : onopen(i) \/ onmessage(i) \/ Lost(i) \/ Closed(i) \/ TimerFires(i)

LinkSpec == LinkInit /\ [][LinkNext]_linkVars

-----------------------------------------------------------------------------
(***************************************************************************)
(* Properties                                                              *)
(***************************************************************************)
\* A chain neither dies nor splits: the live sockets and the pending retries are
\* as many as connectWS was started by the mount effect and by online events.  An
\* online event therefore leaves one link more for good, and every link handles
\* every broadcast (App.tsx connectWS, onclose, handleOnline).
LinksConserved == Cardinality(LiveSockets) + Cardinality(timers) = chains

\* The link that sendOOBAction uses is never given up: when the newest socket is
\* closed, the retry that replaces it is pending.
CommandLinkKept ==
    wsRef > 0 => sockets[wsRef] \in Live \/ wsRef \in timers

\* The badges do not lie for good: "connected" has a socket behind it that is not
\* closed, and "reconnecting" has a retry that will clear it.
FlagsHonest ==
    /\ isWsConnected => \E i \in Ids : sockets[i] = "open"
    /\ isReconnecting => timers # {}

LinkInv ==
    /\ LinkTypeOK
    /\ \A i \in Ids : sockets[i] = "none" <=> i > wsRef
    /\ \A i \in timers : sockets[i] = "closed"
    /\ CommandLinkKept
    /\ FlagsHonest
=============================================================================
