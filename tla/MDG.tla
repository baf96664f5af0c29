-------------------------------- MODULE MDG ---------------------------------
(***************************************************************************)
(* The market data gateway (cmd/mdg): a Redis listener changes the         *)
(* configuration and signals reconnectChan; the ingestion loop reads the   *)
(* configuration, streams from the feed, and is told by a watcher          *)
(* goroutine, one for every connection, to reconnect.                      *)
(*                                                                         *)
(* reconnectChan has one place.  As in the Go runtime, a send goes         *)
(* straight to a goroutine that is parked on the channel, and into the     *)
(* buffer only when there is none.                                         *)
(***************************************************************************)
EXTENDS Integers

CONSTANTS Vendors,
          MaxCommands,   \* bound: control commands
          MaxStale       \* bound: watchers that have not started yet although
                         \* their connection is over

ASSUME GatewayAssumption ==
    /\ MaxCommands \in Nat
    /\ MaxStale \in Nat

VARIABLES config,        \* activeStatus and activeVendor
          listener,      \* "idle", or "signal": a command is applied, not signalled
          token,         \* reconnectChan holds a signal
          loop,          \* "read", "paused", "pausedParked", "connect", "stream",
                         \* "backoff", "backoffParked", "gone"
          seen,          \* the configuration the loop has read
          watcher,       \* of this connection: "none", "new", "parked", "took", "gone"
          ingestDone,    \* ingestCtx of this connection is cancelled
          stale,         \* watchers of past connections that have not started
          stolen,        \* history: one of those took a signal
          stopped,       \* ctx is cancelled
          commands

configuring == <<config, listener, commands>>
connection == <<watcher, ingestDone, stale, stolen>>
vars == <<configuring, token, loop, seen, connection, stopped>>

Config == [status : {"RUNNING", "PAUSED"}, vendor : Vendors]

-----------------------------------------------------------------------------
(***************************************************************************)
(* The listener of mdg:control_events                                      *)
(***************************************************************************)
Command(c) ==
    /\ ~stopped
    /\ listener = "idle"
    /\ commands < MaxCommands
    /\ commands' = commands + 1
    /\ \/ c.status # config.status /\ c.vendor = config.vendor  \* pause, resume
       \/ c.status = config.status                              \* set_vendor, others
    /\ config' = c
    /\ listener' = "signal"
    /\ UNCHANGED <<token, loop, seen, connection, stopped>>

\* MUTANT: the channel has no buffer.
Signal_Unbuffered ==
    /\ listener = "signal"
    /\ listener' = "idle"
    /\ \/ /\ loop \in {"pausedParked", "backoffParked"}
          /\ loop' = "read"
          /\ UNCHANGED watcher
       \/ /\ watcher = "parked"
          /\ watcher' = "took"
          /\ UNCHANGED loop
       \/ /\ loop \notin {"pausedParked", "backoffParked"}
          /\ watcher # "parked"
          /\ UNCHANGED <<loop, watcher>>
    /\ UNCHANGED <<token, config, commands, seen, ingestDone, stale, stolen, stopped>>

\* The non-blocking send: to the goroutine parked on the channel, into the
\* buffer, or nowhere when the buffer is full.
Signal ==
    /\ listener = "signal"
    /\ listener' = "idle"
    /\ \/ /\ loop \in {"pausedParked", "backoffParked"}
          /\ loop' = "read"
          /\ UNCHANGED <<token, watcher>>
       \/ /\ watcher = "parked"
          /\ watcher' = "took"
          /\ UNCHANGED <<token, loop>>
       \/ /\ loop \notin {"pausedParked", "backoffParked"}
          /\ watcher # "parked"
          /\ token' = TRUE
          /\ UNCHANGED <<loop, watcher>>
    /\ UNCHANGED <<config, commands, seen, ingestDone, stale, stolen, stopped>>

-----------------------------------------------------------------------------
(***************************************************************************)
(* runIngestionLoop                                                        *)
(***************************************************************************)
\* The configuration is read under the lock; a new connection gets its watcher.
ReadConfig ==
    /\ loop = "read"
    /\ \/ stopped /\ loop' = "gone" /\ UNCHANGED <<seen, watcher, ingestDone>>
       \/ /\ ~stopped
          /\ seen' = config
          /\ \/ /\ config.status = "PAUSED"
                /\ loop' = "paused"
                /\ UNCHANGED <<watcher, ingestDone>>
             \/ /\ config.status # "PAUSED"
                /\ loop' = "connect"
                /\ watcher' = "new"
                /\ ingestDone' = FALSE
    /\ UNCHANGED <<configuring, token, stale, stolen, stopped>>

Parked == [paused |-> "pausedParked", backoff |-> "backoffParked"]

\* The select of a paused or backing-off loop: take the signal, or park.
Wait ==
    /\ loop \in {"paused", "backoff"}
    /\ \/ token /\ token' = FALSE /\ loop' = "read"
       \/ ~token /\ loop' = Parked[loop] /\ UNCHANGED token
    /\ UNCHANGED <<configuring, seen, connection, stopped>>

BackoffElapses ==
    /\ loop = "backoffParked"
    /\ loop' = "read"
    /\ UNCHANGED <<configuring, token, seen, connection, stopped>>

LoopStops ==
    /\ stopped
    /\ loop \in {"paused", "pausedParked", "backoff", "backoffParked"}
    /\ loop' = "gone"
    /\ UNCHANGED <<configuring, token, seen, connection, stopped>>

(***************************************************************************)
(* connectAndIngest                                                        *)
(***************************************************************************)
\* Dial, authenticate, subscribe.
Connected ==
    /\ loop = "connect"
    /\ loop' = "stream"
    /\ UNCHANGED <<configuring, token, seen, connection, stopped>>

\* cancelIngest after the return: a parked watcher sees its context end, one that
\* has not started is left behind.
CancelIngest ==
    /\ watcher = "new" => stale < MaxStale
    /\ watcher' = "none"
    /\ ingestDone' = FALSE
    /\ stale' = IF watcher = "new" THEN stale + 1 ELSE stale
    /\ UNCHANGED stolen

\* The dial, the feed or the cancelled context ends the connection.  The error of
\* a cancelled context is Canceled, or that of the connection it closed.
ConnectionEnds ==
    /\ loop \in {"connect", "stream"}
    /\ loop' \in IF ingestDone \/ stopped THEN {"read", "backoff"} ELSE {"backoff"}
    /\ CancelIngest
    /\ UNCHANGED <<configuring, token, seen, stopped>>

(***************************************************************************)
(* The watcher                                                             *)
(***************************************************************************)
WatcherStarts ==
    /\ watcher = "new"
    /\ \/ stopped /\ watcher' = "gone" /\ UNCHANGED token
       \/ token /\ token' = FALSE /\ watcher' = "took"
       \/ ~stopped /\ ~token /\ watcher' = "parked" /\ UNCHANGED token
    /\ UNCHANGED <<configuring, loop, seen, ingestDone, stale, stolen, stopped>>

\* MUTANT: the watcher swallows the signal.
WatcherCancels_Swallows ==
    /\ watcher = "took"
    /\ watcher' = "gone"
    /\ UNCHANGED <<configuring, token, loop, seen, ingestDone, stale, stolen, stopped>>

WatcherCancels ==
    /\ watcher = "took"
    /\ watcher' = "gone"
    /\ ingestDone' = TRUE
    /\ UNCHANGED <<configuring, token, loop, seen, stale, stolen, stopped>>

\* A watcher left behind finds its context ended and perhaps a signal: the select
\* picks either.
StaleStarts ==
    /\ stale > 0
    /\ stale' = stale - 1
    /\ \/ UNCHANGED <<token, stolen>>
       \/ token /\ token' = FALSE /\ stolen' = TRUE
    /\ UNCHANGED <<configuring, loop, seen, watcher, ingestDone, stopped>>

\* The process is told to stop; contexts derived from ctx end with it.
Stop ==
    /\ ~stopped
    /\ stopped' = TRUE
    /\ watcher' = IF watcher = "parked" THEN "gone" ELSE watcher
    /\ UNCHANGED <<configuring, token, loop, seen, ingestDone, stale, stolen>>

-----------------------------------------------------------------------------
\* The configuration was loaded from Redis, or is the default one.
Init ==
    /\ config \in Config
    /\ listener = "idle"
    /\ token = FALSE
    /\ loop = "read"
    /\ seen = config
    /\ watcher = "none"
    /\ ingestDone = FALSE
    /\ stale = 0
    /\ stolen = FALSE
    /\ stopped = FALSE
    /\ commands = 0

Loop == ReadConfig \/ Wait \/ BackoffElapses \/ LoopStops \/ Connected \/ ConnectionEnds
Watcher == WatcherStarts \/ WatcherCancels \/ StaleStarts

Next ==
    \/ \E c \in Config : Command(c)
    \/ Signal
    \/ Loop
    \/ Watcher
    \/ Stop

Spec == Init /\ [][Next]_vars

\* Every goroutine that can run runs; timers fire; a connection whose context has
\* ended ends, and no other has to.
FairSpec ==
    /\ Spec
    /\ WF_vars(Signal)
    /\ WF_vars(ReadConfig) /\ WF_vars(Wait \/ LoopStops) /\ WF_vars(BackoffElapses)
    /\ WF_vars((ingestDone \/ stopped) /\ ConnectionEnds)
    /\ WF_vars(WatcherStarts) /\ WF_vars(WatcherCancels) /\ WF_vars(StaleStarts)

-----------------------------------------------------------------------------
(***************************************************************************)
(* Properties                                                              *)
(***************************************************************************)
\* Type invariant; a watcher runs only beside its connection.
TypeOK ==
    /\ config \in Config
    /\ listener \in {"idle", "signal"}
    /\ token \in BOOLEAN
    /\ loop \in {"read", "paused", "pausedParked", "connect", "stream", "backoff",
                 "backoffParked", "gone"}
    /\ seen \in Config
    /\ watcher \in {"none", "new", "parked", "took", "gone"}
    /\ watcher # "none" <=> loop \in {"connect", "stream"}
    /\ ingestDone \in BOOLEAN
    /\ stale \in Nat
    /\ stolen \in BOOLEAN
    /\ stopped \in BOOLEAN
    /\ commands \in Nat

\* A loop that waits or streams on an old configuration has a signal on its way:
\* sent soon, buffered for it, taken by its watcher, or turned into the end of its
\* context.  No command is forgotten, although two commands may share one signal
\* and a signal may be taken between the end of a connection and the next one;
\* the only thief is a watcher that first runs when its connection is over.
SignalOnItsWay ==
    /\ loop \in {"paused", "pausedParked", "connect", "stream"}
    /\ seen # config
    /\ ~stopped /\ ~stolen
    => listener = "signal" \/ token \/ watcher = "took" \/ ingestDone

\* What keeps SignalOnItsWay: nobody is parked on a channel that holds a signal,
\* and a watcher that is gone has ended its connection.
SignalInv ==
    /\ SignalOnItsWay
    /\ token => loop \notin {"pausedParked", "backoffParked"} /\ watcher # "parked"
    /\ watcher = "gone" => ingestDone \/ stopped

\* Every command takes effect: the loop ends up with the configuration that the
\* last command left behind, unless its signal was stolen.
ConfigApplied == seen # config ~> seen = config \/ stopped \/ stolen

\* The loop returns once the process is told to stop.
LoopReturns == stopped ~> loop = "gone"

\* Whatever the gateway is told, to change or to stop, its loop comes to do.
LoopFollows == ConfigApplied /\ LoopReturns
=============================================================================
