-------------------------- MODULE TerminalCircuit ---------------------------
(***************************************************************************)
(* The circuit state of the system, between the admin tab of the web       *)
(* terminal (App.tsx) and the BFF (cmd/bff/main.go): the commands PAUSE    *)
(* and PANIC over the newest WebSocket link, the resume handshake over     *)
(* HTTP, a halt that any HTTP client may post, and the status messages     *)
(* that bring the state back on every link.                                *)
(*                                                                         *)
(* Every handler of the BFF is a goroutine, and broadcast writes to every  *)
(* client from a goroutine of its own: handlers interleave and the status  *)
(* messages of one link may overtake one another.  A command runs under    *)
(* the context of its connection, which ends with the connection.  Redis   *)
(* may fail at every access, and the EMS, which keeps its pause in memory, *)
(* may restart.                                                            *)
(***************************************************************************)
EXTENDS WebLink, Sequences

CONSTANTS MaxEvents,   \* bound: commands, posts, health changes, EMS restarts, failures
                       \* of Redis and of calls, and sockets made or due
          MaxRunning   \* bound: handlers that run at a time

ASSUME CircuitAssumption == MaxEvents \in Nat /\ MaxRunning \in Nat

Empty == "EMPTY"    \* Redis has no circuit_breaker_status yet

VARIABLES circuitState,   \* what the terminal shows
          currentState,   \* the BFF's copy
          redis,          \* circuit_breaker_status
          clients,        \* connections registered with the BFF
          greeting,       \* those that wait for their first status
          statuses,       \* statuses in the order their state was read: the state, the
                          \* links it is on its way to, whether a later one was applied,
                          \* and the handler that has still to send it
          tasks,          \* the handlers: their step and the connection they serve
          emsPaused,      \* the EMS holds a ForcePause
          services,       \* the BFF's cached health of the MDG: serving or not
          events,         \* events so far
          overtaken,      \* history: the status applied last came after a later one
          misled,         \* history: a status was made from memory while Redis held
                          \* another state, and none has been broadcast since
          untold          \* history: since a ForcePause last arrived, one has failed, the
                          \* EMS has restarted, or the circuit was halted over HTTP

shown == <<circuitState, overtaken>>
bff == <<currentState, redis, emsPaused, untold>>
sent == <<statuses, misled>>
circuitVars == <<linkVars, shown, bff, services, clients, greeting, sent, tasks, events>>

Budget == events + Due < MaxEvents
Fails == Budget /\ events' = events + 1    \* an access of Redis or a call of the EMS

States == {"RUNNING", "PAUSED", "TERMINATED"}

\* processOOBAction handles pause and panic, HandleCircuitAPI resume and halt (a
\* status other than RUNNING); StartHealthCheckLoop only announces.
Target == [pause |-> "PAUSED", panic |-> "TERMINATED", resume |-> "RUNNING", halt |-> "PAUSED"]
Handlers == DOMAIN Target \cup {"health"}

Status == [state : States, to : SUBSET Ids, passed : BOOLEAN, by : Handlers \cup {"sent"}]
Idle == [pc |-> "idle", link |-> 0]

CircuitInit ==
    /\ LinkInit
    /\ circuitState = "RUNNING"
    /\ currentState = "RUNNING"
    /\ redis = Empty
    /\ clients = {} /\ greeting = {}
    /\ statuses = <<>>
    /\ tasks = [a \in Handlers |-> Idle]
    /\ emsPaused = FALSE
    /\ services = TRUE
    /\ events = 0
    /\ overtaken = FALSE /\ misled = FALSE /\ untold = FALSE

\* The state of the BFF: what getCircuitState returns while Redis answers.
circuit == IF redis = Empty THEN currentState ELSE redis

\* What it returns, be it from memory because Redis fails.
getCircuitState(state) ==
    \/ state = circuit /\ UNCHANGED events
    \/ state = currentState /\ state # circuit /\ Fails

\* broadcastStatus and HandleWebSocket make a status of the state as it is then.
MakeStatus(state, to, by) ==
    /\ getCircuitState(state)
    /\ statuses' = Append(statuses, [state |-> state, to |-> to, passed |-> FALSE, by |-> by])

Reachable == {i \in clients : sockets[i] = "open"}

Go(a, pc) == tasks' = [tasks EXCEPT ![a].pc = pc]
Done(a) == tasks' = [tasks EXCEPT ![a] = Idle]
AllIdle == \A a \in Handlers : tasks[a] = Idle

\* The handler a may start.
Free(a) ==
    /\ Budget
    /\ tasks[a] = Idle
    /\ Cardinality({b \in Handlers : tasks[b] # Idle}) < MaxRunning

-----------------------------------------------------------------------------
(***************************************************************************)
(* Connections                                                             *)
(***************************************************************************)
\* MUTANT: a new client is told only what changes from now on.
Accept_NotGreeted(i) ==
    /\ onopen(i)
    /\ clients' = clients \cup {i}
    /\ UNCHANGED <<shown, bff, services, greeting, sent, tasks, events>>

\* HandleWebSocket accepts and registers the client.
Accept(i) ==
    /\ onopen(i)
    /\ clients' = clients \cup {i}
    /\ greeting' = greeting \cup {i}
    /\ UNCHANGED <<shown, bff, services, sent, tasks, events>>

\* It reads the state and writes it to the new client.
Greet(i) ==
    /\ i \in greeting
    /\ greeting' = greeting \ {i}
    /\ \E state \in States : /\ MakeStatus(state, {i}, "sent")
                            /\ misled' = (misled \/ state # circuit)
    /\ UNCHANGED <<linkVars, shown, bff, services, clients, tasks>>

\* The read loop or the ping finds the connection gone and cancels its context.
unregisterClient(i) ==
    /\ i \in clients
    /\ sockets[i] # "open"
    /\ clients' = clients \ {i}
    /\ UNCHANGED <<linkVars, shown, bff, services, greeting, sent, tasks, events>>

ApplyStatus(k) ==
    /\ circuitState' = statuses[k].state
    /\ overtaken' = statuses[k].passed

\* The statuses that are still to be sent or that some link still waits for.
Awaited(s) ==
    LET kept[n \in 0..Len(s)] ==
            IF n = 0 THEN <<>>
            ELSE IF s[n].to = {} /\ s[n].by = "sent" THEN kept[n - 1]
            ELSE Append(kept[n - 1], s[n])
    IN  kept[Len(s)]

\* onmessage of a system_status, on link i, of any of the statuses on their way to it.
DeliverStatus(k, i) ==
    /\ i \in statuses[k].to
    /\ onmessage(i)
    /\ ApplyStatus(k)
    /\ statuses' = Awaited([j \in DOMAIN statuses |->
                        IF j < k THEN [statuses[j] EXCEPT !.passed = TRUE]
                        ELSE IF j = k THEN [statuses[j] EXCEPT !.to = @ \ {i}]
                        ELSE statuses[j]])
    /\ UNCHANGED <<bff, services, clients, greeting, misled, tasks, events>>

\* The link goes, with the statuses on it.
LinkLost(i) ==
    /\ Budget
    /\ Lost(i)
    /\ statuses' = Awaited([k \in DOMAIN statuses |-> [statuses[k] EXCEPT !.to = @ \ {i}]])
    /\ greeting' = greeting \ {i}
    /\ UNCHANGED <<shown, bff, services, clients, misled, tasks, events>>

-----------------------------------------------------------------------------
(***************************************************************************)
(* Commands of the operator                                                *)
(***************************************************************************)
\* sendOOBAction.  Without an open socket it only logs that a local failsafe was
\* applied: nothing changes, and nothing is sent later.
sendOOBAction(a) ==
    /\ Free(a)
    /\ wsRef > 0
    /\ sockets[wsRef] = "open"
    /\ events' = events + 1
    /\ tasks' = [tasks EXCEPT ![a] = [pc |-> "sent", link |-> wsRef]]
    /\ UNCHANGED <<linkVars, shown, bff, services, clients, greeting, sent>>

\* The resume button is disabled while the terminal shows RUNNING.
requestResume ==
    /\ Free("resume")
    /\ circuitState # "RUNNING"
    /\ events' = events + 1
    /\ Go("resume", "validate")
    /\ UNCHANGED <<linkVars, shown, bff, services, clients, greeting, sent>>

\* Any client of the API posts a status other than RUNNING, which skips validation.
postHalt ==
    /\ Free("halt")
    /\ events' = events + 1
    /\ Go("halt", "local")
    /\ UNCHANGED <<linkVars, shown, bff, services, clients, greeting, sent>>

(***************************************************************************)
(* The handlers of the BFF                                                 *)
(***************************************************************************)
\* The first half of updateCircuitState.
UpdateLocal(a) ==
    /\ currentState' = Target[a]
    /\ untold' = (untold \/ a = "halt")
    /\ Go(a, "redis")
    /\ UNCHANGED <<redis, emsPaused>>

\* The read loop starts processOOBAction, or the connection took the command along.
Receive(a) ==
    /\ tasks[a].pc = "sent"
    /\ \/ tasks[a].link \in clients /\ UpdateLocal(a)
       \/ tasks[a].link \notin clients /\ Done(a) /\ UNCHANGED bff
    /\ UNCHANGED <<linkVars, shown, services, clients, greeting, sent, events>>

\* Stage 1 is the health of the MDG.  Stage 2, a key of Redis that nothing in the
\* repository writes, may fail or not; it does when Redis does.
runThreeStageValidation(redisFree) == services /\ redisFree

\* HandleCircuitAPI: the answer that a stage failed, or on to the update.
Validate ==
    /\ tasks["resume"].pc = "validate"
    /\ \E redisFree \in BOOLEAN :
          IF runThreeStageValidation(redisFree) THEN Go("resume", "local") ELSE Done("resume")
    /\ UNCHANGED <<linkVars, shown, bff, services, clients, greeting, sent, events>>

ApiLocal(a) ==
    /\ tasks[a].pc = "local"
    /\ UpdateLocal(a)
    /\ UNCHANGED <<linkVars, shown, services, clients, greeting, sent, events>>

Context(a) == a \in {"resume", "halt"} \/ tasks[a].link \in clients

\* The second half: Redis refuses a context that has ended, and may fail; the error
\* is logged and the handler goes on.
UpdateRedis(a) ==
    /\ tasks[a].pc = "redis"
    /\ \/ Context(a) /\ redis' = Target[a] /\ UNCHANGED events
       \/ ~Context(a) /\ UNCHANGED <<redis, events>>
       \/ Fails /\ UNCHANGED redis
    /\ Go(a, "broadcast")
    /\ UNCHANGED <<linkVars, shown, currentState, emsPaused, untold, services, clients,
                   greeting, sent>>

\* broadcastStatus reads the state, under a context of its own.
broadcastStatus(a) ==
    /\ tasks[a].pc = "broadcast"
    /\ \E state \in States : MakeStatus(state, {}, a) /\ misled' = (state # circuit)
    /\ Go(a, "send")
    /\ UNCHANGED <<linkVars, shown, bff, services, clients, greeting>>

\* broadcast starts a write to every client; one that is gone gets nothing.
SendTo(a, links) ==
    statuses' = Awaited([k \in DOMAIN statuses |->
                    IF statuses[k].by = a THEN [statuses[k] EXCEPT !.to = links, !.by = "sent"]
                    ELSE statuses[k]])

\* MUTANT: a pause is a matter of the circuit state alone.
broadcast_PauseSkipsEMS(a) ==
    /\ tasks[a].pc = "send"
    /\ SendTo(a, Reachable)
    /\ IF a = "panic" THEN Go(a, "ems") ELSE Done(a)
    /\ UNCHANGED <<linkVars, shown, bff, services, clients, greeting, misled, events>>

\* Only processOOBAction goes on to the EMS.
broadcast(a) ==
    /\ tasks[a].pc = "send"
    /\ SendTo(a, Reachable)
    /\ IF a \in {"pause", "panic"} THEN Go(a, "ems") ELSE Done(a)
    /\ UNCHANGED <<linkVars, shown, bff, services, clients, greeting, misled, events>>

\* An RPC error, be it that the context ended or that the EMS is away, is logged.
callEMSForcePause(a) ==
    /\ tasks[a].pc = "ems"
    /\ Done(a)
    /\ \/ Context(a) /\ emsPaused' = TRUE /\ untold' = FALSE /\ UNCHANGED events
       \/ ~Context(a) /\ untold' = TRUE /\ UNCHANGED <<emsPaused, events>>
       \/ Fails /\ untold' = TRUE /\ UNCHANGED emsPaused
    /\ UNCHANGED <<linkVars, shown, currentState, redis, services, clients, greeting, sent>>

\* StartHealthCheckLoop: a changed health is stored, and broadcast before the next
\* check.
HealthCheck ==
    /\ Free("health")
    /\ events' = events + 1
    /\ services' = ~services
    /\ Go("health", "broadcast")
    /\ UNCHANGED <<linkVars, shown, bff, clients, greeting, sent>>

\* The EMS restarts and has forgotten the pause.
RestartEMS ==
    /\ Budget
    /\ emsPaused
    /\ events' = events + 1
    /\ emsPaused' = FALSE /\ untold' = TRUE
    /\ UNCHANGED <<linkVars, shown, currentState, redis, services, clients, greeting, sent,
                   tasks>>

Quietly(A) ==
    A /\ UNCHANGED <<shown, bff, services, clients, greeting, sent, tasks, events>>

Handler(a) == Receive(a) \/ UpdateRedis(a) \/ callEMSForcePause(a)
Announcer(a) == broadcastStatus(a) \/ broadcast(a)

CircuitNext ==
    \/ Quietly(Mount \/ MountStrict \/ handleOnline \/ (Budget /\ handleOffline))
    \/ \E i \in Ids : \/ Quietly(Closed(i) \/ TimerFires(i)) \/ LinkLost(i)
                      \/ Accept(i) \/ Greet(i) \/ unregisterClient(i)
    \/ \E k \in DOMAIN statuses, i \in Ids : DeliverStatus(k, i)
    \/ \E a \in {"pause", "panic"} : sendOOBAction(a)
    \/ requestResume \/ postHalt \/ Validate
    \/ \E a \in {"resume", "halt"} : ApiLocal(a)
    \/ \E a \in DOMAIN Target : Handler(a)
    \/ \E a \in Handlers : Announcer(a)
    \/ HealthCheck
    \/ RestartEMS

CircuitSpec == CircuitInit /\ [][CircuitNext]_circuitVars

\* The browser runs its timers and reports what becomes of its sockets.
FairSpec ==
    /\ CircuitSpec
    /\ WF_circuitVars(Quietly(Mount))
    /\ \A i \in Ids : WF_circuitVars(Quietly(Closed(i))) /\ WF_circuitVars(Quietly(TimerFires(i)))
                      /\ WF_circuitVars(Accept(i))

-----------------------------------------------------------------------------
(***************************************************************************)
(* Properties                                                              *)
(***************************************************************************)
\* A halt by the operator halts the EMS: when no handler runs and the state is not
\* RUNNING, the EMS holds a ForcePause.  Three gaps of the code are left out, and no
\* others: since the last ForcePause that arrived, a call has failed (or its
\* connection ended first) and was not repeated, the EMS has restarted and nobody
\* told it again, or the halt came over HTTP, where HandleCircuitAPI makes no call
\* (processOOBAction, callEMSForcePause).
HaltReachesEMS ==
    AllIdle /\ circuit # "RUNNING" => emsPaused \/ untold

Steps == {"idle", "sent", "validate", "local", "redis", "broadcast", "send", "ems"}

\* What keeps HaltReachesEMS: a state other than RUNNING, in memory or in Redis,
\* comes from a command whose handler has called the EMS or will still call it.
HaltInv ==
    /\ currentState \in States
    /\ redis \in States \cup {Empty}
    /\ tasks \in [Handlers -> [pc : Steps, link : 0..MaxSockets]]
    /\ tasks["halt"].pc = "redis" => untold \/ emsPaused
    /\ currentState # "RUNNING" \/ redis \in {"PAUSED", "TERMINATED"} =>
          \/ emsPaused \/ untold
          \/ \E a \in {"pause", "panic"} : tasks[a].pc \in {"redis", "broadcast", "send", "ems"}

\* The terminal is right once things are quiet: with every status delivered over
\* an open link and no handler running, it shows the BFF's state.  Left out are what
\* the code does not prevent: that the status applied last was read before another
\* one that came first, until a later one corrects it; and that a status was made
\* from memory while Redis failed and held another state, until the next broadcast.
DisplaySettles ==
    (/\ AllIdle /\ statuses = <<>> /\ greeting = {}
     /\ ~overtaken /\ ~misled
     /\ Reachable # {})
       => circuitState = circuit

\* What keeps DisplaySettles.  When no handler stands between its change of the
\* state and its broadcast, every open link is still to deliver the state of the
\* BFF, with nothing else read later; or the terminal shows it already, or will not
\* count as settled, and what is on its way says the same or has been overtaken.
Unannounced == \E a \in DOMAIN Target : tasks[a].pc \in {"redis", "broadcast"}

Coming(i) ==
    \/ i \in greeting
    \/ \E k \in DOMAIN statuses :
          /\ i \in statuses[k].to \/ statuses[k].by # "sent"
          /\ \A j \in DOMAIN statuses : j >= k => statuses[j].state = circuit

Arrived ==
    /\ overtaken \/ circuitState = circuit
    /\ \A k \in DOMAIN statuses : statuses[k].passed \/ statuses[k].state = circuit

SettleInv ==
    /\ clients \subseteq Ids /\ statuses \in Seq(Status) /\ misled \in BOOLEAN
    /\ \A k \in DOMAIN statuses : statuses[k].by # "sent" => tasks[statuses[k].by].pc = "send"
    /\ ~misled /\ ~Unannounced => \A i \in Reachable : Coming(i) \/ Arrived

\* The terminal gets its links back: when the interface stays up, from some point
\* on it is connected, not reconnecting, and its command link is open.
LinkRestored ==
    <>[]isOnline => <>[](isWsConnected /\ ~isReconnecting /\ sockets[wsRef] = "open")
=============================================================================
