-------------------------------- MODULE EMS ---------------------------------
(***************************************************************************)
(* The order execution management system (cmd/ems): the gRPC handlers of   *)
(* EMSServer, the order state machine, and its write-ahead log.            *)
(*                                                                         *)
(* Every gRPC request runs in a goroutine of its own.  A goroutine p makes *)
(* one call; its steps are the shared accesses of the code: a sync.Map     *)
(* operation, an atomic flag access, a lock acquisition, a WAL append.     *)
(* An OrderRuntime is a heap object, because two submissions of one ID can *)
(* leave two objects behind: the object a submission allocates is named by *)
(* its goroutine, the object replay allocates by the order ID.             *)
(***************************************************************************)
EXTENDS Integers, Sequences

CONSTANTS Procs,             \* goroutines serving gRPC calls, one call each
          OrderIds,          \* client order IDs
          Quantities,        \* requested quantities, in half shares
          Deltas,            \* quantities of the exchange's execution reports
          ConcurrentRetries, \* may a client resubmit an ID before its answer?
          MaxWalFailures,    \* bound: failing WAL appends
          MaxCrashes,        \* bound: process crashes
          NoRef, NoProc

Refs == Procs \cup OrderIds

ASSUME EMSAssumption ==
    /\ Procs \cap OrderIds = {}
    /\ NoRef \notin Refs
    /\ NoProc \notin Procs
    /\ Quantities \subseteq Nat
    /\ Deltas \subseteq Nat
    /\ ConcurrentRetries \in BOOLEAN
    /\ MaxWalFailures \in Nat
    /\ MaxCrashes \in Nat

VARIABLES phase,      \* "serving", "down", "replaying", or "failed" to start
          degraded,   \* StateMachine.degraded
          orders,     \* StateMachine.orders: ID -> object, NoRef when absent
          heap,       \* the OrderRuntime objects
          lock,       \* OrderRuntime.mu: the goroutine that holds it
          wal,        \* the lines of the WAL file
          walOpen,    \* the file does not end with a newline
          pc, call,   \* control state and locals of each goroutine
          resp,       \* the answer of each goroutine's call
          replayed,   \* events RecoverFromWAL has applied
          before,     \* history: the settled orders at the last crash
          walFailures, crashes

vars == <<phase, degraded, orders, heap, lock, wal, walOpen, pc, call, resp,
          replayed, before, walFailures, crashes>>

memory == <<phase, degraded, orders, heap, lock>>
log == <<wal, walOpen, walFailures>>
recovery == <<replayed, before, crashes>>

-----------------------------------------------------------------------------
Fills == {"PARTIALLY_FILLED", "FILLED"}
Terminal == {"FILLED", "CANCELED", "REJECTED"}
OrderStatus == {"PENDING", "SUBMITTED", "PENDING_CANCEL"} \cup Fills \cup Terminal

\* MUTANT: a late fill is taken although the cancel is complete.
isValidTransition_LateFill(current, target) ==
    <<current, target>> \in
        ({"PENDING"} \X {"SUBMITTED", "REJECTED"})
        \cup ({"SUBMITTED"} \X (Fills \cup {"PENDING_CANCEL", "REJECTED"}))
        \cup ({"PARTIALLY_FILLED"} \X (Fills \cup {"PENDING_CANCEL"}))
        \cup ({"PENDING_CANCEL", "CANCELED"} \X {"CANCELED", "FILLED"})

\* The transition table of the order state machine.
isValidTransition(current, target) ==
    <<current, target>> \in
        ({"PENDING"} \X {"SUBMITTED", "REJECTED"})
        \cup ({"SUBMITTED"} \X (Fills \cup {"PENDING_CANCEL", "REJECTED"}))
        \cup ({"PARTIALLY_FILLED"} \X (Fills \cup {"PENDING_CANCEL"}))
        \cup ({"PENDING_CANCEL"} \X {"CANCELED", "FILLED"})

\* int32(req.Quantity): a quantity in half shares loses its fraction.
ToInt32(quantity) == quantity \div 2

Runtime == [state : OrderStatus \cup {"NONE"}, total : Nat, cum : Nat]
NoRuntime == [state |-> "NONE", total |-> 0, cum |-> 0]

\* A line of the WAL file; ok is FALSE when json.Unmarshal rejects it.
Line == [ok : BOOLEAN, id : OrderIds, state : OrderStatus, delta : Nat, total : Nat]
Event(id, state, delta, total) ==
    [ok |-> TRUE, id |-> id, state |-> state, delta |-> delta, total |-> total]

Ops == {"submit", "cancel", "report"}
Call == [op : Ops, id : OrderIds, total : Nat, target : OrderStatus, delta : Nat,
         ref : Refs \cup {NoRef}, next : OrderStatus]
NoCall == [op |-> "none", id |-> NoRef, total |-> 0, target |-> "PENDING",
           delta |-> 0, ref |-> NoRef, next |-> "PENDING"]

ControlState == {"idle", "check", "retry", "store", "append", "appendFailed",
                 "cancelState", "load", "lock", "wal", "set", "walFailed", "done"}
Answers == {"none", "lost", "SUBMITTED", "CANCELED", "RETRY", "REJECTED",
            "NOT_FOUND", "TERMINAL", "OK", "ERROR"}

\* What a caller sees of an order: GetOrder, then its fields.
View(id) == IF orders[id] = NoRef THEN NoRuntime ELSE heap[orders[id]]

Unsettled == [state |-> "NONE", total |-> 0, cum |-> 1]

-----------------------------------------------------------------------------
Goto(p, label) == pc' = [pc EXCEPT ![p] = label]

\* The handler returns; its locals die with it.
Answer(p, answer) ==
    /\ Goto(p, "done")
    /\ resp' = [resp EXCEPT ![p] = answer]

\* FileWAL.Append.  A write may put nothing, a part of the line, the whole line
\* without its newline, or all of it in the file before it fails (the last also
\* when only Sync fails).  On a file that does not end with a newline the bytes
\* extend the last line, which then no longer parses.
Write(line) ==
    IF walOpen
    THEN [wal EXCEPT ![Len(wal)].ok = FALSE]
    ELSE Append(wal, line)

AppendOk(line) ==
    /\ wal' = Write(line)
    /\ walOpen' = FALSE
    /\ UNCHANGED walFailures

AppendFails(line) ==
    /\ walFailures < MaxWalFailures
    /\ walFailures' = walFailures + 1
    /\ \/ UNCHANGED <<wal, walOpen>>
       \/ wal' = Write([line EXCEPT !.ok = FALSE]) /\ walOpen' = TRUE
       \/ wal' = Write(line) /\ walOpen' \in BOOLEAN

WalAppend(p, line, succeeded, failed) ==
    \/ AppendOk(line) /\ Goto(p, succeeded)
    \/ AppendFails(line) /\ Goto(p, failed)

\* The process dies: memory and the goroutines are lost, the file remains.
Settled(id) ==
    /\ orders[id] # NoRef => lock[orders[id]] = NoProc
    /\ \A p \in Procs : ~(call[p].id = id /\ pc[p] \in {"append", "appendFailed"})

Die ==
    /\ phase' = "down"
    /\ before' = [id \in OrderIds |-> IF Settled(id) THEN View(id) ELSE Unsettled]
    /\ degraded' = FALSE
    /\ orders' = [id \in OrderIds |-> NoRef]
    /\ heap' = [r \in Refs |-> NoRuntime]
    /\ lock' = [r \in Refs |-> NoProc]
    /\ pc' = [p \in Procs |-> IF pc[p] = "idle" THEN "idle" ELSE "done"]
    /\ resp' = [p \in Procs |-> IF pc[p] \in {"idle", "done"} THEN resp[p] ELSE "lost"]
    /\ replayed' = 0
    /\ UNCHANGED <<wal, walOpen, walFailures, call>>

-----------------------------------------------------------------------------
(***************************************************************************)
(* SubmitOrder                                                             *)
(***************************************************************************)
NewCall(op, id, total, target, delta) ==
    [op |-> op, id |-> id, total |-> total, target |-> target, delta |-> delta,
     ref |-> NoRef, next |-> target]

InFlight(p) == pc[p] \notin {"idle", "done"}

\* A client without ConcurrentRetries resubmits an ID only after its answer.
SubmitBegin(p, id, quantity) ==
    /\ phase = "serving"
    /\ pc[p] = "idle"
    /\ ConcurrentRetries \/ \A q \in Procs :
            ~(InFlight(q) /\ call[q].op = "submit" /\ call[q].id = id)
    /\ call' = [call EXCEPT ![p] =
            [NewCall("submit", id, ToInt32(quantity), "SUBMITTED", 0)
                EXCEPT !.ref = orders[id]]]
    /\ Goto(p, IF orders[id] # NoRef THEN "retry" ELSE "check")
    /\ UNCHANGED <<memory, log, recovery, resp>>

\* The ID is registered: answer with the state read under the order's lock.
SubmitRetry(p) ==
    /\ pc[p] = "retry"
    /\ lock[call[p].ref] = NoProc
    /\ Answer(p, "RETRY")
    /\ UNCHANGED <<memory, log, recovery, call>>

SubmitCheck(p) ==
    /\ pc[p] = "check"
    /\ \/ degraded /\ Answer(p, "REJECTED")
       \/ ~degraded /\ Goto(p, "store") /\ UNCHANGED resp
    /\ UNCHANGED <<memory, log, recovery, call>>

SubmitStore(p) ==
    /\ pc[p] = "store"
    /\ heap' = [heap EXCEPT ![p] =
            [state |-> "PENDING", total |-> call[p].total, cum |-> 0]]
    /\ orders' = [orders EXCEPT ![call[p].id] = p]
    /\ Goto(p, "append")
    /\ UNCHANGED <<phase, degraded, lock, log, recovery, call, resp>>

SubmitAppend(p) ==
    /\ pc[p] = "append"
    /\ WalAppend(p, Event(call[p].id, "PENDING", 0, call[p].total),
                 "load", "appendFailed")
    /\ UNCHANGED <<memory, recovery, call, resp>>

SubmitAppendFailed(p) ==
    /\ pc[p] = "appendFailed"
    /\ degraded' = TRUE
    /\ orders' = [orders EXCEPT ![call[p].id] = NoRef]
    /\ Answer(p, "REJECTED")
    /\ UNCHANGED <<phase, heap, lock, log, recovery, call>>

-----------------------------------------------------------------------------
(***************************************************************************)
(* CancelOrder, up to its two TransitionState calls                        *)
(***************************************************************************)
CancelBegin(p, id) ==
    /\ phase = "serving"
    /\ pc[p] = "idle"
    /\ call' = [call EXCEPT ![p] =
            [NewCall("cancel", id, 0, "PENDING_CANCEL", 0) EXCEPT !.ref = orders[id]]]
    /\ \/ orders[id] = NoRef /\ Answer(p, "NOT_FOUND")
       \/ orders[id] # NoRef /\ Goto(p, "cancelState") /\ UNCHANGED resp
    /\ UNCHANGED <<memory, log, recovery>>

CancelState(p) ==
    /\ pc[p] = "cancelState"
    /\ lock[call[p].ref] = NoProc
    /\ \/ heap[call[p].ref].state \in Terminal /\ Answer(p, "TERMINAL")
       \/ heap[call[p].ref].state \notin Terminal /\ Goto(p, "load") /\ UNCHANGED resp
    /\ UNCHANGED <<memory, log, recovery, call>>

(***************************************************************************)
(* The exchange (external) reports fills and rejections of orders it was   *)
(* sent, by calling TransitionState.                                       *)
(***************************************************************************)
Routed(id) == \E i \in DOMAIN wal : wal[i].id = id /\ wal[i].state = "SUBMITTED"

ReportBegin(p, id, target, delta) ==
    /\ phase = "serving"
    /\ pc[p] = "idle"
    /\ Routed(id)
    /\ call' = [call EXCEPT ![p] = NewCall("report", id, 0, target, delta)]
    /\ Goto(p, "load")
    /\ UNCHANGED <<memory, log, recovery, resp>>

(***************************************************************************)
(* ControlService.ForcePause                                               *)
(***************************************************************************)
ForcePause ==
    /\ phase = "serving"
    /\ degraded' = TRUE
    /\ UNCHANGED <<phase, orders, heap, lock, log, recovery, pc, call, resp>>

-----------------------------------------------------------------------------
(***************************************************************************)
(* TransitionState, and what each caller does with its result              *)
(***************************************************************************)
\* MUTANT: only PENDING must be logged before it is acknowledged.
Opens_PendingOnly(state) == state = "PENDING"

Opens(state) == state \in {"PENDING", "SUBMITTED"}

ReturnError(p) ==
    /\ Answer(p, IF call[p].op = "report" THEN "ERROR" ELSE "REJECTED")
    /\ UNCHANGED call

\* MUTANT: CancelOrder stops after PENDING_CANCEL.
ReturnOk_NoSecondStep(p) ==
    /\ Answer(p, IF call[p].op = "report" THEN "OK" ELSE call[p].target)
    /\ UNCHANGED call

\* CancelOrder goes on from PENDING_CANCEL to CANCELED with a second call.
ReturnOk(p) ==
    IF call[p].target = "PENDING_CANCEL"
    THEN /\ call' = [call EXCEPT ![p].target = "CANCELED"]
         /\ Goto(p, "load")
         /\ UNCHANGED resp
    ELSE /\ Answer(p, IF call[p].op = "report" THEN "OK" ELSE call[p].target)
         /\ UNCHANGED call

TransitionLoad(p) ==
    /\ pc[p] = "load"
    /\ \/ /\ orders[call[p].id] = NoRef
          /\ ReturnError(p)
       \/ /\ orders[call[p].id] # NoRef
          /\ call' = [call EXCEPT ![p].ref = orders[call[p].id]]
          /\ Goto(p, "lock")
          /\ UNCHANGED resp
    /\ UNCHANGED <<memory, log, recovery>>

\* What the fills of the order add up to with this report.
CumQty(p) == heap[call[p].ref].cum +
                (IF call[p].target \in Fills THEN call[p].delta ELSE 0)
Overfill(p) == CumQty(p) > heap[call[p].ref].total /\ call[p].target \in Fills

\* MUTANT: no escalation to FILLED.
NextState_NoEscalation(p) == call[p].target

\* A fill that completes the order escalates to FILLED.
NextState(p) ==
    IF call[p].target \in Fills /\ CumQty(p) = heap[call[p].ref].total
    THEN "FILLED" ELSE call[p].target

Blocked(p) ==
    \/ ~isValidTransition(heap[call[p].ref].state, call[p].target)
    \/ degraded /\ Opens(call[p].target)

TransitionBlocked(p) ==
    /\ pc[p] = "lock"
    /\ lock[call[p].ref] = NoProc
    /\ Blocked(p)
    /\ ReturnError(p)
    /\ UNCHANGED <<memory, log, recovery>>

\* MUTANT: the transition does not wait for the order's lock.
TransitionLock_NoMutex(p) ==
    /\ pc[p] = "lock"
    /\ ~Blocked(p)
    /\ ~Overfill(p)
    /\ lock' = [lock EXCEPT ![call[p].ref] = p]
    /\ heap' = [heap EXCEPT ![call[p].ref].cum = CumQty(p)]
    /\ call' = [call EXCEPT ![p].next = NextState(p)]
    /\ Goto(p, "wal")
    /\ UNCHANGED <<phase, degraded, orders, log, recovery, resp>>

\* The order's lock is taken, and kept until the transition is over.
TransitionLock(p) ==
    /\ pc[p] = "lock"
    /\ lock[call[p].ref] = NoProc
    /\ ~Blocked(p)
    /\ ~Overfill(p)
    /\ lock' = [lock EXCEPT ![call[p].ref] = p]
    /\ heap' = [heap EXCEPT ![call[p].ref].cum = CumQty(p)]
    /\ call' = [call EXCEPT ![p].next = NextState(p)]
    /\ Goto(p, "wal")
    /\ UNCHANGED <<phase, degraded, orders, log, recovery, resp>>

\* An over-fill panics; no interceptor recovers, so the process dies.
TransitionPanic(p) ==
    /\ pc[p] = "lock"
    /\ lock[call[p].ref] = NoProc
    /\ ~Blocked(p)
    /\ Overfill(p)
    /\ Die
    /\ UNCHANGED crashes

TransitionAppend(p) ==
    /\ pc[p] = "wal"
    /\ WalAppend(p, Event(call[p].id, call[p].next, call[p].delta, 0),
                 "set", "walFailed")
    /\ UNCHANGED <<memory, recovery, call, resp>>

Unlock(p) == lock' = [lock EXCEPT ![call[p].ref] = NoProc]
SetState(p) == heap' = [heap EXCEPT ![call[p].ref].state = call[p].next]

TransitionSet(p) ==
    /\ pc[p] = "set"
    /\ SetState(p)
    /\ Unlock(p)
    /\ ReturnOk(p)
    /\ UNCHANGED <<phase, degraded, orders, log, recovery>>

\* A failed append degrades the server; only PENDING and SUBMITTED wait for the
\* log, every other state is still written to memory.
TransitionWalFailed(p) ==
    /\ pc[p] = "walFailed"
    /\ degraded' = TRUE
    /\ Unlock(p)
    /\ \/ Opens(call[p].next) /\ ReturnError(p) /\ UNCHANGED heap
       \/ ~Opens(call[p].next) /\ SetState(p) /\ ReturnOk(p)
    /\ UNCHANGED <<phase, orders, log, recovery>>

-----------------------------------------------------------------------------
(***************************************************************************)
(* Crash, and restart by runEMS                                            *)
(***************************************************************************)
Crash ==
    /\ phase = "serving"
    /\ crashes < MaxCrashes
    /\ crashes' = crashes + 1
    /\ Die

\* Recover reads the whole file first; one bad line fails the start.
Readable == \A i \in DOMAIN wal : wal[i].ok

Restart ==
    /\ phase = "down"
    /\ phase' = IF Readable THEN "replaying" ELSE "failed"
    /\ UNCHANGED <<degraded, orders, heap, lock, log, recovery, pc, call, resp>>

\* MUTANT: only partial fills are added up again.
Apply_PartialFillsOnly(ev) ==
    IF orders[ev.id] = NoRef
    THEN /\ orders' = [orders EXCEPT ![ev.id] = ev.id]
         /\ heap' = [heap EXCEPT ![ev.id] =
                [state |-> ev.state, total |-> ev.total, cum |-> 0]]
    ELSE /\ heap' = [heap EXCEPT ![orders[ev.id]] =
                [state |-> ev.state, total |-> @.total,
                 cum |-> @.cum + (IF ev.state = "PARTIALLY_FILLED" THEN ev.delta ELSE 0)]]
         /\ UNCHANGED orders

\* RecoverFromWAL applies one event: the first of an order allocates its object.
Apply(ev) ==
    IF orders[ev.id] = NoRef
    THEN /\ orders' = [orders EXCEPT ![ev.id] = ev.id]
         /\ heap' = [heap EXCEPT ![ev.id] =
                [state |-> ev.state, total |-> ev.total, cum |-> 0]]
    ELSE /\ heap' = [heap EXCEPT ![orders[ev.id]] =
                [state |-> ev.state, total |-> @.total,
                 cum |-> @.cum + (IF ev.state \in Fills THEN ev.delta ELSE 0)]]
         /\ UNCHANGED orders

Replay ==
    /\ phase = "replaying"
    /\ replayed < Len(wal)
    /\ Apply(wal[replayed + 1])
    /\ replayed' = replayed + 1
    /\ UNCHANGED <<phase, degraded, lock, log, pc, call, resp, before, crashes>>

\* A scan ends at the last line, with or without a newline after it.
Serve ==
    /\ phase = "replaying"
    /\ replayed = Len(wal)
    /\ phase' = "serving"
    /\ before' = [id \in OrderIds |-> Unsettled]
    /\ UNCHANGED <<degraded, orders, heap, lock, log, replayed, crashes, pc, call, resp>>

-----------------------------------------------------------------------------
Init ==
    /\ phase = "serving"
    /\ degraded = FALSE
    /\ orders = [id \in OrderIds |-> NoRef]
    /\ heap = [r \in Refs |-> NoRuntime]
    /\ lock = [r \in Refs |-> NoProc]
    /\ wal = <<>>
    /\ walOpen = FALSE
    /\ pc = [p \in Procs |-> "idle"]
    /\ call = [p \in Procs |-> NoCall]
    /\ resp = [p \in Procs |-> "none"]
    /\ replayed = 0
    /\ before = [id \in OrderIds |-> Unsettled]
    /\ walFailures = 0
    /\ crashes = 0

Submit(p) ==
    \/ SubmitRetry(p) \/ SubmitCheck(p) \/ SubmitStore(p)
    \/ SubmitAppend(p) \/ SubmitAppendFailed(p)

TransitionState(p) ==
    \/ TransitionLoad(p) \/ TransitionBlocked(p) \/ TransitionLock(p)
    \/ TransitionAppend(p) \/ TransitionSet(p) \/ TransitionWalFailed(p)

Begin(p) ==
    \E id \in OrderIds :
        \/ \E quantity \in Quantities : SubmitBegin(p, id, quantity)
        \/ CancelBegin(p, id)
        \/ \E target \in Fills \cup {"REJECTED"}, delta \in Deltas :
               ReportBegin(p, id, target, delta)

\* One step of goroutine p.
Step(p) == Submit(p) \/ CancelState(p) \/ TransitionState(p)

Startup == Restart \/ Replay \/ Serve

Next ==
    \/ \E p \in Procs : Begin(p) \/ Step(p) \/ TransitionPanic(p)
    \/ ForcePause
    \/ Crash
    \/ Startup

Spec == Init /\ [][Next]_vars

\* The Go scheduler runs every goroutine that can run.
FairSpec == Spec /\ \A p \in Procs : WF_vars(Step(p) \/ TransitionPanic(p))

-----------------------------------------------------------------------------
(***************************************************************************)
(* Properties                                                              *)
(***************************************************************************)

\* The states an operation may ask TransitionState for.
ProperTarget(c) ==
    /\ c.op = "submit" => c.target = "SUBMITTED"
    /\ c.op = "cancel" => c.target \in {"PENDING_CANCEL", "CANCELED"}
    /\ c.op = "report" => c.target \in Fills \cup {"REJECTED"}

\* A goroutine past its first step holds a well-formed call, and at every label
\* that dereferences an OrderRuntime it holds an object.
Dereferences == {"retry", "cancelState", "lock", "wal", "set", "walFailed"}

CallsOK ==
    /\ pc \in [Procs -> ControlState]
    /\ call \in [Procs -> Call \cup {NoCall}]
    /\ \A p \in Procs :
          /\ pc[p] # "idle" => call[p] \in Call /\ ProperTarget(call[p])
          /\ pc[p] \in Dereferences => call[p].ref \in Refs

MemoryOK ==
    /\ phase \in {"serving", "down", "replaying", "failed"}
    /\ degraded \in BOOLEAN
    /\ orders \in [OrderIds -> Refs \cup {NoRef}]
    /\ heap \in [Refs -> Runtime]
    /\ lock \in [Refs -> Procs \cup {NoProc}]

LogOK ==
    /\ wal \in Seq(Line)
    /\ walOpen \in BOOLEAN
    /\ walOpen => wal # <<>>
    /\ walFailures \in Nat

\* Type invariant.  No goroutine dereferences a missing order, and only a
\* non-empty file lacks its final newline.
TypeOK ==
    /\ CallsOK
    /\ MemoryOK
    /\ LogOK
    /\ resp \in [Procs -> Answers]
    /\ replayed \in Nat
    /\ before \in [OrderIds -> Runtime]
    /\ crashes \in Nat

\* While the process lives, the state of an OrderRuntime changes only along the
\* transition table, although TransitionState validates the state and writes it
\* in different steps with a WAL append between them.
LifecycleStep ==
    [][phase = "serving" /\ phase' = "serving" =>
        \A r \in Refs : heap[r].state \notin {"NONE", heap'[r].state} =>
            isValidTransition(heap[r].state, heap'[r].state)]_vars

\* What keeps LifecycleStep: between its check and its write a transition holds
\* the lock of its order, whose state still allows the transition; the object
\* of a submission that has not stored it is unused; and no goroutine runs and
\* no object of a dead goroutine is registered while the server is not serving.
Locked == {"wal", "set", "walFailed"}

LifecycleInv ==
    /\ \A p \in Procs : pc[p] \in Locked =>
          /\ lock[call[p].ref] = p
          /\ isValidTransition(heap[call[p].ref].state, call[p].next)
    /\ \A p \in Procs : pc[p] \in {"idle", "check", "store"} => heap[p].state = "NONE"
    /\ phase # "serving" => /\ \A p \in Procs : ~InFlight(p)
                            /\ \A id \in OrderIds : orders[id] \in OrderIds \cup {NoRef}

\* An event, or first PENDING and then SUBMITTED, of the order is in the log.
Logged(id, state) ==
    \E i \in DOMAIN wal : wal[i].id = id /\ wal[i].state = state
LoggedBoth(id) ==
    \E i, j \in DOMAIN wal :
        /\ i < j
        /\ wal[i].id = id /\ wal[i].state = "PENDING"
        /\ wal[j].id = id /\ wal[j].state = "SUBMITTED"

\* SubmitOrder answers SUBMITTED only once a PENDING and, after it, a SUBMITTED
\* event of the order can be read back from the log; nothing appended later
\* spoils these two lines.  The exception is a log that cannot be read at all:
\* an append that succeeds right after another's torn write joins its line.
AckedLogged ==
    Readable => \A p \in Procs : resp[p] = "SUBMITTED" => LoggedBoth(call[p].id)

\* What keeps AckedLogged: the events a submission has logged by each label, and
\* that a call has no answer before it is done.
AckInv ==
    \A p \in Procs :
        /\ pc[p] # "done" => resp[p] = "none"
        /\ pc[p] = "cancelState" => call[p].op = "cancel"
        /\ pc[p] \in Locked /\ call[p].op = "submit" => call[p].next = "SUBMITTED"
        /\ Readable /\ call[p].op = "submit" /\ pc[p] \in {"load", "lock", "wal"} =>
               Logged(call[p].id, "PENDING")
        /\ Readable /\ call[p].op = "submit" /\ pc[p] = "set" => LoggedBoth(call[p].id)
        /\ Readable /\ resp[p] = "SUBMITTED" => LoggedBoth(call[p].id)

\* When clients retry one after the other, an order acknowledged as SUBMITTED
\* stays registered beyond PENDING, also after crashes, WAL failures and replay.
AckedSubmission ==
    \A p \in Procs : phase = "serving" /\ resp[p] = "SUBMITTED" =>
        View(call[p].id).state \notin {"NONE", "PENDING"}

\* As long as no append fails, an acknowledged cancel is never undone: neither
\* by a fill that races it nor by a crash and replay.
AckedCancel ==
    \A p \in Procs :
        phase = "serving" /\ resp[p] = "CANCELED" /\ walFailures = 0 =>
            View(call[p].id).state = "CANCELED"

\* No order, recovered ones included, holds more fills than its quantity.
NoOverfill == \A id \in OrderIds : View(id).cum <= View(id).total

\* As long as no append fails, replay rebuilds every order that no handler was
\* changing at the crash: its state, its quantity and its fills.
RecoveryExact ==
    walFailures = 0 /\ phase = "replaying" /\ replayed = Len(wal) =>
        \A id \in OrderIds : before[id] # Unsettled => View(id) = before[id]

\* What the EMS told its clients, and what the exchange filled, stays true of the
\* orders it holds, through races of cancels and fills, crashes and replay.
AnswersKept == AckedSubmission /\ AckedCancel /\ NoOverfill

\* Every call returns or dies with the process: no handler waits forever for
\* an order's lock.
CallsReturn == \A p \in Procs : InFlight(p) ~> ~InFlight(p)

\* In a process that does not die, a cancel request that got as far as
\* PENDING_CANCEL ends in CANCELED or in a late FILLED.  (An order that replay
\* left in PENDING_CANCEL waits for the client to cancel again.)
CancelResolves ==
    \A id \in OrderIds :
        View(id).state = "PENDING_CANCEL" /\ replayed = 0 ~>
            View(id).state \in {"CANCELED", "FILLED"} \/ phase # "serving"

\* No handler hangs, and a cancel is carried through.
CallsComplete == CallsReturn /\ CancelResolves
=============================================================================
