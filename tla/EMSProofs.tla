----------------------------- MODULE EMSProofs ------------------------------
(***************************************************************************)
(* Safety of the EMS for every number of goroutines, orders, quantities,   *)
(* crashes and WAL failures.  Types, transitions and the logging of what   *)
(* was acknowledged hold with concurrent retries of one ID; what the EMS   *)
(* told its clients, what replay rebuilds and the refinement of            *)
(* OrderLifecycle hold when clients retry one after the other.             *)
(***************************************************************************)
EXTENDS EMSRefinement, SumTheorems, SequenceTheorems, TLAPS

USE EMSAssumption DEF Refs

-----------------------------------------------------------------------------
(***************************************************************************)
(* Lemmas on the helpers                                                   *)
(***************************************************************************)

\* A new call record is well formed.
LEMMA NewCallType ==
    ASSUME NEW op \in Ops, NEW id \in OrderIds, NEW total \in Nat,
           NEW target \in OrderStatus, NEW delta \in Nat
    PROVE  /\ NewCall(op, id, total, target, delta) \in Call
           /\ NewCall(op, id, total, target, delta).op = op
           /\ NewCall(op, id, total, target, delta).target = target
  BY DEF NewCall, Call

\* FileWAL.Append leaves a sequence of lines, which is not empty.
LEMMA WriteType ==
    ASSUME LogOK, NEW line \in Line
    PROVE  Write(line) \in Seq(Line) /\ Write(line) # <<>>
  <1>1. CASE walOpen
    <2>1. Len(wal) \in 1..Len(wal) /\ wal[Len(wal)] \in Line
      BY <1>1 DEF LogOK
    <2>2. [wal[Len(wal)] EXCEPT !.ok = FALSE] \in Line
      BY <2>1 DEF Line
    <2>3. [wal EXCEPT ![Len(wal)] = [wal[Len(wal)] EXCEPT !.ok = FALSE]] \in Seq(Line)
      BY <2>1, <2>2, ExceptSeq DEF LogOK
    <2>4. Write(line) = [wal EXCEPT ![Len(wal)] = [wal[Len(wal)] EXCEPT !.ok = FALSE]]
      BY <1>1 DEF Write
    <2>5. DOMAIN Write(line) = DOMAIN wal
      BY <2>4
    <2>6. QED BY <2>1, <2>3, <2>4, <2>5 DEF LogOK
  <1>2. CASE ~walOpen
    <2>1. Write(line) = Append(wal, line)
      BY <1>2 DEF Write
    <2>2. QED BY <2>1 DEF LogOK
  <1>3. QED BY <1>1, <1>2

\* An append, successful or not, keeps the log well formed.
LEMMA WalAppendType ==
    ASSUME LogOK, NEW p \in Procs, NEW line \in Line,
           NEW ok \in ControlState, NEW failed \in ControlState,
           WalAppend(p, line, ok, failed)
    PROVE  /\ LogOK'
           /\ \/ pc' = [pc EXCEPT ![p] = ok]
              \/ pc' = [pc EXCEPT ![p] = failed]
  <1> DEFINE torn == [line EXCEPT !.ok = FALSE]
  <1>1. torn \in Line
    BY DEF Line
  <1> HIDE DEF torn
  <1>2. CASE AppendOk(line) /\ Goto(p, ok)
    BY <1>2, WriteType DEF AppendOk, Goto, LogOK
  <1>3. CASE AppendFails(line) /\ Goto(p, failed)
    <2>1. CASE UNCHANGED <<wal, walOpen>>
      BY <1>3, <2>1 DEF AppendFails, Goto, LogOK
    <2>2. CASE wal' = Write(torn) /\ walOpen' = TRUE
      <3>1. Write(torn) \in Seq(Line) /\ Write(torn) # <<>>
        BY <1>1, WriteType
      <3>2. walFailures' \in Nat /\ pc' = [pc EXCEPT ![p] = failed]
        BY <1>3 DEF AppendFails, Goto, LogOK
      <3>3. QED BY <2>2, <3>1, <3>2 DEF LogOK
    <2>3. CASE wal' = Write(line) /\ walOpen' \in BOOLEAN
      BY <1>3, <2>3, WriteType DEF AppendFails, Goto, LogOK
    <2>4. QED BY <1>3, <2>1, <2>2, <2>3 DEF AppendFails, torn
  <1>4. QED BY <1>2, <1>3 DEF WalAppend

\* A well-formed log line results from a well-formed event.
LEMMA EventType ==
    ASSUME NEW id \in OrderIds, NEW state \in OrderStatus,
           NEW delta \in Nat, NEW total \in Nat
    PROVE  Event(id, state, delta, total) \in Line
  BY DEF Event, Line

\* A goroutine that moves to label l with the call record c keeps all calls
\* well formed.
LEMMA CallUpdate ==
    ASSUME CallsOK, NEW p \in Procs, NEW l \in ControlState,
           NEW c \in Call, ProperTarget(c), l \in Dereferences => c.ref \in Refs,
           pc' = [pc EXCEPT ![p] = l],
           call' = [call EXCEPT ![p] = c]
    PROVE  CallsOK'
  <1>1. pc' \in [Procs -> ControlState] /\ call' \in [Procs -> Call \cup {NoCall}]
    BY DEF CallsOK
  <1>2. pc'[p] = l /\ call'[p] = c
    BY DEF CallsOK
  <1>3. \A q \in Procs : q # p => pc'[q] = pc[q] /\ call'[q] = call[q]
    BY DEF CallsOK
  <1>4. QED BY <1>1, <1>2, <1>3 DEF CallsOK

\* The same for a goroutine whose call record does not change.
LEMMA CallKept ==
    ASSUME CallsOK, NEW p \in Procs, NEW l \in ControlState,
           pc[p] # "idle", l \in Dereferences => call[p].ref \in Refs,
           pc' = [pc EXCEPT ![p] = l],
           UNCHANGED call
    PROVE  CallsOK'
  <1>1. call' = [call EXCEPT ![p] = call[p]]
    BY DEF CallsOK
  <1>2. call[p] \in Call /\ ProperTarget(call[p])
    BY DEF CallsOK
  <1>3. QED BY <1>1, <1>2, CallUpdate

\* The same for a call that returns.
LEMMA AnswerType ==
    ASSUME TypeOK, NEW p \in Procs, NEW answer \in Answers,
           pc[p] # "idle", Answer(p, answer), UNCHANGED call
    PROVE  CallsOK' /\ resp' \in [Procs -> Answers]
  <1>1. CallsOK'
    BY CallKept DEF Answer, Goto, TypeOK, ControlState, Dereferences
  <1>2. QED BY <1>1 DEF Answer, TypeOK

\* TransitionState returning to its caller.
LEMMA ReturnType ==
    ASSUME TypeOK, NEW p \in Procs, pc[p] # "idle", ReturnOk(p) \/ ReturnError(p)
    PROVE  CallsOK' /\ resp' \in [Procs -> Answers]
  <1> DEFINE c == [call[p] EXCEPT !.target = "CANCELED"]
  <1>1. call[p] \in Call /\ ProperTarget(call[p]) /\ call[p].op \in Ops
    BY DEF TypeOK, CallsOK, Call
  <1>2. CASE ReturnOk(p) /\ call[p].target = "PENDING_CANCEL"
    <2>1. c \in Call /\ c.op = call[p].op /\ c.target = "CANCELED"
      BY <1>1 DEF Call, OrderStatus, Terminal
    <2>2. call[p].op = "cancel"
      BY <1>1, <1>2 DEF ProperTarget, Ops, Fills
    <2>3. ProperTarget(c)
      BY <2>1, <2>2 DEF ProperTarget
    <2>4. call' = [call EXCEPT ![p] = c] /\ pc' = [pc EXCEPT ![p] = "load"] /\ resp' = resp
      BY <1>2 DEF ReturnOk, Goto
    <2> HIDE DEF c
    <2>5. CallsOK'
      BY <2>1, <2>3, <2>4, CallUpdate DEF TypeOK, ControlState, Dereferences
    <2>6. QED BY <2>4, <2>5 DEF TypeOK
  <1>3. CASE ReturnOk(p) /\ call[p].target # "PENDING_CANCEL"
    <2>1. (IF call[p].op = "report" THEN "OK" ELSE call[p].target) \in Answers
      BY <1>1, <1>3 DEF Ops, ProperTarget, Answers
    <2>2. QED BY <1>3, <2>1, AnswerType DEF ReturnOk
  <1>4. CASE ReturnError(p)
    <2>1. (IF call[p].op = "report" THEN "ERROR" ELSE "REJECTED") \in Answers
      BY DEF Answers
    <2>2. QED BY <1>4, <2>1, AnswerType DEF ReturnError
  <1>5. QED BY <1>2, <1>3, <1>4

\* A transition's quantities and next state are well formed.
LEMMA TransitionTypes ==
    ASSUME TypeOK, NEW p \in Procs, pc[p] = "lock"
    PROVE  CumQty(p) \in Nat /\ NextState(p) \in OrderStatus
  BY DEF TypeOK, CallsOK, MemoryOK, CumQty, NextState, Call, Runtime, OrderStatus,
         Fills, Terminal, Dereferences

\* The death of the process resets memory to well-formed values.
LEMMA DieType ==
    ASSUME TypeOK, Die, crashes' \in Nat
    PROVE  TypeOK'
  <1>1. NoRuntime \in Runtime /\ Unsettled \in Runtime
    BY DEF NoRuntime, Unsettled, Runtime
  <1>2. \A id \in OrderIds : View(id) \in Runtime
    BY <1>1 DEF View, TypeOK, MemoryOK
  <1>3. before' \in [OrderIds -> Runtime]
    BY <1>1, <1>2 DEF Die
  <1>4. resp' \in [Procs -> Answers]
    BY DEF Die, TypeOK, Answers
  <1>5. CallsOK'
    BY DEF Die, TypeOK, CallsOK, ControlState, Dereferences
  <1>6. MemoryOK' /\ LogOK'
    BY <1>1 DEF Die, TypeOK, MemoryOK, LogOK
  <1>7. QED BY <1>3, <1>4, <1>5, <1>6 DEF Die, TypeOK

-----------------------------------------------------------------------------
\* Every step keeps the type invariant.
LEMMA TypeStep == TypeOK /\ [Next]_vars => TypeOK'
  <1> SUFFICES ASSUME TypeOK, [Next]_vars PROVE TypeOK'
    OBVIOUS
  <1>a. CallsOK /\ MemoryOK /\ LogOK
    BY DEF TypeOK
  <1>1. ASSUME NEW p \in Procs, NEW id \in OrderIds, NEW quantity \in Quantities,
               SubmitBegin(p, id, quantity)
        PROVE  TypeOK'
    <2> DEFINE n == NewCall("submit", id, ToInt32(quantity), "SUBMITTED", 0)
               c == [n EXCEPT !.ref = orders[id]]
    <2>1. ToInt32(quantity) \in Nat
      BY DEF ToInt32
    <2>2. n \in Call /\ n.op = "submit" /\ n.target = "SUBMITTED"
      BY <2>1, NewCallType DEF Ops, OrderStatus
    <2> HIDE DEF n
    <2>3. c \in Call /\ c.op = "submit" /\ c.target = "SUBMITTED" /\ c.ref = orders[id]
      BY <1>a, <2>2 DEF Call, MemoryOK
    <2>4. ProperTarget(c)
      BY <2>3 DEF ProperTarget
    <2>5. call' = [call EXCEPT ![p] = c]
      BY <1>1 DEF SubmitBegin, n
    <2> HIDE DEF c
    <2> DEFINE l == IF orders[id] # NoRef THEN "retry" ELSE "check"
    <2>6. l \in ControlState /\ pc' = [pc EXCEPT ![p] = l]
      BY <1>1 DEF SubmitBegin, Goto, ControlState
    <2>7. l \in Dereferences => c.ref \in Refs
      BY <1>a, <2>3 DEF Dereferences, MemoryOK
    <2> HIDE DEF l
    <2>8. CallsOK'
      BY <1>a, <2>3, <2>4, <2>5, <2>6, <2>7, CallUpdate
    <2>9. QED BY <1>1, <2>8 DEF SubmitBegin, memory, log, recovery, TypeOK, MemoryOK, LogOK
  <1>2. ASSUME NEW p \in Procs, NEW id \in OrderIds, CancelBegin(p, id)
        PROVE  TypeOK'
    <2> DEFINE n == NewCall("cancel", id, 0, "PENDING_CANCEL", 0)
               c == [n EXCEPT !.ref = orders[id]]
               l == IF orders[id] = NoRef THEN "done" ELSE "cancelState"
    <2>1. n \in Call /\ n.op = "cancel" /\ n.target = "PENDING_CANCEL"
      BY NewCallType DEF Ops, OrderStatus
    <2> HIDE DEF n
    <2>2. c \in Call /\ c.op = "cancel" /\ c.target = "PENDING_CANCEL" /\ c.ref = orders[id]
      BY <1>a, <2>1 DEF Call, MemoryOK
    <2>3. ProperTarget(c)
      BY <2>2 DEF ProperTarget
    <2>4. call' = [call EXCEPT ![p] = c]
      BY <1>2 DEF CancelBegin, n
    <2> HIDE DEF c
    <2>5. l \in ControlState /\ pc' = [pc EXCEPT ![p] = l]
      BY <1>2 DEF CancelBegin, Answer, Goto, ControlState
    <2>6. l \in Dereferences => c.ref \in Refs
      BY <1>a, <2>2 DEF Dereferences, MemoryOK
    <2> HIDE DEF l
    <2>7. CallsOK'
      BY <1>a, <2>2, <2>3, <2>4, <2>5, <2>6, CallUpdate
    <2>8. resp' \in [Procs -> Answers]
      BY <1>2 DEF CancelBegin, Answer, TypeOK, Answers
    <2>9. QED BY <1>2, <2>7, <2>8 DEF CancelBegin, memory, log, recovery, TypeOK,
                                      MemoryOK, LogOK
  <1>3. ASSUME NEW p \in Procs, NEW id \in OrderIds,
               NEW target \in Fills \cup {"REJECTED"}, NEW delta \in Deltas,
               ReportBegin(p, id, target, delta)
        PROVE  TypeOK'
    <2> DEFINE c == NewCall("report", id, 0, target, delta)
    <2>1. c \in Call /\ c.op = "report" /\ c.target = target
      <3>1. target \in OrderStatus /\ delta \in Nat
        BY DEF OrderStatus, Terminal
      <3>2. QED BY <3>1, NewCallType DEF Ops
    <2>2. call' = [call EXCEPT ![p] = c] /\ pc' = [pc EXCEPT ![p] = "load"]
      BY <1>3 DEF ReportBegin, Goto
    <2> HIDE DEF c
    <2>3. ProperTarget(c)
      BY <2>1 DEF ProperTarget
    <2>4. CallsOK'
      BY <1>a, <2>1, <2>2, <2>3, CallUpdate DEF ControlState, Dereferences
    <2>5. QED BY <1>3, <2>4 DEF ReportBegin, memory, log, recovery, TypeOK, MemoryOK, LogOK
  <1>4. ASSUME NEW p \in Procs, SubmitRetry(p) PROVE TypeOK'
    <2>1. CallsOK' /\ resp' \in [Procs -> Answers]
      BY <1>4, AnswerType DEF SubmitRetry, Answers
    <2>2. QED BY <1>4, <2>1 DEF SubmitRetry, memory, log, recovery, TypeOK, MemoryOK, LogOK
  <1>5. ASSUME NEW p \in Procs, SubmitCheck(p) PROVE TypeOK'
    <2>1. CallsOK' /\ resp' \in [Procs -> Answers]
      <3>1. CASE degraded /\ Answer(p, "REJECTED")
        BY <1>5, <3>1, AnswerType DEF SubmitCheck, Answers
      <3>2. CASE Goto(p, "store") /\ UNCHANGED resp
        BY <1>5, <3>2, CallKept DEF SubmitCheck, Goto, ControlState, Dereferences, TypeOK
      <3>3. QED BY <1>5, <3>1, <3>2 DEF SubmitCheck
    <2>2. QED BY <1>5, <2>1 DEF SubmitCheck, memory, log, recovery, TypeOK, MemoryOK, LogOK
  <1>6. ASSUME NEW p \in Procs, SubmitStore(p) PROVE TypeOK'
    <2>1. call[p] \in Call
      BY <1>6 DEF SubmitStore, TypeOK, CallsOK
    <2>2. [state |-> "PENDING", total |-> call[p].total, cum |-> 0] \in Runtime
      BY <2>1 DEF Runtime, Call, OrderStatus
    <2>3. heap' \in [Refs -> Runtime] /\ orders' \in [OrderIds -> Refs \cup {NoRef}]
      BY <1>6, <2>2 DEF SubmitStore, TypeOK, MemoryOK
    <2>4. CallsOK'
      BY <1>a, <1>6, CallKept DEF SubmitStore, Goto, ControlState, Dereferences
    <2>5. QED BY <1>6, <2>3, <2>4 DEF SubmitStore, log, recovery, TypeOK, MemoryOK, LogOK
  <1>7. ASSUME NEW p \in Procs, SubmitAppend(p) PROVE TypeOK'
    <2>1. call[p] \in Call
      BY <1>7 DEF SubmitAppend, TypeOK, CallsOK
    <2> DEFINE line == Event(call[p].id, "PENDING", 0, call[p].total)
    <2>2. line \in Line
      BY <2>1, EventType DEF Call, OrderStatus
    <2>3. WalAppend(p, line, "load", "appendFailed")
      BY <1>7 DEF SubmitAppend
    <2> HIDE DEF line
    <2>4. LogOK' /\ (pc' = [pc EXCEPT ![p] = "load"] \/ pc' = [pc EXCEPT ![p] = "appendFailed"])
      BY <1>a, <2>2, <2>3, WalAppendType DEF ControlState
    <2>5. CallsOK'
      BY <1>a, <1>7, <2>4, CallKept DEF SubmitAppend, ControlState, Dereferences
    <2>6. QED BY <1>7, <2>4, <2>5 DEF SubmitAppend, memory, recovery, TypeOK, MemoryOK
  <1>8. ASSUME NEW p \in Procs, SubmitAppendFailed(p) PROVE TypeOK'
    <2>1. CallsOK' /\ resp' \in [Procs -> Answers]
      BY <1>8, AnswerType DEF SubmitAppendFailed, Answers
    <2>2. QED BY <1>8, <2>1 DEF SubmitAppendFailed, log, recovery, TypeOK, MemoryOK, LogOK
  <1>9. ASSUME NEW p \in Procs, CancelState(p) PROVE TypeOK'
    <2>1. CallsOK' /\ resp' \in [Procs -> Answers]
      <3>1. CASE Answer(p, "TERMINAL")
        BY <1>9, <3>1, AnswerType DEF CancelState, Answers
      <3>2. CASE Goto(p, "load") /\ UNCHANGED resp
        BY <1>9, <3>2, CallKept DEF CancelState, Goto, ControlState, Dereferences, TypeOK
      <3>3. QED BY <1>9, <3>1, <3>2 DEF CancelState
    <2>2. QED BY <1>9, <2>1 DEF CancelState, memory, log, recovery, TypeOK, MemoryOK, LogOK
  <1>10. ASSUME NEW p \in Procs, TransitionLoad(p) PROVE TypeOK'
    <2> DEFINE c == [call[p] EXCEPT !.ref = orders[call[p].id]]
    <2>1. pc[p] # "idle" /\ call[p] \in Call /\ ProperTarget(call[p])
      BY <1>10 DEF TransitionLoad, TypeOK, CallsOK
    <2>2. CASE orders[call[p].id] # NoRef
      <3>1. /\ c \in Call /\ c.op = call[p].op /\ c.target = call[p].target
            /\ c.ref \in Refs
        BY <1>a, <2>1, <2>2 DEF Call, MemoryOK
      <3>2. ProperTarget(c)
        BY <2>1, <3>1 DEF ProperTarget
      <3>3. call' = [call EXCEPT ![p] = c] /\ pc' = [pc EXCEPT ![p] = "lock"] /\ resp' = resp
        BY <1>10, <2>2 DEF TransitionLoad, Goto
      <3> HIDE DEF c
      <3>4. CallsOK'
        BY <1>a, <3>1, <3>2, <3>3, CallUpdate DEF ControlState
      <3>5. QED BY <1>10, <3>3, <3>4 DEF TransitionLoad, memory, log, recovery, TypeOK,
                                         MemoryOK, LogOK
    <2>3. CASE orders[call[p].id] = NoRef
      <3>1. CallsOK' /\ resp' \in [Procs -> Answers]
        BY <1>10, <2>1, <2>3, ReturnType DEF TransitionLoad
      <3>2. QED BY <1>10, <3>1 DEF TransitionLoad, memory, log, recovery, TypeOK,
                                   MemoryOK, LogOK
    <2>4. QED BY <2>2, <2>3
  <1>11. ASSUME NEW p \in Procs, TransitionBlocked(p) PROVE TypeOK'
    <2>1. CallsOK' /\ resp' \in [Procs -> Answers]
      BY <1>11, ReturnType DEF TransitionBlocked
    <2>2. QED BY <1>11, <2>1 DEF TransitionBlocked, memory, log, recovery, TypeOK,
                                 MemoryOK, LogOK
  <1>12. ASSUME NEW p \in Procs, TransitionLock(p) PROVE TypeOK'
    <2> DEFINE c == [call[p] EXCEPT !.next = NextState(p)]
    <2>1. pc[p] = "lock" /\ call[p] \in Call /\ ProperTarget(call[p]) /\ call[p].ref \in Refs
      BY <1>12 DEF TransitionLock, TypeOK, CallsOK, Dereferences
    <2>2. CumQty(p) \in Nat /\ NextState(p) \in OrderStatus
      BY <2>1, TransitionTypes
    <2>3. [heap[call[p].ref] EXCEPT !.cum = CumQty(p)] \in Runtime
      BY <1>a, <2>1, <2>2 DEF Runtime, MemoryOK
    <2>4. heap' \in [Refs -> Runtime] /\ lock' \in [Refs -> Procs \cup {NoProc}]
      BY <1>a, <1>12, <2>1, <2>3 DEF TransitionLock, MemoryOK
    <2>5. /\ c \in Call /\ c.op = call[p].op /\ c.target = call[p].target
          /\ c.ref = call[p].ref
      BY <2>1, <2>2 DEF Call
    <2>6. ProperTarget(c)
      BY <2>1, <2>5 DEF ProperTarget
    <2>7. call' = [call EXCEPT ![p] = c] /\ pc' = [pc EXCEPT ![p] = "wal"]
      BY <1>12 DEF TransitionLock, Goto
    <2> HIDE DEF c
    <2>8. CallsOK'
      BY <1>a, <2>1, <2>5, <2>6, <2>7, CallUpdate DEF ControlState
    <2>9. QED BY <1>12, <2>4, <2>8 DEF TransitionLock, log, recovery, TypeOK, MemoryOK, LogOK
  <1>13. ASSUME NEW p \in Procs, TransitionPanic(p) PROVE TypeOK'
    BY <1>13, DieType DEF TransitionPanic, TypeOK
  <1>14. ASSUME NEW p \in Procs, TransitionAppend(p) PROVE TypeOK'
    <2>1. pc[p] # "idle" /\ call[p] \in Call /\ call[p].ref \in Refs
      BY <1>14 DEF TransitionAppend, TypeOK, CallsOK, Dereferences
    <2> DEFINE line == Event(call[p].id, call[p].next, call[p].delta, 0)
    <2>2. line \in Line
      BY <2>1, EventType DEF Call
    <2>3. WalAppend(p, line, "set", "walFailed")
      BY <1>14 DEF TransitionAppend
    <2> HIDE DEF line
    <2>4. LogOK' /\ (pc' = [pc EXCEPT ![p] = "set"] \/ pc' = [pc EXCEPT ![p] = "walFailed"])
      BY <1>a, <2>2, <2>3, WalAppendType DEF ControlState
    <2>5. CallsOK'
      BY <1>a, <1>14, <2>1, <2>4, CallKept DEF TransitionAppend, ControlState
    <2>6. QED BY <1>14, <2>4, <2>5 DEF TransitionAppend, memory, recovery, TypeOK, MemoryOK
  <1>15. ASSUME NEW p \in Procs, TransitionSet(p) \/ TransitionWalFailed(p)
         PROVE  TypeOK'
    <2>1. pc[p] # "idle" /\ call[p] \in Call /\ call[p].ref \in Refs
      BY <1>15 DEF TransitionSet, TransitionWalFailed, TypeOK, CallsOK, Dereferences
    <2>2. [heap[call[p].ref] EXCEPT !.state = call[p].next] \in Runtime
      BY <1>a, <2>1 DEF Runtime, Call, MemoryOK
    <2>3. SetState(p) => heap' \in [Refs -> Runtime]
      BY <1>a, <2>1, <2>2 DEF SetState, MemoryOK
    <2>4. Unlock(p) => lock' \in [Refs -> Procs \cup {NoProc}]
      BY <1>a, <2>1 DEF Unlock, MemoryOK
    <2>5. CallsOK' /\ resp' \in [Procs -> Answers]
      BY <1>15, <2>1, ReturnType DEF TransitionSet, TransitionWalFailed
    <2>6. MemoryOK'
      <3>1. CASE TransitionSet(p)
        BY <1>a, <2>3, <2>4, <3>1 DEF TransitionSet, MemoryOK
      <3>2. CASE TransitionWalFailed(p)
        BY <1>a, <2>3, <2>4, <3>2 DEF TransitionWalFailed, MemoryOK
      <3>3. QED BY <1>15, <3>1, <3>2
    <2>7. QED BY <1>15, <2>5, <2>6 DEF TransitionSet, TransitionWalFailed, log,
                    recovery, TypeOK, LogOK
  <1>16. CASE ForcePause
    BY <1>16 DEF ForcePause, log, recovery, TypeOK, MemoryOK, LogOK, CallsOK
  <1>17. CASE Crash
    BY <1>17, DieType DEF Crash, TypeOK
  <1>18. CASE Restart
    BY <1>18 DEF Restart, log, recovery, TypeOK, MemoryOK, LogOK, CallsOK
  <1>19. CASE Replay
    <2> DEFINE ev == wal[replayed + 1]
               old == heap[orders[ev.id]]
               new == [state |-> ev.state, total |-> old.total,
                       cum |-> old.cum + (IF ev.state \in Fills THEN ev.delta ELSE 0)]
    <2>1. ev \in Line
      BY <1>19 DEF Replay, TypeOK, LogOK
    <2>2. ev.id \in OrderIds /\ ev.state \in OrderStatus /\ ev.delta \in Nat /\ ev.total \in Nat
      BY <2>1 DEF Line
    <2>3. Apply(ev)
      BY <1>19 DEF Replay
    <2> HIDE DEF ev
    <2>4. heap' \in [Refs -> Runtime] /\ orders' \in [OrderIds -> Refs \cup {NoRef}]
      <3>1. CASE orders[ev.id] = NoRef
        <4>1. [state |-> ev.state, total |-> ev.total, cum |-> 0] \in Runtime
          BY <2>2 DEF Runtime
        <4>2. QED BY <1>a, <2>2, <2>3, <3>1, <4>1 DEF Apply, MemoryOK
      <3>2. CASE orders[ev.id] # NoRef
        <4>1. orders[ev.id] \in Refs /\ old \in Runtime
          BY <1>a, <2>2, <3>2 DEF MemoryOK
        <4>2. new \in Runtime
          BY <2>2, <4>1 DEF Runtime
        <4>3. heap' = [heap EXCEPT ![orders[ev.id]] = new] /\ UNCHANGED orders
          BY <2>3, <3>2 DEF Apply
        <4> HIDE DEF new
        <4>4. QED BY <1>a, <4>1, <4>2, <4>3 DEF MemoryOK
      <3>3. QED BY <3>1, <3>2
    <2>5. QED BY <1>19, <2>4 DEF Replay, log, TypeOK, MemoryOK, LogOK, CallsOK
  <1>20. CASE Serve
    <2>1. Unsettled \in Runtime
      BY DEF Unsettled, Runtime
    <2>2. QED BY <1>20, <2>1 DEF Serve, log, TypeOK, MemoryOK, LogOK, CallsOK
  <1>21. CASE UNCHANGED vars
    BY <1>21 DEF vars, TypeOK, MemoryOK, LogOK, CallsOK
  <1>22. QED BY <1>1, <1>2, <1>3, <1>4, <1>5, <1>6, <1>7, <1>8, <1>9, <1>10, <1>11,
                <1>12, <1>13, <1>14, <1>15, <1>16, <1>17, <1>18, <1>19, <1>20, <1>21
             DEF Next, Begin, Step, Submit, TransitionState, Startup

\* The initial state is well typed.
LEMMA InitType == Init => TypeOK
  <1> SUFFICES ASSUME Init PROVE TypeOK
    OBVIOUS
  <1>1. CallsOK
    BY DEF Init, CallsOK, ControlState, Dereferences
  <1>2. NoRuntime \in Runtime /\ Unsettled \in Runtime
    BY DEF NoRuntime, Unsettled, Runtime
  <1>3. MemoryOK
    BY <1>2 DEF Init, MemoryOK
  <1>4. LogOK
    <2>1. wal \in Seq(Line) /\ walFailures \in Nat
      BY DEF Init
    <2>2. walOpen = FALSE
      BY DEF Init
    <2>3. QED BY <2>1, <2>2 DEF LogOK
  <1>5. QED BY <1>1, <1>2, <1>3, <1>4 DEF Init, TypeOK, Answers

\* The type invariant holds in every reachable state, whatever the constants.
THEOREM TypeCorrect == Spec => []TypeOK
  BY InitType, TypeStep, PTL DEF Spec

-----------------------------------------------------------------------------
(***************************************************************************)
(* The order lifecycle                                                     *)
(***************************************************************************)

\* No transition starts from an object that is not in use.
LEMMA ValidNotNone ==
    ASSUME NEW s, NEW t, isValidTransition(s, t)
    PROVE  s # "NONE"
  BY DEF isValidTransition

\* Escalation of a fill to FILLED is a valid transition whenever the fill is.
LEMMA NextStateValid ==
    ASSUME NEW p \in Procs, ~Blocked(p)
    PROVE  isValidTransition(heap[call[p].ref].state, NextState(p))
  <1>1. isValidTransition(heap[call[p].ref].state, call[p].target)
    BY DEF Blocked
  <1>2. CASE NextState(p) = call[p].target
    BY <1>1, <1>2
  <1>3. CASE call[p].target \in Fills /\ NextState(p) = "FILLED"
    BY <1>1, <1>3 DEF isValidTransition, Fills
  <1>4. QED BY <1>2, <1>3 DEF NextState

\* A step of one goroutine that writes no order keeps the lifecycle invariant.
LEMMA LifecycleFrame ==
    ASSUME TypeOK, LifecycleInv, NEW p \in Procs, NEW l,
           phase = "serving", UNCHANGED <<phase, heap, lock>>,
           pc' = [pc EXCEPT ![p] = l],
           \A q \in Procs : q # p => call'[q] = call[q],
           l \in Locked => pc[p] \in Locked /\ call' = call,
           l \in {"idle", "check", "store"} => pc[p] \in {"idle", "check", "store"}
    PROVE  LifecycleInv'
  <1>1. pc'[p] = l /\ \A q \in Procs : q # p => pc'[q] = pc[q]
    BY DEF TypeOK, CallsOK
  <1>2. QED BY <1>1 DEF LifecycleInv, TypeOK, CallsOK

\* A goroutine takes a step only while the server is serving.
LEMMA StepServing ==
    ASSUME TypeOK, LifecycleInv, NEW p \in Procs, pc[p] \notin {"idle", "done"}
    PROVE  phase = "serving"
  BY DEF LifecycleInv, InFlight

\* The death of the process leaves no goroutine and no order.
LEMMA LifecycleDie ==
    ASSUME TypeOK, LifecycleInv, Die
    PROVE  LifecycleInv'
  BY DEF Die, LifecycleInv, InFlight, NoRuntime, Locked

\* What LifecycleStep says of one step.
LifecycleAction ==
    phase = "serving" /\ phase' = "serving" =>
        \A r \in Refs : heap[r].state \notin {"NONE", heap'[r].state} =>
            isValidTransition(heap[r].state, heap'[r].state)

\* SubmitOrder's steps outside TransitionState.
LEMMA LifecycleSubmit ==
    ASSUME TypeOK, LifecycleInv, NEW p \in Procs, Submit(p) \/ CancelState(p)
    PROVE  LifecycleInv' /\ LifecycleAction
  <1>1. CASE SubmitRetry(p)
    <2>1. phase = "serving"
      BY <1>1, StepServing DEF SubmitRetry
    <2>2. QED BY <1>1, <2>1, LifecycleFrame DEF SubmitRetry, Answer, Goto, memory, Locked,
                                                LifecycleAction
  <1>2. CASE SubmitCheck(p)
    <2>1. phase = "serving"
      BY <1>2, StepServing DEF SubmitCheck
    <2>2. PICK l \in {"done", "store"} : pc' = [pc EXCEPT ![p] = l]
      BY <1>2 DEF SubmitCheck, Answer, Goto
    <2>3. QED BY <1>2, <2>1, <2>2, LifecycleFrame DEF SubmitCheck, memory, Locked,
                                                      LifecycleAction
  <1>3. CASE SubmitStore(p)
    <2>1. phase = "serving" /\ heap[p].state = "NONE"
      BY <1>3, StepServing DEF SubmitStore, LifecycleInv
    <2>2. \A r \in Refs : r # p => heap'[r] = heap[r]
      BY <1>3 DEF SubmitStore, TypeOK, MemoryOK
    <2>3. \A q \in Procs : q # p => pc'[q] = pc[q]
      BY <1>3 DEF SubmitStore, Goto, TypeOK, CallsOK
    <2>4. pc'[p] = "append"
      BY <1>3 DEF SubmitStore, Goto, TypeOK, CallsOK
    <2>5. ASSUME NEW q \in Procs, pc[q] \in Locked
          PROVE  call[q].ref \in Refs /\ call[q].ref # p
      BY <2>1, <2>5, ValidNotNone DEF LifecycleInv, Locked, Dereferences, TypeOK, CallsOK
    <2>6. LifecycleInv'
      BY <1>3, <2>1, <2>2, <2>3, <2>4, <2>5 DEF LifecycleInv, SubmitStore, Locked
    <2>7. QED BY <2>1, <2>2, <2>6 DEF LifecycleAction
  <1>4. CASE SubmitAppend(p)
    <2>1. phase = "serving"
      BY <1>4, StepServing DEF SubmitAppend
    <2>2. PICK l \in {"load", "appendFailed"} : pc' = [pc EXCEPT ![p] = l]
      BY <1>4 DEF SubmitAppend, WalAppend, Goto
    <2>3. QED BY <1>4, <2>1, <2>2, LifecycleFrame DEF SubmitAppend, memory, Locked,
                                                      LifecycleAction
  <1>5. CASE SubmitAppendFailed(p)
    <2>1. phase = "serving"
      BY <1>5, StepServing DEF SubmitAppendFailed
    <2>2. QED BY <1>5, <2>1, LifecycleFrame DEF SubmitAppendFailed, Answer, Goto, Locked,
                                                LifecycleAction
  <1>6. CASE CancelState(p)
    <2>1. phase = "serving"
      BY <1>6, StepServing DEF CancelState
    <2>2. PICK l \in {"done", "load"} : pc' = [pc EXCEPT ![p] = l]
      BY <1>6 DEF CancelState, Answer, Goto
    <2>3. QED BY <1>6, <2>1, <2>2, LifecycleFrame DEF CancelState, memory, Locked,
                                                      LifecycleAction
  <1>7. QED BY <1>1, <1>2, <1>3, <1>4, <1>5, <1>6 DEF Submit

\* The steps of TransitionState: the lock, taken with the check and kept until
\* the write, makes the checked state the state that is overwritten.
LEMMA LifecycleTransition ==
    ASSUME TypeOK, LifecycleInv, NEW p \in Procs, TransitionState(p)
    PROVE  LifecycleInv' /\ LifecycleAction
  <1>0. phase = "serving"
    BY StepServing DEF TransitionState, TransitionLoad, TransitionBlocked, TransitionLock,
                       TransitionAppend, TransitionSet, TransitionWalFailed
  <1>1. CASE TransitionLoad(p)
    <2>1. PICK l \in {"done", "lock"} : pc' = [pc EXCEPT ![p] = l]
      BY <1>1 DEF TransitionLoad, ReturnError, Answer, Goto
    <2>2. \A q \in Procs : q # p => call'[q] = call[q]
      BY <1>1 DEF TransitionLoad, ReturnError, TypeOK, CallsOK
    <2>3. QED BY <1>0, <1>1, <2>1, <2>2, LifecycleFrame DEF TransitionLoad, memory, Locked,
                                                            LifecycleAction
  <1>2. CASE TransitionBlocked(p)
    BY <1>0, <1>2, LifecycleFrame DEF TransitionBlocked, ReturnError, Answer, Goto, memory,
                                      Locked, LifecycleAction
  <1>3. CASE TransitionLock(p)
    <2> DEFINE r == call[p].ref
    <2>1. r \in Refs /\ call[p] \in Call /\ lock[r] = NoProc
      BY <1>3 DEF TransitionLock, TypeOK, CallsOK, Dereferences
    <2>2. \A s \in Refs : heap'[s].state = heap[s].state
      BY <1>3, <2>1 DEF TransitionLock, TypeOK, MemoryOK, Runtime
    <2>3. lock'[r] = p /\ \A s \in Refs : s # r => lock'[s] = lock[s]
      BY <1>3, <2>1 DEF TransitionLock, TypeOK, MemoryOK
    <2>4. pc'[p] = "wal" /\ \A q \in Procs : q # p => pc'[q] = pc[q]
      BY <1>3 DEF TransitionLock, Goto, TypeOK, CallsOK
    <2>5. call'[p].ref = r /\ call'[p].next = NextState(p)
      BY <1>3, <2>1 DEF TransitionLock, TypeOK, CallsOK, Call
    <2>6. \A q \in Procs : q # p => call'[q] = call[q]
      BY <1>3 DEF TransitionLock, TypeOK, CallsOK
    <2>7. isValidTransition(heap[r].state, NextState(p))
      BY <1>3, NextStateValid DEF TransitionLock
    <2>8. ASSUME NEW q \in Procs, q # p, pc[q] \in Locked
          PROVE  call[q].ref \in Refs /\ call[q].ref # r
      BY <2>1, <2>8 DEF LifecycleInv, Locked, Dereferences, TypeOK, CallsOK
    <2>9. UNCHANGED <<phase, orders>>
      BY <1>3 DEF TransitionLock
    <2> HIDE DEF r
    <2>10. ASSUME NEW q \in Procs, pc'[q] \in Locked
           PROVE  /\ lock'[call'[q].ref] = q
                  /\ isValidTransition(heap'[call'[q].ref].state, call'[q].next)
      <3>1. CASE q = p
        BY <2>1, <2>2, <2>3, <2>5, <2>7, <3>1
      <3>2. CASE q # p
        BY <2>2, <2>3, <2>4, <2>6, <2>8, <2>10, <3>2 DEF LifecycleInv
      <3>3. QED BY <3>1, <3>2
    <2>11. \A q \in Procs : pc'[q] \in {"idle", "check", "store"} => heap'[q].state = "NONE"
      BY <2>2, <2>4 DEF LifecycleInv
    <2>12. LifecycleInv'
      BY <1>0, <2>9, <2>10, <2>11 DEF LifecycleInv
    <2>13. QED BY <2>2, <2>12 DEF LifecycleAction
  <1>4. CASE TransitionAppend(p)
    <2>1. PICK l \in {"set", "walFailed"} : pc' = [pc EXCEPT ![p] = l]
      BY <1>4 DEF TransitionAppend, WalAppend, Goto
    <2>2. QED BY <1>0, <1>4, <2>1, LifecycleFrame DEF TransitionAppend, memory, Locked,
                                                      LifecycleAction
  <1>5. CASE TransitionSet(p) \/ TransitionWalFailed(p)
    <2> DEFINE r == call[p].ref
    <2>1. r \in Refs /\ pc[p] \in Locked /\ lock[r] = p
          /\ isValidTransition(heap[r].state, call[p].next)
      BY <1>5 DEF TransitionSet, TransitionWalFailed, TypeOK, CallsOK, Dereferences, Locked,
                  LifecycleInv
    <2>2. \A s \in Refs : s # r => heap'[s] = heap[s] /\ lock'[s] = lock[s]
      BY <1>5, <2>1 DEF TransitionSet, TransitionWalFailed, SetState, Unlock, TypeOK, MemoryOK
    <2>3. heap'[r].state \in {heap[r].state, call[p].next}
      BY <1>5, <2>1 DEF TransitionSet, TransitionWalFailed, SetState, TypeOK, MemoryOK, Runtime
    <2>4. pc'[p] \in {"load", "done"} /\ \A q \in Procs : q # p => pc'[q] = pc[q]
      BY <1>5 DEF TransitionSet, TransitionWalFailed, ReturnOk, ReturnError, Answer, Goto,
                  TypeOK, CallsOK
    <2>5. \A q \in Procs : q # p => call'[q] = call[q]
      BY <1>5 DEF TransitionSet, TransitionWalFailed, ReturnOk, ReturnError, TypeOK, CallsOK
    <2>6. UNCHANGED <<phase, orders>>
      BY <1>5 DEF TransitionSet, TransitionWalFailed
    <2>7. heap[r].state # "NONE"
      BY <2>1, ValidNotNone
    <2> HIDE DEF r
    <2>8. ASSUME NEW q \in Procs, pc'[q] \in Locked
          PROVE  /\ lock'[call'[q].ref] = q
                 /\ isValidTransition(heap'[call'[q].ref].state, call'[q].next)
      <3>1. q # p /\ pc[q] \in Locked
        BY <2>4, <2>8 DEF Locked
      <3>2. call[q].ref \in Refs /\ call[q].ref # r
        BY <2>1, <3>1 DEF LifecycleInv, Locked, Dereferences, TypeOK, CallsOK
      <3>3. QED BY <2>2, <2>5, <3>1, <3>2 DEF LifecycleInv
    <2>9. ASSUME NEW q \in Procs, pc'[q] \in {"idle", "check", "store"}
          PROVE  heap'[q].state = "NONE"
      <3>1. q # p /\ heap[q].state = "NONE"
        BY <2>4, <2>9 DEF LifecycleInv
      <3>2. QED BY <2>2, <2>7, <3>1
    <2>10. LifecycleInv'
      BY <1>0, <2>6, <2>8, <2>9 DEF LifecycleInv
    <2>11. QED BY <2>1, <2>2, <2>3, <2>10 DEF LifecycleAction
  <1>6. QED BY <1>1, <1>2, <1>3, <1>4, <1>5 DEF TransitionState

\* Calls that begin, and the steps that are not a goroutine's.
LEMMA LifecycleOther ==
    ASSUME TypeOK, LifecycleInv,
           \/ \E p \in Procs : Begin(p) \/ TransitionPanic(p)
           \/ ForcePause \/ Crash \/ Startup \/ UNCHANGED vars
    PROVE  LifecycleInv' /\ LifecycleAction
  <1>1. ASSUME NEW p \in Procs, Begin(p) PROVE LifecycleInv' /\ LifecycleAction
    <2>1. phase = "serving" /\ pc[p] = "idle" /\ UNCHANGED memory
      BY <1>1 DEF Begin, SubmitBegin, CancelBegin, ReportBegin
    <2>2. PICK l \in {"retry", "check", "done", "cancelState", "load"} :
                    pc' = [pc EXCEPT ![p] = l]
      BY <1>1 DEF Begin, SubmitBegin, CancelBegin, ReportBegin, Answer, Goto
    <2>3. \A q \in Procs : q # p => call'[q] = call[q]
      BY <1>1 DEF Begin, SubmitBegin, CancelBegin, ReportBegin, TypeOK, CallsOK
    <2>4. QED BY <2>1, <2>2, <2>3, LifecycleFrame DEF memory, Locked, LifecycleAction
  <1>2. ASSUME NEW p \in Procs, TransitionPanic(p) PROVE LifecycleInv' /\ LifecycleAction
    BY <1>2, LifecycleDie DEF TransitionPanic, Die, LifecycleAction
  <1>3. CASE ForcePause \/ UNCHANGED vars
    BY <1>3 DEF ForcePause, vars, LifecycleInv, LifecycleAction, InFlight
  <1>4. CASE Crash
    BY <1>4, LifecycleDie DEF Crash, Die, LifecycleAction
  <1>5. CASE Restart
    BY <1>5 DEF Restart, LifecycleInv, LifecycleAction, InFlight
  <1>6. CASE Replay
    <2> DEFINE ev == wal[replayed + 1]
    <2>0. ev \in Line
      BY <1>6 DEF Replay, TypeOK, LogOK
    <2>1. ev.id \in OrderIds /\ Apply(ev) /\ UNCHANGED <<phase, lock, pc, call>>
      BY <1>6, <2>0 DEF Replay, Line
    <2> HIDE DEF ev
    <2>2. phase = "replaying" /\ \A p \in Procs : pc[p] \in {"idle", "done"}
      BY <1>6 DEF Replay, LifecycleInv, InFlight
    <2>3. \A id \in OrderIds : orders'[id] \in OrderIds \cup {NoRef}
      BY <2>1, <2>2 DEF Apply, LifecycleInv, TypeOK, MemoryOK
    <2>4. \A p \in Procs : heap'[p] = heap[p]
      BY <2>1, <2>2 DEF Apply, LifecycleInv, TypeOK, MemoryOK
    <2>5. QED BY <2>1, <2>2, <2>3, <2>4 DEF LifecycleInv, LifecycleAction, InFlight, Locked
  <1>7. CASE Serve
    BY <1>7 DEF Serve, LifecycleInv, LifecycleAction, InFlight
  <1>8. QED BY <1>1, <1>2, <1>3, <1>4, <1>5, <1>6, <1>7 DEF Startup

\* The lifecycle invariant holds in every reachable state.
THEOREM LifecycleInvariant == Spec => []LifecycleInv
  <1>1. Init => LifecycleInv
    BY DEF Init, LifecycleInv, NoRuntime, Locked, InFlight
  <1>2. TypeOK /\ LifecycleInv /\ [Next]_vars => LifecycleInv'
    BY LifecycleSubmit, LifecycleTransition, LifecycleOther DEF Next, Step
  <1>3. QED BY <1>1, <1>2, TypeCorrect, PTL DEF Spec

\* For any number of goroutines and orders, concurrent submissions of one ID
\* included: while the process lives, an order's state changes only along the
\* transition table of isValidTransition.
THEOREM Lifecycle == Spec => LifecycleStep
  <1>1. TypeOK /\ LifecycleInv /\ [Next]_vars => LifecycleAction
    BY LifecycleSubmit, LifecycleTransition, LifecycleOther DEF Next, Step
  <1>2. TypeOK /\ LifecycleInv /\ [Next]_vars =>
            [phase = "serving" /\ phase' = "serving" =>
                \A r \in Refs : heap[r].state \notin {"NONE", heap'[r].state} =>
                    isValidTransition(heap[r].state, heap'[r].state)]_vars
    BY <1>1 DEF LifecycleAction
  <1>3. QED BY <1>2, TypeCorrect, LifecycleInvariant, PTL DEF Spec, LifecycleStep
-----------------------------------------------------------------------------
(***************************************************************************)
(* Acknowledged submissions are in the log, for every value of the         *)
(* constants: any number of goroutines, concurrent retries of one ID, torn *)
(* writes, failing syncs, crashes and restarts.                            *)
(***************************************************************************)
\* Whatever a write puts in the file: if the log can still be read afterwards it
\* could be read before, and the write only added its line at the end.
LEMMA WriteReadable ==
    ASSUME LogOK, NEW line \in Line, wal' = Write(line), Readable'
    PROVE  /\ Readable
           /\ wal' = Append(wal, line)
  <1>1. CASE walOpen
    <2>1. Len(wal) \in 1..Len(wal) /\ wal[Len(wal)] \in Line
      BY <1>1 DEF LogOK
    <2> DEFINE bad == [wal[Len(wal)] EXCEPT !.ok = FALSE]
    <2>2. wal' = [wal EXCEPT ![Len(wal)] = bad]
      BY <1>1 DEF Write
    <2>3. bad \in Line /\ bad.ok = FALSE
      BY <2>1 DEF Line
    <2> HIDE DEF bad
    <2>4. wal'[Len(wal)] = bad /\ Len(wal) \in DOMAIN wal'
      BY <2>1, <2>2 DEF LogOK
    <2>5. QED BY <2>3, <2>4 DEF Readable
  <1>2. CASE ~walOpen
    <2>1. wal' = Append(wal, line)
      BY <1>2 DEF Write
    <2>2. \A i \in DOMAIN wal : i \in DOMAIN wal' /\ wal'[i] = wal[i]
      BY <2>1 DEF LogOK
    <2>3. QED BY <2>1, <2>2 DEF Readable
  <1>3. QED BY <1>1, <1>2

\* An append that leaves a readable log loses nothing; a successful one adds
\* its event after all others.
LEMMA AppendKeeps ==
    ASSUME LogOK, NEW p \in Procs, NEW line \in Line, NEW ok, NEW failed,
           WalAppend(p, line, ok, failed), Readable'
    PROVE  /\ Readable
           /\ \A i \in DOMAIN wal : i \in DOMAIN wal' /\ wal'[i] = wal[i]
           /\ AppendOk(line) => /\ Len(wal) + 1 \in DOMAIN wal'
                                /\ wal'[Len(wal) + 1] = line
  <1> DEFINE torn == [line EXCEPT !.ok = FALSE]
  <1>1. torn \in Line /\ torn.ok = FALSE
    BY DEF Line
  <1> HIDE DEF torn
  <1>2. CASE UNCHANGED wal /\ ~AppendOk(line)
    BY <1>2 DEF Readable
  <1>3. CASE wal' = Write(line)
    <2>1. Readable /\ wal' = Append(wal, line)
      BY <1>3, WriteReadable
    <2>2. QED BY <2>1 DEF LogOK
  <1>4. CASE wal' = Write(torn)
    <2>1. Readable /\ wal' = Append(wal, torn)
      BY <1>1, <1>4, WriteReadable
    <2>2. Len(wal) + 1 \in DOMAIN wal' /\ wal'[Len(wal) + 1].ok = FALSE
      BY <1>1, <2>1 DEF LogOK
    <2>3. QED BY <2>2 DEF Readable
  <1>5. QED BY <1>2, <1>3, <1>4 DEF WalAppend, AppendOk, AppendFails, torn

\* What was logged stays logged in a log that keeps its lines.
LEMMA LoggedKept ==
    ASSUME \A i \in DOMAIN wal : i \in DOMAIN wal' /\ wal'[i] = wal[i]
    PROVE  \A id : /\ \A state : Logged(id, state) => Logged(id, state)'
                   /\ LoggedBoth(id) => LoggedBoth(id)'
  BY DEF Logged, LoggedBoth

\* A step of p that does not append keeps the invariant when it does not move
\* p past an append, and answers SUBMITTED only from the label "set".
LEMMA AckFrame ==
    ASSUME TypeOK, AckInv, NEW p \in Procs, NEW l,
           UNCHANGED wal,
           pc' = [pc EXCEPT ![p] = l],
           \A q \in Procs : q # p => call'[q] = call[q] /\ resp'[q] = resp[q],
           l # "done" => resp'[p] = "none",
           l = "cancelState" => call'[p].op = "cancel",
           l \in Locked /\ call'[p].op = "submit" => call'[p].next = "SUBMITTED",
           l \in {"load", "lock", "wal"} /\ call'[p].op = "submit" =>
                /\ pc[p] \in {"load", "lock", "wal"}
                /\ call[p].op = "submit" /\ call'[p].id = call[p].id,
           l # "set",
           resp'[p] = "SUBMITTED" =>
                pc[p] = "set" /\ call[p].op = "submit" /\ call'[p].id = call[p].id
    PROVE  AckInv'
  <1>1. Readable' = Readable /\ \A id : /\ LoggedBoth(id)' = LoggedBoth(id)
                                        /\ Logged(id, "PENDING")' = Logged(id, "PENDING")
    BY DEF Readable, Logged, LoggedBoth
  <1>2. pc'[p] = l /\ \A q \in Procs : q # p => pc'[q] = pc[q]
    BY DEF TypeOK, CallsOK
  <1>3. ASSUME NEW q \in Procs
        PROVE  /\ pc'[q] # "done" => resp'[q] = "none"
               /\ pc'[q] = "cancelState" => call'[q].op = "cancel"
               /\ pc'[q] \in Locked /\ call'[q].op = "submit" => call'[q].next = "SUBMITTED"
               /\ Readable' /\ call'[q].op = "submit" /\ pc'[q] \in {"load", "lock", "wal"} =>
                      Logged(call'[q].id, "PENDING")
               /\ Readable' /\ call'[q].op = "submit" /\ pc'[q] = "set" =>
                      LoggedBoth(call'[q].id)
               /\ Readable' /\ resp'[q] = "SUBMITTED" => LoggedBoth(call'[q].id)
    <2>1. CASE q = p
      BY <1>1, <1>2, <2>1 DEF AckInv
    <2>2. CASE q # p
      BY <1>1, <1>2, <2>2 DEF AckInv
    <2>3. QED BY <2>1, <2>2
  <1>4. QED BY <1>1, <1>3 DEF AckInv, Readable, Logged, LoggedBoth

\* An append by p: everybody else's events stay, p's event is added.
LEMMA AckAppend ==
    ASSUME TypeOK, AckInv, NEW p \in Procs, NEW line \in Line, NEW ok, NEW failed,
           WalAppend(p, line, ok, failed), UNCHANGED <<call, resp>>,
           pc[p] # "done", ok # "done", failed # "done",
           ok # "cancelState", failed # "cancelState",
           ok \in Locked \/ failed \in Locked => pc[p] \in Locked,
           failed \notin {"load", "lock", "wal", "set"},
           ok \in {"load", "lock", "wal"} =>
               line.id = call[p].id /\ line.state = "PENDING",
           ok = "set" /\ call[p].op = "submit" =>
               pc[p] = "wal" /\ line.id = call[p].id /\ line.state = "SUBMITTED"
    PROVE  AckInv'
  <1>0. LogOK
    BY DEF TypeOK
  <1>1. \A q \in Procs : q # p => pc'[q] = pc[q]
    BY DEF TypeOK, CallsOK, WalAppend, Goto
  <1>2. pc'[p] \in {ok, failed} /\ (pc'[p] = ok => AppendOk(line) \/ ok = failed)
    BY DEF TypeOK, CallsOK, WalAppend, Goto
  <1>3. CASE ~Readable'
    <2>1. ASSUME NEW q \in Procs
          PROVE  /\ pc'[q] # "done" => resp[q] = "none"
                 /\ pc'[q] = "cancelState" => call[q].op = "cancel"
                 /\ pc'[q] \in Locked /\ call[q].op = "submit" => call[q].next = "SUBMITTED"
      BY <1>1, <1>2 DEF AckInv
    <2>2. QED BY <1>3, <2>1 DEF AckInv
  <1>4. CASE Readable'
    <2>1. /\ Readable
          /\ \A i \in DOMAIN wal : i \in DOMAIN wal' /\ wal'[i] = wal[i]
          /\ AppendOk(line) => /\ Len(wal) + 1 \in DOMAIN wal'
                               /\ wal'[Len(wal) + 1] = line
      BY <1>0, <1>4, AppendKeeps
    <2>2. \A id : /\ \A state : Logged(id, state) => Logged(id, state)'
                  /\ LoggedBoth(id) => LoggedBoth(id)'
      BY <2>1, LoggedKept
    <2>3. ASSUME pc'[p] \in {"load", "lock", "wal"}
          PROVE  Logged(call[p].id, "PENDING")'
      <3>1. AppendOk(line) /\ line.id = call[p].id /\ line.state = "PENDING"
        BY <1>2, <2>3
      <3>2. QED BY <2>1, <3>1 DEF Logged
    <2>4. ASSUME pc'[p] = "set", call[p].op = "submit"
          PROVE  LoggedBoth(call[p].id)'
      <3>1. /\ AppendOk(line) /\ line.id = call[p].id /\ line.state = "SUBMITTED"
            /\ Logged(call[p].id, "PENDING")
        BY <1>2, <2>1, <2>4 DEF AckInv
      <3>2. PICK i \in DOMAIN wal : wal[i].id = call[p].id /\ wal[i].state = "PENDING"
        BY <3>1 DEF Logged
      <3>3. i \in DOMAIN wal' /\ wal'[i] = wal[i] /\ i < Len(wal) + 1
        BY <1>0, <2>1, <3>2 DEF LogOK
      <3>4. QED BY <2>1, <3>1, <3>2, <3>3 DEF LoggedBoth
    <2>5. ASSUME NEW q \in Procs
          PROVE  /\ pc'[q] # "done" => resp[q] = "none"
                 /\ pc'[q] = "cancelState" => call[q].op = "cancel"
                 /\ pc'[q] \in Locked /\ call[q].op = "submit" => call[q].next = "SUBMITTED"
                 /\ call[q].op = "submit" /\ pc'[q] \in {"load", "lock", "wal"} =>
                        Logged(call[q].id, "PENDING")'
                 /\ call[q].op = "submit" /\ pc'[q] = "set" => LoggedBoth(call[q].id)'
                 /\ resp[q] = "SUBMITTED" => LoggedBoth(call[q].id)'
      <3>1. CASE q = p
        BY <1>2, <2>1, <2>2, <2>3, <2>4, <3>1 DEF AckInv
      <3>2. CASE q # p
        BY <1>1, <2>1, <2>2, <3>2 DEF AckInv
      <3>3. QED BY <3>1, <3>2
    <2>6. QED BY <2>5 DEF AckInv, Logged, LoggedBoth
  <1>5. QED BY <1>3, <1>4

\* The result of TransitionState: only a submission is answered SUBMITTED, and
\* only CancelOrder goes on to a second transition.
LEMMA AckReturn ==
    ASSUME TypeOK, AckInv, NEW p \in Procs, pc[p] \notin {"idle", "done"},
           UNCHANGED wal,
           ReturnError(p) \/ (ReturnOk(p) /\ (call[p].op = "submit" => pc[p] = "set"))
    PROVE  AckInv'
  <1>1. call[p] \in Call /\ ProperTarget(call[p]) /\ call[p].op \in Ops /\ resp[p] = "none"
    BY DEF TypeOK, CallsOK, AckInv, Call
  <1>2. CASE ReturnError(p)
    <2>1. /\ pc' = [pc EXCEPT ![p] = "done"] /\ call' = call
          /\ resp'[p] # "SUBMITTED" /\ \A q \in Procs : q # p => resp'[q] = resp[q]
      BY <1>2 DEF ReturnError, Answer, Goto, TypeOK
    <2>2. QED BY <2>1, AckFrame DEF Locked
  <1>3. CASE ReturnOk(p) /\ call[p].target = "PENDING_CANCEL"
    <2>1. call[p].op = "cancel"
      BY <1>1, <1>3 DEF ProperTarget, Ops, Fills
    <2>2. /\ pc' = [pc EXCEPT ![p] = "load"] /\ resp' = resp
          /\ call'[p].op = "cancel" /\ \A q \in Procs : q # p => call'[q] = call[q]
      BY <1>1, <1>3, <2>1 DEF ReturnOk, Goto, TypeOK, CallsOK, Call
    <2>3. QED BY <1>1, <2>2, AckFrame DEF Locked
  <1>4. CASE /\ ReturnOk(p) /\ call[p].target # "PENDING_CANCEL"
             /\ call[p].op = "submit" => pc[p] = "set"
    <2>1. /\ pc' = [pc EXCEPT ![p] = "done"] /\ call' = call
          /\ \A q \in Procs : q # p => resp'[q] = resp[q]
          /\ resp'[p] = IF call[p].op = "report" THEN "OK" ELSE call[p].target
      BY <1>4 DEF ReturnOk, Answer, Goto, TypeOK
    <2>2. resp'[p] = "SUBMITTED" => call[p].op = "submit" /\ pc[p] = "set"
      BY <1>1, <1>4, <2>1 DEF ProperTarget, Ops
    <2>3. QED BY <2>1, <2>2, AckFrame DEF Locked
  <1>5. QED BY <1>2, <1>3, <1>4

\* Every step keeps the invariant, one case per action.
LEMMA AckStep == TypeOK /\ AckInv /\ [Next]_vars => AckInv'
  <1> SUFFICES ASSUME TypeOK, AckInv, [Next]_vars PROVE AckInv'
    OBVIOUS
  <1>1. ASSUME NEW p \in Procs, NEW id \in OrderIds, NEW quantity \in Quantities,
               SubmitBegin(p, id, quantity)
        PROVE  AckInv'
    <2>1. PICK l \in {"retry", "check"} : pc' = [pc EXCEPT ![p] = l]
      BY <1>1 DEF SubmitBegin, Goto
    <2>2. \A q \in Procs : q # p => call'[q] = call[q]
      BY <1>1 DEF SubmitBegin, TypeOK, CallsOK
    <2>3. UNCHANGED <<wal, resp>> /\ resp[p] = "none"
      BY <1>1 DEF SubmitBegin, log, AckInv
    <2>4. QED BY <2>1, <2>2, <2>3, AckFrame DEF Locked
  <1>2. ASSUME NEW p \in Procs, NEW id \in OrderIds, CancelBegin(p, id)
        PROVE  AckInv'
    <2>1. PICK l \in {"done", "cancelState"} : pc' = [pc EXCEPT ![p] = l]
      BY <1>2 DEF CancelBegin, Answer, Goto
    <2>2. \A q \in Procs : q # p => call'[q] = call[q] /\ resp'[q] = resp[q]
      BY <1>2 DEF CancelBegin, Answer, TypeOK, CallsOK
    <2>3. UNCHANGED wal /\ resp[p] = "none"
      BY <1>2 DEF CancelBegin, log, AckInv
    <2>4. resp'[p] # "SUBMITTED" /\ (l # "done" => resp'[p] = "none")
      BY <1>2, <2>1, <2>3 DEF CancelBegin, Answer, Goto, TypeOK, CallsOK
    <2>5. call'[p].op = "cancel"
      BY <1>2 DEF CancelBegin, NewCall, TypeOK, CallsOK
    <2>6. QED BY <2>1, <2>2, <2>3, <2>4, <2>5, AckFrame DEF Locked
  <1>3. ASSUME NEW p \in Procs, NEW id \in OrderIds,
               NEW target \in Fills \cup {"REJECTED"}, NEW delta \in Deltas,
               ReportBegin(p, id, target, delta)
        PROVE  AckInv'
    <2>1. pc' = [pc EXCEPT ![p] = "load"] /\ UNCHANGED <<wal, resp>> /\ resp[p] = "none"
      BY <1>3 DEF ReportBegin, Goto, log, AckInv
    <2>2. call'[p].op = "report" /\ \A q \in Procs : q # p => call'[q] = call[q]
      BY <1>3 DEF ReportBegin, NewCall, TypeOK, CallsOK
    <2>3. QED BY <2>1, <2>2, AckFrame DEF Locked
  <1>4. ASSUME NEW p \in Procs,
               SubmitRetry(p) \/ SubmitCheck(p) \/ SubmitStore(p) \/ SubmitAppendFailed(p)
        PROVE  AckInv'
    <2>1. PICK l \in {"done", "store", "append"} : pc' = [pc EXCEPT ![p] = l]
      BY <1>4 DEF SubmitRetry, SubmitCheck, SubmitStore, SubmitAppendFailed, Answer, Goto
    <2>2. UNCHANGED <<wal, call>> /\ resp[p] = "none"
      BY <1>4 DEF SubmitRetry, SubmitCheck, SubmitStore, SubmitAppendFailed, log, AckInv
    <2>3. \A q \in Procs : q # p => resp'[q] = resp[q]
      BY <1>4 DEF SubmitRetry, SubmitCheck, SubmitStore, SubmitAppendFailed, Answer, TypeOK
    <2>4. resp'[p] # "SUBMITTED" /\ (l # "done" => resp'[p] = "none")
      BY <1>4, <2>1, <2>2 DEF SubmitRetry, SubmitCheck, SubmitStore, SubmitAppendFailed,
                    Answer, Goto, TypeOK, CallsOK
    <2>5. QED BY <2>1, <2>2, <2>3, <2>4, AckFrame DEF Locked
  <1>5. ASSUME NEW p \in Procs, SubmitAppend(p) PROVE AckInv'
    <2> DEFINE line == Event(call[p].id, "PENDING", 0, call[p].total)
    <2>1. call[p] \in Call
      BY <1>5 DEF SubmitAppend, TypeOK, CallsOK
    <2>2. line \in Line /\ line.id = call[p].id /\ line.state = "PENDING"
      BY <2>1, EventType DEF Call, OrderStatus, Event
    <2>3. WalAppend(p, line, "load", "appendFailed") /\ UNCHANGED <<call, resp>> /\ pc[p] = "append"
      BY <1>5 DEF SubmitAppend
    <2> HIDE DEF line
    <2>4. QED BY <2>2, <2>3, AckAppend DEF Locked
  <1>6. ASSUME NEW p \in Procs, CancelState(p) PROVE AckInv'
    <2>1. PICK l \in {"done", "load"} : pc' = [pc EXCEPT ![p] = l]
      BY <1>6 DEF CancelState, Answer, Goto
    <2>2. UNCHANGED <<wal, call>> /\ resp[p] = "none" /\ call[p].op = "cancel"
      BY <1>6 DEF CancelState, log, AckInv
    <2>3. \A q \in Procs : q # p => resp'[q] = resp[q]
      BY <1>6 DEF CancelState, Answer, TypeOK
    <2>4. resp'[p] # "SUBMITTED" /\ (l # "done" => resp'[p] = "none")
      BY <1>6, <2>1, <2>2 DEF CancelState, Answer, Goto, TypeOK, CallsOK
    <2>5. QED BY <2>1, <2>2, <2>3, <2>4, AckFrame DEF Locked
  <1>7. ASSUME NEW p \in Procs, TransitionLoad(p) PROVE AckInv'
    <2>1. CASE orders[call[p].id] = NoRef
      BY <1>7, <2>1, AckReturn DEF TransitionLoad, log
    <2>2. CASE orders[call[p].id] # NoRef
      <3>1. call[p] \in Call
        BY <1>7 DEF TransitionLoad, TypeOK, CallsOK
      <3>2. /\ pc' = [pc EXCEPT ![p] = "lock"] /\ UNCHANGED <<wal, resp>>
            /\ resp[p] = "none" /\ pc[p] = "load"
        BY <1>7, <2>2 DEF TransitionLoad, Goto, log, AckInv
      <3>3. /\ call'[p].op = call[p].op /\ call'[p].id = call[p].id
            /\ \A q \in Procs : q # p => call'[q] = call[q]
        BY <1>7, <2>2, <3>1 DEF TransitionLoad, TypeOK, CallsOK, Call
      <3>4. QED BY <3>2, <3>3, AckFrame DEF Locked
    <2>3. QED BY <2>1, <2>2
  <1>8. ASSUME NEW p \in Procs, TransitionBlocked(p) PROVE AckInv'
    BY <1>8, AckReturn DEF TransitionBlocked, log
  <1>9. ASSUME NEW p \in Procs, TransitionLock(p) PROVE AckInv'
    <2>1. call[p] \in Call /\ ProperTarget(call[p]) /\ pc[p] = "lock" /\ resp[p] = "none"
      BY <1>9 DEF TransitionLock, TypeOK, CallsOK, AckInv
    <2>2. call[p].op = "submit" => NextState(p) = "SUBMITTED"
      BY <2>1 DEF ProperTarget, NextState, Fills
    <2>3. /\ call'[p].op = call[p].op /\ call'[p].id = call[p].id
          /\ call'[p].next = NextState(p)
          /\ \A q \in Procs : q # p => call'[q] = call[q]
      BY <1>9, <2>1 DEF TransitionLock, TypeOK, CallsOK, Call
    <2>4. pc' = [pc EXCEPT ![p] = "wal"] /\ UNCHANGED <<wal, resp>>
      BY <1>9 DEF TransitionLock, Goto, log
    <2>5. QED BY <2>1, <2>2, <2>3, <2>4, AckFrame DEF Locked
  <1>10. ASSUME NEW p \in Procs, TransitionAppend(p) PROVE AckInv'
    <2> DEFINE line == Event(call[p].id, call[p].next, call[p].delta, 0)
    <2>1. call[p] \in Call
      BY <1>10 DEF TransitionAppend, TypeOK, CallsOK
    <2>2. line \in Line /\ line.id = call[p].id /\ line.state = call[p].next
      BY <2>1, EventType DEF Call, Event
    <2>3. /\ WalAppend(p, line, "set", "walFailed")
          /\ UNCHANGED <<call, resp>> /\ pc[p] = "wal"
          /\ call[p].op = "submit" => call[p].next = "SUBMITTED"
      BY <1>10 DEF TransitionAppend, AckInv, Locked
    <2> HIDE DEF line
    <2>4. QED BY <2>2, <2>3, AckAppend DEF Locked
  <1>11. ASSUME NEW p \in Procs, TransitionSet(p) PROVE AckInv'
    BY <1>11, AckReturn DEF TransitionSet, log
  <1>12. ASSUME NEW p \in Procs, TransitionWalFailed(p) PROVE AckInv'
    <2>1. call[p].op = "submit" => Opens(call[p].next)
      BY <1>12 DEF TransitionWalFailed, AckInv, Locked, Opens
    <2>2. QED BY <1>12, <2>1, AckReturn DEF TransitionWalFailed, log
  <1>13. CASE Die
    <2>1. \A p \in Procs : /\ pc'[p] \in {"idle", "done"}
                           /\ pc'[p] = "idle" => resp'[p] = "none"
                           /\ resp'[p] = "SUBMITTED" => resp[p] = "SUBMITTED"
      BY <1>13 DEF Die, AckInv
    <2>2. UNCHANGED <<wal, call>>
      BY <1>13 DEF Die
    <2>3. QED BY <2>1, <2>2 DEF AckInv, Locked, Readable, Logged, LoggedBoth
  <1>14. CASE ForcePause \/ Startup \/ UNCHANGED vars
    <2>1. UNCHANGED <<wal, call, resp, pc>>
      BY <1>14 DEF ForcePause, Startup, Restart, Replay, Serve, vars, log
    <2>2. QED BY <2>1 DEF AckInv, Readable, Logged, LoggedBoth
  <1>15. QED BY <1>1, <1>2, <1>3, <1>4, <1>5, <1>6, <1>7, <1>8, <1>9, <1>10, <1>11, <1>12,
                <1>13, <1>14
             DEF Next, Begin, Step, Submit, TransitionState, TransitionPanic, Crash

\* For any number of goroutines, orders, crashes and WAL failures: a submission
\* that was answered SUBMITTED has its PENDING and its SUBMITTED event in the
\* log, unless the log cannot be read at all.
THEOREM AckedAreLogged == Spec => []AckedLogged
  <1>1. Init => AckInv
    BY DEF Init, AckInv, Locked
  <1>2. AckInv => AckedLogged
    BY DEF AckInv, AckedLogged
  <1>3. QED BY <1>1, <1>2, AckStep, TypeCorrect, PTL DEF Spec

-----------------------------------------------------------------------------
(***************************************************************************)
(* Clients that retry one after the other                                  *)
(***************************************************************************)
\* What keeps AnswersKept and RecoveryExact when clients retry one after the
\* other.  First the handlers: whose object each one holds, that a submission
\* between its check and its log entry is alone with its order, and that a
\* transition under way changes the registered object.
Owner(r) == IF r \in OrderIds THEN r ELSE call[r].id
Belongs(r, id) == Owner(r) = id /\ heap[r].state # "NONE"

SoleSubmission ==
    \A p, q \in Procs :
        InFlight(p) /\ InFlight(q) /\ call[p].op = "submit" /\ call[q].op = "submit"
            /\ call[p].id = call[q].id => p = q

HandlerOK(p) ==
    LET id == call[p].id
        r == call[p].ref
    IN  /\ pc[p] \in Dereferences => Belongs(r, id)
        /\ pc[p] \in {"check", "store", "append", "appendFailed"} => call[p].op = "submit"
        /\ pc[p] \in {"check", "store"} => orders[id] = NoRef
        /\ pc[p] \in {"append", "appendFailed"} =>
              /\ orders[id] = p /\ lock[p] = NoProc
              /\ heap[p] = [state |-> "PENDING", total |-> call[p].total, cum |-> 0]
        /\ pc[p] \in {"store", "append"} => \A i \in DOMAIN wal : wal[i].id # id
        /\ pc[p] = "appendFailed" =>
              \A i \in DOMAIN wal : wal[i].id = id => wal[i].state = "PENDING"
        /\ InFlight(p) /\ call[p].op = "report" => Routed(id)
        /\ pc[p] \in Locked => /\ orders[id] = r
                               /\ call[p].target \in Fills => call[p].next \in Fills
                               /\ call[p].target \notin Fills => call[p].next = call[p].target
        /\ pc[p] = "lock" /\ orders[id] # r =>
              call[p].op = "cancel" /\ heap[r].state = "PENDING"

HandlersInv ==
    /\ ~ConcurrentRetries
    /\ SoleSubmission
    /\ \A p \in Procs : HandlerOK(p)
    /\ \A id \in OrderIds : orders[id] # NoRef => Belongs(orders[id], id)
    /\ \A r \in Refs : lock[r] # NoProc => pc[lock[r]] \in Locked /\ call[lock[r]].ref = r
    /\ \A i \in DOMAIN wal :
          phase = "serving" => orders[wal[i].id] # NoRef \/ degraded
    /\ phase = "down" => replayed = 0
    /\ phase = "replaying" =>
          replayed <= Len(wal) /\ \A i \in 1..replayed : orders[wal[i].id] # NoRef


\* Lines keep their order and state, and a new line is the one appended.
Extends(line) ==
    /\ \A i \in DOMAIN wal : /\ i \in DOMAIN wal'
                             /\ wal'[i].id = wal[i].id /\ wal'[i].state = wal[i].state
    /\ \A i \in DOMAIN wal' : i \notin DOMAIN wal =>
          wal'[i].id = line.id /\ wal'[i].state = line.state

\* A write, torn or not, only adds its line.
LEMMA WriteExtends ==
    ASSUME LogOK, NEW line \in Line, NEW l, l.id = line.id, l.state = line.state,
           l \in Line, wal' = Write(l)
    PROVE  Extends(line)
  <1>1. CASE walOpen
    <2>1. Len(wal) \in 1..Len(wal) /\ wal[Len(wal)] \in Line
      BY <1>1 DEF LogOK
    <2> DEFINE bad == [wal[Len(wal)] EXCEPT !.ok = FALSE]
    <2>2. wal' = [wal EXCEPT ![Len(wal)] = bad]
      BY <1>1 DEF Write
    <2>3. bad.id = wal[Len(wal)].id /\ bad.state = wal[Len(wal)].state
      BY <2>1 DEF Line
    <2> HIDE DEF bad
    <2>4. DOMAIN wal' = DOMAIN wal /\ \A i \in DOMAIN wal : wal'[i] = wal[i] \/ i = Len(wal)
      BY <2>2
    <2>5. wal'[Len(wal)] = bad
      BY <2>1, <2>2 DEF LogOK
    <2>6. QED BY <2>3, <2>4, <2>5 DEF Extends
  <1>2. CASE ~walOpen
    <2>1. wal' = Append(wal, l)
      BY <1>2 DEF Write
    <2>2. \A i \in DOMAIN wal : i \in DOMAIN wal' /\ wal'[i] = wal[i]
      BY <2>1 DEF LogOK
    <2>3. \A i \in DOMAIN wal' : i \notin DOMAIN wal => wal'[i] = l
      BY <2>1 DEF LogOK
    <2>4. QED BY <2>2, <2>3 DEF Extends
  <1>3. QED BY <1>1, <1>2

\* An append, failed or not, only adds its line.
LEMMA AppendExtends ==
    ASSUME LogOK, NEW p \in Procs, NEW line \in Line, NEW ok, NEW failed,
           WalAppend(p, line, ok, failed)
    PROVE  Extends(line)
  <1> DEFINE torn == [line EXCEPT !.ok = FALSE]
  <1>1. torn \in Line /\ torn.id = line.id /\ torn.state = line.state
    BY DEF Line
  <1> HIDE DEF torn
  <1>2. CASE UNCHANGED wal
    BY <1>2 DEF Extends
  <1>3. CASE wal' = Write(line)
    BY <1>3, WriteExtends
  <1>4. CASE wal' = Write(torn)
    BY <1>1, <1>4, WriteExtends
  <1>5. QED BY <1>2, <1>3, <1>4 DEF WalAppend, AppendOk, AppendFails, torn

\* An object in use keeps its owner.
Persist ==
    \A r \in Refs : heap[r].state # "NONE" =>
        heap'[r].state # "NONE" /\ (r \in Procs => call'[r].id = call[r].id)

\* An object stays with its order.
LEMMA BelongsKept ==
    ASSUME Persist, NEW r \in Refs, NEW id, Belongs(r, id)
    PROVE  Belongs(r, id)'
  BY DEF Persist, Belongs, Owner

\* A goroutine that takes no step keeps its part of the invariant if the order
\* it works on stays registered as it is.
LEMMA HandlerKept ==
    ASSUME TypeOK, Persist, NEW q \in Procs, HandlerOK(q),
           pc'[q] = pc[q], call'[q] = call[q],
           pc[q] \in Locked \cup {"check", "store", "append", "appendFailed"} =>
               orders'[call[q].id] = orders[call[q].id],
           pc[q] \in {"append", "appendFailed"} => heap'[q] = heap[q] /\ lock'[q] = lock[q],
           pc[q] = "lock" /\ orders'[call[q].id] # call[q].ref =>
               call[q].op = "cancel" /\ heap'[call[q].ref].state = "PENDING",
           \A i \in DOMAIN wal : /\ i \in DOMAIN wal'
                                 /\ wal'[i].id = wal[i].id /\ wal'[i].state = wal[i].state,
           pc[q] \in {"store", "append", "appendFailed"} =>
               \A i \in DOMAIN wal' : wal'[i].id = call[q].id => i \in DOMAIN wal
    PROVE  HandlerOK(q)'
  <1> DEFINE id == call[q].id
             r == call[q].ref
  <1>1. pc[q] \in Dereferences => Belongs(r, id)'
    <2>1. pc[q] \in Dereferences => r \in Refs
      BY DEF TypeOK, CallsOK
    <2>2. pc[q] \in Dereferences => Belongs(r, id)
      BY DEF HandlerOK
    <2>3. QED BY <2>1, <2>2, BelongsKept
  <1>2. Routed(id) => Routed(id)'
    BY DEF Routed
  <1>3. QED
    BY <1>1, <1>2 DEF HandlerOK, InFlight, Belongs, Owner, Routed

\* A step of p that changes neither the orders nor the log.
LEMMA HandlersQuiet ==
    ASSUME TypeOK, LifecycleInv, HandlersInv, NEW p \in Procs,
           phase = "serving", UNCHANGED <<phase, degraded, orders, heap, lock, wal>>,
           \A q \in Procs : q # p => pc'[q] = pc[q] /\ call'[q] = call[q],
           pc[p] = "idle" \/ call'[p].id = call[p].id,
           pc[p] \notin Locked,
           HandlerOK(p)',
           InFlight(p)' /\ call'[p].op = "submit" =>
               \/ InFlight(p) /\ call[p].op = "submit" /\ call'[p].id = call[p].id
               \/ \A q \in Procs : ~(InFlight(q) /\ call[q].op = "submit" /\ call[q].id = call'[p].id)
    PROVE  HandlersInv'
  <1>1. Persist
    BY DEF Persist, LifecycleInv
  <1>2. ASSUME NEW q \in Procs PROVE HandlerOK(q)'
    <2>1. CASE q = p
      BY <2>1
    <2>2. CASE q # p
      <3>1. HandlerOK(q) /\ pc'[q] = pc[q] /\ call'[q] = call[q]
        BY <2>2 DEF HandlersInv
      <3>2. pc[q] = "lock" /\ orders'[call[q].id] # call[q].ref =>
               call[q].op = "cancel" /\ heap'[call[q].ref].state = "PENDING"
        BY <3>1 DEF HandlerOK
      <3>3. QED BY <1>1, <3>1, <3>2, HandlerKept
    <2>3. QED BY <2>1, <2>2
  <1>3. SoleSubmission'
    <2> SUFFICES ASSUME NEW q \in Procs, NEW r \in Procs, InFlight(q)', InFlight(r)',
                        call'[q].op = "submit", call'[r].op = "submit",
                        call'[q].id = call'[r].id
                 PROVE  q = r
      BY DEF SoleSubmission
    <2>1. CASE q # p /\ r # p
      BY <2>1 DEF HandlersInv, SoleSubmission, InFlight
    <2>2. CASE q = p /\ r # p
      BY <2>2 DEF HandlersInv, SoleSubmission, InFlight
    <2>3. CASE q # p /\ r = p
      BY <2>3 DEF HandlersInv, SoleSubmission, InFlight
    <2>4. QED BY <2>1, <2>2, <2>3
  <1>4. ASSUME NEW id \in OrderIds, orders'[id] # NoRef PROVE Belongs(orders[id], id)'
    <2>1. PICK r \in Refs : r = orders[id] /\ r = orders'[id] /\ Belongs(r, id)
      BY <1>4 DEF HandlersInv, TypeOK, MemoryOK
    <2>2. Belongs(r, id)'
      BY <1>1, <2>1, BelongsKept
    <2>3. QED BY <2>1, <2>2
  <1>5. ASSUME NEW r \in Refs, lock'[r] # NoProc
        PROVE  pc'[lock'[r]] \in Locked /\ call'[lock'[r]].ref = r
    <2>1. lock[r] \in Procs /\ pc[lock[r]] \in Locked /\ call[lock[r]].ref = r
      BY <1>5 DEF HandlersInv, TypeOK, MemoryOK
    <2>2. lock[r] # p
      BY <2>1
    <2>3. QED BY <2>1, <2>2
  <1>6. \A i \in DOMAIN wal' : phase' = "serving" => orders'[wal'[i].id] # NoRef \/ degraded'
    BY DEF HandlersInv
  <1>7. QED BY <1>2, <1>3, <1>4, <1>5, <1>6 DEF HandlersInv

\* A new call: SubmitOrder, CancelOrder or a report.
LEMMA HandlersBegin ==
    ASSUME TypeOK, LifecycleInv, HandlersInv, NEW p \in Procs, Begin(p)
    PROVE  HandlersInv'
  <1>1. phase = "serving" /\ pc[p] = "idle" /\ pc[p] \notin Locked
        /\ UNCHANGED <<phase, degraded, orders, heap, lock, wal>>
    BY DEF Begin, SubmitBegin, CancelBegin, ReportBegin, memory, log, Locked
  <1>2. \A q \in Procs : q # p => pc'[q] = pc[q] /\ call'[q] = call[q]
    BY DEF Begin, SubmitBegin, CancelBegin, ReportBegin, Answer, Goto, TypeOK, CallsOK
  <1>3. ASSUME NEW id \in OrderIds, NEW quantity \in Quantities, SubmitBegin(p, id, quantity)
        PROVE  HandlersInv'
    <2>1. /\ call'[p].op = "submit" /\ call'[p].id = id /\ call'[p].ref = orders[id]
          /\ pc'[p] = IF orders[id] # NoRef THEN "retry" ELSE "check"
      BY <1>3 DEF SubmitBegin, NewCall, Goto, TypeOK, CallsOK
    <2>2. \A q \in Procs : ~(InFlight(q) /\ call[q].op = "submit" /\ call[q].id = id)
      BY <1>3 DEF SubmitBegin, HandlersInv
    <2>3. HandlerOK(p)'
      <3>1. orders[id] # NoRef => Belongs(orders[id], id)'
        <4>1. orders[id] # NoRef => orders[id] \in Refs /\ Belongs(orders[id], id) /\ orders[id] # p
          BY <1>1 DEF HandlersInv, TypeOK, MemoryOK, Belongs, LifecycleInv
        <4>2. QED BY <1>1, <1>2, <4>1 DEF Belongs, Owner
      <3>2. QED BY <1>1, <2>1, <3>1 DEF HandlerOK, Locked, Dereferences, Belongs, Owner
    <2>4. QED BY <1>1, <1>2, <2>1, <2>2, <2>3, HandlersQuiet
  <1>4. ASSUME NEW id \in OrderIds, CancelBegin(p, id) PROVE HandlersInv'
    <2>1. /\ call'[p].op = "cancel" /\ call'[p].id = id /\ call'[p].ref = orders[id]
          /\ \/ orders[id] = NoRef /\ pc'[p] = "done"
             \/ orders[id] # NoRef /\ pc'[p] = "cancelState"
      BY <1>4 DEF CancelBegin, NewCall, Answer, Goto, TypeOK, CallsOK
    <2>2. HandlerOK(p)'
      <3>1. orders[id] # NoRef => Belongs(orders[id], id)'
        <4>1. orders[id] # NoRef => orders[id] \in Refs /\ Belongs(orders[id], id) /\ orders[id] # p
          BY <1>1 DEF HandlersInv, TypeOK, MemoryOK, Belongs, LifecycleInv
        <4>2. QED BY <1>1, <1>2, <4>1 DEF Belongs, Owner
      <3>2. QED BY <1>1, <2>1, <3>1 DEF HandlerOK, Locked, Dereferences, Belongs, Owner
    <2>3. QED BY <1>1, <1>2, <2>1, <2>2, HandlersQuiet
  <1>5. ASSUME NEW id \in OrderIds, NEW target, NEW delta, ReportBegin(p, id, target, delta)
        PROVE  HandlersInv'
    <2>1. call'[p].op = "report" /\ call'[p].id = id /\ pc'[p] = "load" /\ Routed(id)
      BY <1>5 DEF ReportBegin, NewCall, Goto, TypeOK, CallsOK
    <2>2. HandlerOK(p)'
      BY <1>1, <2>1 DEF HandlerOK, Locked, Dereferences, Routed, InFlight
    <2>3. QED BY <1>1, <1>2, <2>1, <2>2, HandlersQuiet
  <1>6. QED BY <1>3, <1>4, <1>5 DEF Begin

\* The steps that read the order and decide.
LEMMA HandlersReads ==
    ASSUME TypeOK, LifecycleInv, HandlersInv, NEW p \in Procs,
           \/ SubmitRetry(p) \/ SubmitCheck(p) \/ CancelState(p)
           \/ TransitionLoad(p) \/ TransitionBlocked(p)
    PROVE  HandlersInv'
  <1>1. pc[p] \in {"retry", "check", "cancelState", "load", "lock"}
        /\ UNCHANGED <<phase, degraded, orders, heap, lock, wal>>
    BY DEF SubmitRetry, SubmitCheck, CancelState, TransitionLoad, TransitionBlocked, memory, log
  <1>2. phase = "serving" /\ pc[p] \notin Locked /\ InFlight(p)
    BY <1>1, StepServing DEF Locked, InFlight
  <1>3. /\ \A q \in Procs : q # p => pc'[q] = pc[q] /\ call'[q] = call[q]
        /\ call'[p].id = call[p].id /\ call'[p].op = call[p].op
        /\ pc'[p] \in {"done", "store", "load", "lock"}
        /\ pc'[p] = "store" => pc[p] = "check" /\ ~degraded
        /\ pc'[p] = "lock" => call'[p].ref = orders[call[p].id] /\ orders[call[p].id] # NoRef
    <2>0. pc \in [Procs -> ControlState] /\ call \in [Procs -> Call \cup {NoCall}]
          /\ call[p] \in Call
      BY <1>1 DEF TypeOK, CallsOK
    <2>1. CASE SubmitRetry(p) \/ SubmitCheck(p) \/ CancelState(p) \/ TransitionBlocked(p)
      BY <2>0, <2>1 DEF SubmitRetry, SubmitCheck, CancelState, TransitionBlocked, ReturnError,
                        Answer, Goto
    <2>2. CASE TransitionLoad(p)
      <3>1. CASE orders[call[p].id] = NoRef
        BY <2>0, <2>2, <3>1 DEF TransitionLoad, ReturnError, Answer, Goto
      <3>2. CASE orders[call[p].id] # NoRef
        <4>1. call' = [call EXCEPT ![p] = [call[p] EXCEPT !.ref = orders[call[p].id]]]
              /\ pc' = [pc EXCEPT ![p] = "lock"]
          BY <2>2, <3>2 DEF TransitionLoad, Goto
        <4>2. QED BY <2>0, <3>2, <4>1 DEF Call
      <3>3. QED BY <3>1, <3>2
    <2>3. QED BY <2>1, <2>2
  <1>4. HandlerOK(p)'
    <2> DEFINE id == call[p].id
    <2>0. id \in OrderIds
      BY <1>1 DEF TypeOK, CallsOK, Call
    <2>1. pc'[p] = "lock" => Belongs(orders[id], id)'
      <3>1. ASSUME orders[id] # NoRef PROVE Belongs(orders[id], id)'
        <4>1. orders[id] \in Refs /\ Belongs(orders[id], id)
          BY <2>0, <3>1 DEF HandlersInv, TypeOK, MemoryOK
        <4>2. QED BY <1>1, <1>3, <4>1 DEF Belongs, Owner
      <3>2. QED BY <1>3, <3>1
    <2>2. pc'[p] = "store" => /\ call[p].op = "submit" /\ orders[id] = NoRef
                              /\ \A i \in DOMAIN wal : wal[i].id # id
      <3>1. HandlerOK(p) /\ \A i \in DOMAIN wal : orders[wal[i].id] # NoRef \/ degraded
        BY <1>2 DEF HandlersInv
      <3>2. QED BY <1>3, <3>1 DEF HandlerOK
    <2>3. call[p].op = "report" => Routed(id)
      BY <1>2 DEF HandlersInv, HandlerOK
    <2>4. pc'[p] \notin Locked /\ (pc'[p] \in Dereferences => pc'[p] = "lock")
          /\ pc'[p] \notin {"append", "appendFailed", "check"}
      BY <1>3 DEF Locked, Dereferences
    <2> HIDE DEF id
    <2>5. call'[p].id = id
      BY <1>3 DEF id
    <2>6. QED BY <1>1, <1>3, <2>1, <2>2, <2>3, <2>4, <2>5 DEF HandlerOK, Belongs, Owner, Routed, id
  <1>5. QED BY <1>1, <1>2, <1>3, <1>4, HandlersQuiet

\* Submissions in flight stay alone when no call begins.
LEMMA SoleKept ==
    ASSUME SoleSubmission,
           \A q \in Procs : InFlight(q)' => /\ InFlight(q)
                                            /\ call'[q].op = call[q].op /\ call'[q].id = call[q].id
    PROVE  SoleSubmission'
  BY DEF SoleSubmission

\* SubmitOrder registers its object.
LEMMA HandlersStore ==
    ASSUME TypeOK, LifecycleInv, HandlersInv, NEW p \in Procs, SubmitStore(p)
    PROVE  HandlersInv'
  <1> DEFINE id == call[p].id
             new == [state |-> "PENDING", total |-> call[p].total, cum |-> 0]
  <1>1. /\ pc[p] = "store" /\ InFlight(p) /\ phase = "serving" /\ heap[p].state = "NONE"
        /\ id \in OrderIds
    BY StepServing DEF SubmitStore, InFlight, LifecycleInv, TypeOK, CallsOK, Call
  <1>2. /\ heap'[p] = new /\ \A r \in Refs : r # p => heap'[r] = heap[r]
        /\ orders'[id] = p /\ \A i \in OrderIds : i # id => orders'[i] = orders[i]
        /\ pc'[p] = "append" /\ \A q \in Procs : q # p => pc'[q] = pc[q]
        /\ UNCHANGED <<phase, degraded, lock, wal, call, replayed>>
    BY <1>1 DEF SubmitStore, Goto, TypeOK, CallsOK, MemoryOK, log, recovery
  <1>3. /\ call[p].op = "submit" /\ orders[id] = NoRef
        /\ \A i \in DOMAIN wal : wal[i].id # id
    BY <1>1 DEF HandlersInv, HandlerOK
  <1>4. Persist
    BY <1>1, <1>2 DEF Persist
  <1>5. lock[p] = NoProc
    <2> SUFFICES ASSUME lock[p] # NoProc PROVE FALSE
      OBVIOUS
    <2>1. PICK q \in Procs : pc[q] \in Locked /\ call[q].ref = p
      BY DEF HandlersInv, TypeOK, MemoryOK
    <2>2. Belongs(p, call[q].id)
      BY <2>1 DEF HandlersInv, HandlerOK, Locked, Dereferences
    <2>3. QED BY <1>1, <2>2 DEF Belongs
  <1>6. HandlerOK(p)'
    BY <1>2, <1>3, <1>5 DEF HandlerOK, Dereferences, Locked
  <1>7. ASSUME NEW q \in Procs, q # p PROVE HandlerOK(q)'
    <2>0. HandlerOK(q) /\ (pc[q] # "idle" => call[q].id \in OrderIds)
      BY DEF HandlersInv, TypeOK, CallsOK, Call
    <2>1. ASSUME pc[q] \in Locked \cup {"check", "store", "append", "appendFailed"}
          PROVE  orders'[call[q].id] = orders[call[q].id]
      <3>1. CASE pc[q] \in {"check", "store", "append", "appendFailed"}
        <4>1. call[q].op = "submit" /\ InFlight(q)
          BY <2>0, <3>1 DEF HandlerOK, InFlight
        <4>2. call[q].id # id
          BY <1>1, <1>3, <1>7, <4>1 DEF HandlersInv, SoleSubmission
        <4>3. QED BY <1>2, <2>0, <3>1, <4>2
      <3>2. CASE pc[q] \in Locked
        <4>1. orders[call[q].id] = call[q].ref /\ call[q].ref \in Refs
          BY <2>0, <3>2 DEF HandlerOK, TypeOK, CallsOK, Locked, Dereferences
        <4>2. QED BY <1>2, <1>3, <2>0, <3>2, <4>1 DEF Locked
      <3>3. QED BY <2>1, <3>1, <3>2
    <2>2. ASSUME pc[q] = "lock", orders'[call[q].id] # call[q].ref
          PROVE  call[q].op = "cancel" /\ heap'[call[q].ref].state = "PENDING"
      <3>1. call[q].ref \in Refs /\ heap[call[q].ref].state # "NONE"
        BY <2>0, <2>2 DEF HandlerOK, Belongs, TypeOK, CallsOK, Dereferences
      <3>2. orders[call[q].id] # call[q].ref
        BY <1>2, <1>3, <2>0, <2>2, <3>1
      <3>3. QED BY <1>1, <1>2, <2>0, <2>2, <3>1, <3>2 DEF HandlerOK
    <2>3. QED BY <1>2, <1>4, <1>7, <2>0, <2>1, <2>2, HandlerKept
  <1>8. SoleSubmission'
    BY <1>1, <1>2, SoleKept DEF HandlersInv, InFlight
  <1>9. ASSUME NEW i \in OrderIds, orders'[i] # NoRef PROVE Belongs(orders[i], i)'
    <2>1. CASE i = id
      BY <1>2, <2>1 DEF Belongs, Owner
    <2>2. CASE i # id
      <3>1. PICK r \in Refs : r = orders[i] /\ r = orders'[i] /\ Belongs(r, i)
        BY <1>2, <1>9, <2>2 DEF HandlersInv, TypeOK, MemoryOK
      <3>2. Belongs(r, i)'
        BY <1>4, <3>1, BelongsKept
      <3>3. QED BY <3>1, <3>2
    <2>3. QED BY <2>1, <2>2
  <1>10. ASSUME NEW r \in Refs, lock'[r] # NoProc
         PROVE  pc'[lock'[r]] \in Locked /\ call'[lock'[r]].ref = r
    <2>1. lock[r] \in Procs /\ pc[lock[r]] \in Locked /\ call[lock[r]].ref = r
      BY <1>2, <1>10 DEF HandlersInv, TypeOK, MemoryOK
    <2>2. QED BY <1>1, <1>2, <2>1 DEF Locked
  <1>11. ASSUME NEW i \in DOMAIN wal' PROVE orders'[wal'[i].id] # NoRef \/ degraded'
    <2>1. orders[wal[i].id] # NoRef \/ degraded
      BY <1>1, <1>2 DEF HandlersInv
    <2>2. wal[i].id \in OrderIds
      <3>1. i \in DOMAIN wal /\ wal \in Seq(Line)
        BY <1>2 DEF TypeOK, LogOK
      <3>2. wal[i] \in Line
        BY <3>1
      <3>3. QED BY <3>2 DEF Line
    <2>3. QED BY <1>2, <2>1, <2>2
  <1>12. QED BY <1>1, <1>2, <1>6, <1>7, <1>8, <1>9, <1>10, <1>11 DEF HandlersInv

\* An append of p's line, when p is the only one to work on the order.
LEMMA HandlersAppend ==
    ASSUME TypeOK, LifecycleInv, HandlersInv, NEW p \in Procs, NEW line \in Line,
           NEW ok, NEW failed, WalAppend(p, line, ok, failed),
           UNCHANGED <<memory, call, replayed>>,
           phase = "serving", InFlight(p),
           orders[line.id] # NoRef,
           \A q \in Procs : q # p /\ pc[q] \in {"store", "append", "appendFailed"} =>
               call[q].id # line.id,
           pc[p] \in Locked => ok \in Locked /\ failed \in Locked,
           HandlerOK(p)'
    PROVE  HandlersInv'
  <1>1. UNCHANGED <<phase, degraded, orders, heap, lock>>
    BY DEF memory
  <1>2. Extends(line)
    BY AppendExtends DEF TypeOK
  <1>3. pc'[p] \in {ok, failed} /\ \A q \in Procs : q # p => pc'[q] = pc[q]
    BY DEF WalAppend, Goto, TypeOK, CallsOK
  <1>4. Persist
    BY <1>1 DEF Persist
  <1>5. ASSUME NEW q \in Procs, q # p PROVE HandlerOK(q)'
    <2>1. HandlerOK(q)
      BY DEF HandlersInv
    <2>2. pc[q] = "lock" /\ orders'[call[q].id] # call[q].ref =>
             call[q].op = "cancel" /\ heap'[call[q].ref].state = "PENDING"
      BY <1>1, <2>1 DEF HandlerOK
    <2>3. pc[q] \in {"store", "append", "appendFailed"} =>
             \A i \in DOMAIN wal' : wal'[i].id = call[q].id => i \in DOMAIN wal
      BY <1>2, <1>5 DEF Extends
    <2>4. QED BY <1>1, <1>2, <1>3, <1>4, <1>5, <2>1, <2>2, <2>3, HandlerKept DEF Extends
  <1>6. SoleSubmission'
    BY <1>3, SoleKept DEF HandlersInv, InFlight
  <1>7. ASSUME NEW i \in OrderIds, orders'[i] # NoRef PROVE Belongs(orders[i], i)'
    <2>1. PICK r \in Refs : r = orders[i] /\ r = orders'[i] /\ Belongs(r, i)
      BY <1>1, <1>7 DEF HandlersInv, TypeOK, MemoryOK
    <2>2. Belongs(r, i)'
      BY <1>4, <2>1, BelongsKept
    <2>3. QED BY <2>1, <2>2
  <1>8. ASSUME NEW r \in Refs, lock'[r] # NoProc
        PROVE  pc'[lock'[r]] \in Locked /\ call'[lock'[r]].ref = r
    <2>1. lock[r] \in Procs /\ pc[lock[r]] \in Locked /\ call[lock[r]].ref = r
      BY <1>1, <1>8 DEF HandlersInv, TypeOK, MemoryOK
    <2>2. QED BY <1>1, <1>3, <2>1
  <1>9. ASSUME NEW i \in DOMAIN wal' PROVE orders'[wal'[i].id] # NoRef \/ degraded'
    <2>1. CASE i \in DOMAIN wal
      <3>1. orders[wal[i].id] # NoRef \/ degraded
        BY <2>1 DEF HandlersInv
      <3>2. QED BY <1>1, <1>2, <2>1, <3>1 DEF Extends
    <2>2. CASE i \notin DOMAIN wal
      BY <1>1, <1>2, <2>2 DEF Extends
    <2>3. QED BY <2>1, <2>2
  <1>10. QED BY <1>1, <1>5, <1>6, <1>7, <1>8, <1>9 DEF HandlersInv

\* SubmitOrder logs PENDING.
LEMMA HandlersSubmitAppend ==
    ASSUME TypeOK, LifecycleInv, HandlersInv, NEW p \in Procs, SubmitAppend(p)
    PROVE  HandlersInv'
  <1> DEFINE id == call[p].id
             line == Event(id, "PENDING", 0, call[p].total)
  <1>1. pc[p] = "append" /\ InFlight(p) /\ phase = "serving" /\ call[p] \in Call
    BY StepServing DEF SubmitAppend, InFlight, TypeOK, CallsOK
  <1>2. id \in OrderIds /\ line \in Line /\ line.id = id /\ line.state = "PENDING"
    BY <1>1 DEF Call, Event, Line, OrderStatus
  <1> HIDE DEF line
  <1>3. /\ WalAppend(p, line, "load", "appendFailed")
        /\ UNCHANGED <<memory, call, replayed>>
    BY DEF SubmitAppend, recovery, line
  <1>4. /\ call[p].op = "submit" /\ orders[id] = p /\ lock[p] = NoProc
        /\ heap[p] = [state |-> "PENDING", total |-> call[p].total, cum |-> 0]
        /\ \A i \in DOMAIN wal : wal[i].id # id
    BY <1>1 DEF HandlersInv, HandlerOK
  <1>5. \A q \in Procs : q # p /\ pc[q] \in {"store", "append", "appendFailed"} =>
               call[q].id # id
    <2> SUFFICES ASSUME NEW q \in Procs, q # p, pc[q] \in {"store", "append", "appendFailed"}
                 PROVE  call[q].id # id
      OBVIOUS
    <2>1. call[q].op = "submit" /\ InFlight(q)
      BY DEF HandlersInv, HandlerOK, InFlight
    <2>2. QED BY <1>1, <1>4, <2>1 DEF HandlersInv, SoleSubmission
  <1>6. HandlerOK(p)'
    <2>1. Extends(line)
      BY <1>2, <1>3, AppendExtends DEF TypeOK
    <2>2. pc'[p] \in {"load", "appendFailed"}
      BY <1>3 DEF WalAppend, Goto, TypeOK, CallsOK
    <2>3. \A i \in DOMAIN wal' : wal'[i].id = id => wal'[i].state = "PENDING"
      BY <1>2, <1>4, <2>1 DEF Extends
    <2>4. UNCHANGED <<orders, heap, lock, call>>
      BY <1>3 DEF memory
    <2>5. QED BY <1>4, <2>2, <2>3, <2>4 DEF HandlerOK, Dereferences, Locked
  <1>7. orders[line.id] # NoRef
    BY <1>2, <1>4
  <1>8. QED BY <1>1, <1>2, <1>3, <1>5, <1>6, <1>7, HandlersAppend DEF Locked

\* SubmitOrder takes its object out again.
LEMMA HandlersAppendFailed ==
    ASSUME TypeOK, LifecycleInv, HandlersInv, NEW p \in Procs, SubmitAppendFailed(p)
    PROVE  HandlersInv'
  <1> DEFINE id == call[p].id
  <1>1. pc[p] = "appendFailed" /\ InFlight(p) /\ phase = "serving" /\ id \in OrderIds
    BY StepServing DEF SubmitAppendFailed, InFlight, TypeOK, CallsOK, Call
  <1>2. /\ orders'[id] = NoRef /\ \A i \in OrderIds : i # id => orders'[i] = orders[i]
        /\ pc'[p] = "done" /\ \A q \in Procs : q # p => pc'[q] = pc[q]
        /\ degraded' = TRUE
        /\ UNCHANGED <<phase, heap, lock, wal, call, replayed>>
    BY <1>1 DEF SubmitAppendFailed, Answer, Goto, TypeOK, CallsOK, MemoryOK, log, recovery
  <1>3. /\ call[p].op = "submit" /\ orders[id] = p /\ lock[p] = NoProc
        /\ heap[p].state = "PENDING"
        /\ \A i \in DOMAIN wal : wal[i].id = id => wal[i].state = "PENDING"
    <2>1. HandlerOK(p)
      BY DEF HandlersInv
    <2>2. /\ call[p].op = "submit" /\ orders[id] = p /\ lock[p] = NoProc
          /\ heap[p] = [state |-> "PENDING", total |-> call[p].total, cum |-> 0]
          /\ \A i \in DOMAIN wal : wal[i].id = id => wal[i].state = "PENDING"
      BY <1>1, <2>1 DEF HandlerOK
    <2>3. QED BY <2>2
  <1>4. Persist
    BY <1>2 DEF Persist
  <1>5. HandlerOK(p)'
    BY <1>2 DEF HandlerOK, Dereferences, Locked, InFlight
  <1>6. ASSUME NEW q \in Procs, q # p PROVE HandlerOK(q)'
    <2>0. HandlerOK(q) /\ (pc[q] # "idle" => call[q].id \in OrderIds)
      BY DEF HandlersInv, TypeOK, CallsOK, Call
    <2>1. InFlight(q) /\ call[q].op = "submit" => call[q].id # id
      BY <1>1, <1>3, <1>6 DEF HandlersInv, SoleSubmission
    <2>2. ASSUME pc[q] \in Locked \cup {"check", "store", "append", "appendFailed"}
          PROVE  orders'[call[q].id] = orders[call[q].id]
      <3>1. CASE pc[q] \in {"check", "store", "append", "appendFailed"}
        <4>1. call[q].op = "submit" /\ InFlight(q)
          BY <2>0, <3>1 DEF HandlerOK, InFlight
        <4>2. QED BY <1>2, <2>0, <2>1, <3>1, <4>1
      <3>2. CASE pc[q] \in Locked
        <4>1. orders[call[q].id] = call[q].ref /\ lock[call[q].ref] = q
          BY <2>0, <3>2 DEF HandlerOK, LifecycleInv
        <4>2. QED BY <1>2, <1>3, <2>0, <3>2, <4>1 DEF Locked
      <3>3. QED BY <2>2, <3>1, <3>2
    <2>3. ASSUME pc[q] = "lock", orders'[call[q].id] # call[q].ref
          PROVE  call[q].op = "cancel" /\ heap'[call[q].ref].state = "PENDING"
      <3>1. CASE orders[call[q].id] # call[q].ref
        BY <1>2, <2>0, <2>3, <3>1 DEF HandlerOK
      <3>2. CASE orders[call[q].id] = call[q].ref
        <4>1. call[q].id = id /\ call[q].ref = p
          BY <1>2, <1>3, <2>0, <2>3, <3>2
        <4>2. call[q].op # "report"
          BY <1>3, <2>0, <2>3, <4>1 DEF HandlerOK, InFlight, Routed
        <4>3. call[q].op \in Ops /\ call[q].op # "submit"
          BY <2>1, <2>3, <4>1 DEF InFlight, TypeOK, CallsOK, Call
        <4>4. QED BY <1>2, <1>3, <4>1, <4>2, <4>3 DEF Ops
      <3>3. QED BY <3>1, <3>2
    <2>4. QED BY <1>2, <1>4, <1>6, <2>0, <2>2, <2>3, HandlerKept
  <1>7. SoleSubmission'
    BY <1>1, <1>2, SoleKept DEF HandlersInv, InFlight
  <1>8. ASSUME NEW i \in OrderIds, orders'[i] # NoRef PROVE Belongs(orders[i], i)'
    <2>1. PICK r \in Refs : r = orders[i] /\ r = orders'[i] /\ Belongs(r, i)
      BY <1>2, <1>8 DEF HandlersInv, TypeOK, MemoryOK
    <2>2. Belongs(r, i)'
      BY <1>4, <2>1, BelongsKept
    <2>3. QED BY <2>1, <2>2
  <1>9. ASSUME NEW r \in Refs, lock'[r] # NoProc
        PROVE  pc'[lock'[r]] \in Locked /\ call'[lock'[r]].ref = r
    <2>1. lock[r] \in Procs /\ pc[lock[r]] \in Locked /\ call[lock[r]].ref = r
      BY <1>2, <1>9 DEF HandlersInv, TypeOK, MemoryOK
    <2>2. QED BY <1>1, <1>2, <2>1 DEF Locked
  <1>10. QED BY <1>1, <1>2, <1>5, <1>6, <1>7, <1>8, <1>9 DEF HandlersInv

\* TransitionState logs its event.
LEMMA HandlersTransitionAppend ==
    ASSUME TypeOK, LifecycleInv, HandlersInv, NEW p \in Procs, TransitionAppend(p)
    PROVE  HandlersInv'
  <1> DEFINE id == call[p].id
             line == Event(id, call[p].next, call[p].delta, 0)
  <1>1. pc[p] = "wal" /\ pc[p] \in Locked /\ InFlight(p) /\ phase = "serving" /\ call[p] \in Call
    BY StepServing DEF TransitionAppend, InFlight, TypeOK, CallsOK, Locked
  <1>2. id \in OrderIds /\ line \in Line /\ line.id = id
    BY <1>1 DEF Call, Event, Line
  <1> HIDE DEF line
  <1>3. /\ WalAppend(p, line, "set", "walFailed")
        /\ UNCHANGED <<memory, call, replayed>>
    BY DEF TransitionAppend, recovery, line
  <1>4. HandlerOK(p) /\ orders[id] = call[p].ref /\ lock[call[p].ref] = p /\ call[p].ref \in Refs
    BY <1>1 DEF HandlersInv, HandlerOK, LifecycleInv, TypeOK, CallsOK, Dereferences
  <1>5. \A q \in Procs : q # p /\ pc[q] \in {"store", "append", "appendFailed"} =>
               call[q].id # id
    <2> SUFFICES ASSUME NEW q \in Procs, pc[q] \in {"store", "append", "appendFailed"},
                        call[q].id = id
                 PROVE  FALSE
      OBVIOUS
    <2>0. HandlerOK(q)
      BY DEF HandlersInv
    <2>1. \/ orders[id] = NoRef
          \/ orders[id] = q /\ lock[q] = NoProc
      BY <2>0 DEF HandlerOK
    <2>2. QED BY <1>4, <2>1
  <1>6. HandlerOK(p)'
    <2>1. Extends(line)
      BY <1>2, <1>3, AppendExtends DEF TypeOK
    <2>2. pc'[p] \in {"set", "walFailed"}
      BY <1>3 DEF WalAppend, Goto, TypeOK, CallsOK
    <2>3. UNCHANGED <<orders, heap, lock, call>>
      BY <1>3 DEF memory
    <2>4. Routed(id) => Routed(id)'
      BY <2>1, <2>3 DEF Extends, Routed
    <2>5. Belongs(call[p].ref, id) => Belongs(call[p].ref, id)'
      BY <2>3 DEF Belongs, Owner
    <2>6. QED BY <1>1, <1>4, <2>2, <2>3, <2>4, <2>5 DEF HandlerOK, Dereferences, Locked, InFlight
  <1>7. orders[line.id] # NoRef
    BY <1>2, <1>4
  <1>8. QED BY <1>1, <1>2, <1>3, <1>5, <1>6, <1>7, HandlersAppend DEF Locked

\* A transition locks the registered object, and never one that a submission
\* has not logged yet: that one only a cancel could reach, and PENDING blocks it.
LEMMA HandlersLock ==
    ASSUME TypeOK, LifecycleInv, HandlersInv, NEW p \in Procs, TransitionLock(p)
    PROVE  HandlersInv'
  <1> DEFINE id == call[p].id
             r == call[p].ref
  <1>1. pc[p] = "lock" /\ InFlight(p) /\ phase = "serving" /\ call[p] \in Call /\ ProperTarget(call[p])
    BY StepServing DEF TransitionLock, InFlight, TypeOK, CallsOK
  <1>2. id \in OrderIds /\ r \in Refs /\ call[p].op \in Ops
    BY <1>1 DEF TypeOK, CallsOK, Call, Dereferences
  <1>3. HandlerOK(p) /\ Belongs(r, id)
    BY <1>1 DEF HandlersInv, HandlerOK, Dereferences
  <1>4. /\ isValidTransition(heap[r].state, call[p].target) /\ lock[r] = NoProc
        /\ UNCHANGED <<phase, degraded, orders, wal, replayed>>
    BY DEF TransitionLock, Blocked, log, recovery
  <1>5. /\ \A q \in Procs : q # p => pc'[q] = pc[q] /\ call'[q] = call[q]
        /\ pc'[p] = "wal" /\ call'[p].op = call[p].op /\ call'[p].id = id /\ call'[p].ref = r
        /\ call'[p].target = call[p].target /\ call'[p].next = NextState(p)
    <2>1. call' = [call EXCEPT ![p] = [call[p] EXCEPT !.next = NextState(p)]]
          /\ pc' = [pc EXCEPT ![p] = "wal"]
      BY DEF TransitionLock, Goto
    <2>2. QED BY <1>1, <2>1 DEF TypeOK, CallsOK, Call
  <1>6. /\ lock'[r] = p /\ \A s \in Refs : s # r => lock'[s] = lock[s] /\ heap'[s] = heap[s]
        /\ \A s \in Refs : heap'[s].state = heap[s].state
    <2>1. heap' = [heap EXCEPT ![r] = [heap[r] EXCEPT !.cum = CumQty(p)]]
          /\ lock' = [lock EXCEPT ![r] = p]
      BY DEF TransitionLock
    <2>2. QED BY <1>2, <2>1 DEF TypeOK, MemoryOK, Runtime
  <1>7. call[p].op = "cancel" => heap[r].state # "PENDING"
    BY <1>1, <1>4 DEF ProperTarget, isValidTransition, Fills
  <1>8. orders[id] = r
    BY <1>1, <1>3, <1>7 DEF HandlerOK
  <1>9. ASSUME NEW q \in Procs, pc[q] \in {"append", "appendFailed"} PROVE r # q
    <2> SUFFICES ASSUME r = q PROVE FALSE
      OBVIOUS
    <2>0. HandlerOK(q) /\ InFlight(q) /\ q # p
      BY <1>1, <1>9 DEF HandlersInv, InFlight
    <2>1. call[q].id = id
      BY <1>3 DEF Belongs, Owner
    <2>2. call[q].op = "submit" /\ heap[q] = [state |-> "PENDING", total |-> call[q].total, cum |-> 0]
          /\ \A i \in DOMAIN wal : wal[i].id = id => wal[i].state = "PENDING"
      BY <1>9, <2>0, <2>1 DEF HandlerOK
    <2>3. call[p].op # "submit"
      BY <1>1, <2>0, <2>1, <2>2 DEF HandlersInv, SoleSubmission
    <2>4. call[p].op # "cancel"
      BY <1>7, <2>2
    <2>5. call[p].op # "report"
      BY <1>1, <1>3, <2>2 DEF HandlerOK, Routed
    <2>6. QED BY <1>2, <2>3, <2>4, <2>5 DEF Ops
  <1>10. Persist
    BY <1>1, <1>5, <1>6 DEF Persist
  <1>11. HandlerOK(p)'
    <2>0. PICK s \in Refs, i \in OrderIds : s = r /\ i = id
      BY <1>2
    <2>1. Belongs(s, i)'
      BY <1>3, <1>10, <2>0, BelongsKept
    <2>2. /\ call[p].target \in Fills => NextState(p) \in Fills
          /\ call[p].target \notin Fills => NextState(p) = call[p].target
      BY DEF NextState, Fills
    <2>3. call[p].op = "report" => Routed(i)'
      BY <1>1, <1>3, <1>4, <2>0 DEF HandlerOK, Routed
    <2>4. QED BY <1>4, <1>5, <1>8, <2>0, <2>1, <2>2, <2>3 DEF HandlerOK, Locked, Belongs, Owner, Routed
  <1>12. ASSUME NEW q \in Procs, q # p PROVE HandlerOK(q)'
    <2>1. HandlerOK(q) /\ (pc[q] \in Dereferences => call[q].ref \in Refs)
      BY DEF HandlersInv, TypeOK, CallsOK
    <2>2. pc[q] = "lock" /\ orders'[call[q].id] # call[q].ref =>
             call[q].op = "cancel" /\ heap'[call[q].ref].state = "PENDING"
      BY <1>4, <1>6, <2>1 DEF HandlerOK, Dereferences
    <2>3. pc[q] \in {"append", "appendFailed"} => heap'[q] = heap[q] /\ lock'[q] = lock[q]
      BY <1>6, <1>9
    <2>4. QED BY <1>4, <1>5, <1>10, <1>12, <2>1, <2>2, <2>3, HandlerKept
  <1>13. SoleSubmission'
    BY <1>1, <1>5, SoleKept DEF HandlersInv, InFlight
  <1>14. ASSUME NEW i \in OrderIds, orders'[i] # NoRef PROVE Belongs(orders[i], i)'
    <2>1. PICK s \in Refs : s = orders[i] /\ s = orders'[i] /\ Belongs(s, i)
      BY <1>4, <1>14 DEF HandlersInv, TypeOK, MemoryOK
    <2>2. Belongs(s, i)'
      BY <1>10, <2>1, BelongsKept
    <2>3. QED BY <2>1, <2>2
  <1>15. ASSUME NEW s \in Refs, lock'[s] # NoProc
         PROVE  pc'[lock'[s]] \in Locked /\ call'[lock'[s]].ref = s
    <2>1. CASE s = r
      BY <1>5, <1>6, <2>1 DEF Locked
    <2>2. CASE s # r
      <3>1. lock'[s] = lock[s] /\ lock[s] \in Procs /\ pc[lock[s]] \in Locked /\ call[lock[s]].ref = s
        BY <1>6, <1>15, <2>2 DEF HandlersInv, TypeOK, MemoryOK
      <3>2. QED BY <1>1, <1>5, <3>1 DEF Locked
    <2>3. QED BY <2>1, <2>2
  <1>16. QED BY <1>1, <1>4, <1>11, <1>12, <1>13, <1>14, <1>15 DEF HandlersInv

\* The transition ends: the lock is free again, the state may be the next one.
LEMMA HandlersRelease ==
    ASSUME TypeOK, LifecycleInv, HandlersInv, NEW p \in Procs,
           TransitionSet(p) \/ TransitionWalFailed(p)
    PROVE  HandlersInv'
  <1> DEFINE id == call[p].id
             r == call[p].ref
  <1>1. pc[p] \in Locked /\ InFlight(p) /\ phase = "serving" /\ call[p] \in Call
    BY StepServing DEF TransitionSet, TransitionWalFailed, InFlight, TypeOK, CallsOK, Locked
  <1>2. id \in OrderIds /\ r \in Refs /\ call[p].next \in OrderStatus
    BY <1>1 DEF TypeOK, CallsOK, Call, Dereferences, Locked
  <1>3. HandlerOK(p) /\ Belongs(r, id) /\ lock[r] = p
    BY <1>1 DEF HandlersInv, HandlerOK, Dereferences, Locked, LifecycleInv
  <1>4. /\ UNCHANGED <<phase, orders, wal, replayed>>
        /\ degraded' = degraded \/ degraded' = TRUE
        /\ lock' = [lock EXCEPT ![r] = NoProc]
        /\ UNCHANGED heap \/ heap' = [heap EXCEPT ![r] = [heap[r] EXCEPT !.state = call[p].next]]
    BY DEF TransitionSet, TransitionWalFailed, Unlock, SetState, log, recovery
  <1>5. ReturnOk(p) \/ ReturnError(p)
    BY DEF TransitionSet, TransitionWalFailed
  <1>6. /\ \A q \in Procs : q # p => pc'[q] = pc[q] /\ call'[q] = call[q]
        /\ pc'[p] \in {"done", "load"} /\ call'[p].op = call[p].op /\ call'[p].id = id
    <2>0. pc \in [Procs -> ControlState] /\ call \in [Procs -> Call \cup {NoCall}]
      BY DEF TypeOK, CallsOK
    <2>1. CASE call' = call /\ pc' = [pc EXCEPT ![p] = "done"]
      BY <2>0, <2>1
    <2>2. CASE call' = [call EXCEPT ![p] = [call[p] EXCEPT !.target = "CANCELED"]]
               /\ pc' = [pc EXCEPT ![p] = "load"]
      BY <1>1, <2>0, <2>2 DEF Call
    <2>3. QED BY <1>5, <2>1, <2>2 DEF ReturnOk, ReturnError, Answer, Goto
  <1>7. /\ lock'[r] = NoProc /\ \A s \in Refs : s # r => lock'[s] = lock[s] /\ heap'[s] = heap[s]
        /\ \A s \in Refs : heap[s].state # "NONE" => heap'[s].state # "NONE"
    <2>1. /\ lock'[r] = NoProc /\ \A s \in Refs : s # r => lock'[s] = lock[s]
      BY <1>2, <1>4 DEF TypeOK, MemoryOK
    <2>2. \A s \in Refs : s # r => heap'[s] = heap[s]
      BY <1>2, <1>4 DEF TypeOK, MemoryOK
    <2>3. heap'[r].state = heap[r].state \/ heap'[r].state = call[p].next
      BY <1>2, <1>4 DEF TypeOK, MemoryOK, Runtime
    <2>4. call[p].next # "NONE"
      BY <1>2 DEF OrderStatus, Fills, Terminal
    <2>5. QED BY <2>1, <2>2, <2>3, <2>4
  <1>8. orders[id] = r
    BY <1>1, <1>3 DEF HandlerOK
  <1>10. Persist
    BY <1>1, <1>6, <1>7 DEF Persist
  <1>11. HandlerOK(p)'
    <2>0. PICK i \in OrderIds : i = id
      BY <1>2
    <2>1. call[p].op = "report" => Routed(i)'
      BY <1>1, <1>3, <1>4, <2>0 DEF HandlerOK, Routed
    <2>2. pc'[p] \notin Dereferences \cup Locked
      BY <1>6 DEF Dereferences, Locked
    <2>3. QED BY <1>6, <2>0, <2>1, <2>2 DEF HandlerOK, Routed
  <1>12. ASSUME NEW q \in Procs, q # p PROVE HandlerOK(q)'
    <2>1. HandlerOK(q) /\ (pc[q] \in Dereferences => call[q].ref \in Refs)
      BY DEF HandlersInv, TypeOK, CallsOK
    <2>2. ASSUME pc[q] = "lock", orders'[call[q].id] # call[q].ref
          PROVE  call[q].op = "cancel" /\ heap'[call[q].ref].state = "PENDING"
      <3>1. orders[call[q].id] # call[q].ref /\ call[q].ref \in Refs /\ Belongs(call[q].ref, call[q].id)
        BY <1>4, <2>1, <2>2 DEF HandlerOK, Dereferences
      <3>2. call[q].ref # r
        BY <1>3, <1>8, <3>1 DEF Belongs
      <3>3. QED BY <1>7, <2>1, <2>2, <3>1, <3>2 DEF HandlerOK
    <2>3. pc[q] \in {"append", "appendFailed"} => heap'[q] = heap[q] /\ lock'[q] = lock[q]
      <3>1. pc[q] \in {"append", "appendFailed"} => lock[q] = NoProc
        BY <2>1 DEF HandlerOK
      <3>2. QED BY <1>3, <1>7, <3>1
    <2>4. QED BY <1>4, <1>6, <1>10, <1>12, <2>1, <2>2, <2>3, HandlerKept
  <1>13. SoleSubmission'
    BY <1>1, <1>6, SoleKept DEF HandlersInv, InFlight
  <1>14. ASSUME NEW i \in OrderIds, orders'[i] # NoRef PROVE Belongs(orders[i], i)'
    <2>1. PICK s \in Refs : s = orders[i] /\ s = orders'[i] /\ Belongs(s, i)
      BY <1>4, <1>14 DEF HandlersInv, TypeOK, MemoryOK
    <2>2. Belongs(s, i)'
      BY <1>10, <2>1, BelongsKept
    <2>3. QED BY <2>1, <2>2
  <1>15. ASSUME NEW s \in Refs, lock'[s] # NoProc
         PROVE  pc'[lock'[s]] \in Locked /\ call'[lock'[s]].ref = s
    <2>1. s # r
      BY <1>7, <1>15
    <2>2. lock'[s] = lock[s] /\ lock[s] \in Procs /\ pc[lock[s]] \in Locked /\ call[lock[s]].ref = s
      BY <1>7, <1>15, <2>1 DEF HandlersInv, TypeOK, MemoryOK
    <2>3. QED BY <1>6, <2>1, <2>2
  <1>16. \A i \in DOMAIN wal' : phase' = "serving" => orders'[wal'[i].id] # NoRef \/ degraded'
    BY <1>4 DEF HandlersInv
  <1>17. QED BY <1>1, <1>4, <1>11, <1>12, <1>13, <1>14, <1>15, <1>16 DEF HandlersInv

\* Without calls in flight nothing is asked of the handlers.
LEMMA HandlersIdle ==
    ASSUME \A p \in Procs : pc'[p] \in {"idle", "done"}
    PROVE  SoleSubmission' /\ \A p \in Procs : HandlerOK(p)'
  BY DEF SoleSubmission, InFlight, HandlerOK, Dereferences, Locked

\* The process dies, and every handler with it.
LEMMA HandlersDie ==
    ASSUME TypeOK, HandlersInv, Die
    PROVE  HandlersInv'
  <1>1. \A p \in Procs : pc'[p] \in {"idle", "done"}
    BY DEF Die
  <1>2. /\ phase' = "down" /\ replayed' = 0
        /\ \A id \in OrderIds : orders'[id] = NoRef
        /\ \A r \in Refs : lock'[r] = NoProc
    BY DEF Die
  <1>3. ~ConcurrentRetries
    BY DEF HandlersInv
  <1>4. SoleSubmission' /\ \A p \in Procs : HandlerOK(p)'
    BY <1>1, HandlersIdle
  <1>5. QED BY <1>2, <1>3, <1>4 DEF HandlersInv

\* RecoverFromWAL applies an event to the object registered for its order.
LEMMA HandlersReplay ==
    ASSUME TypeOK, LifecycleInv, HandlersInv, Replay
    PROVE  HandlersInv'
  <1> DEFINE n == replayed + 1
             ev == wal[n]
  <1>1. /\ phase = "replaying" /\ n \in DOMAIN wal /\ replayed' = n /\ Apply(ev)
        /\ UNCHANGED <<phase, degraded, lock, wal, pc, call>>
    BY DEF Replay, log, TypeOK, LogOK
  <1>2. ev \in Line
    BY <1>1 DEF TypeOK, LogOK
  <1>3. ev.id \in OrderIds /\ ev.state # "NONE"
    BY <1>2 DEF Line, OrderStatus, Fills, Terminal
  <1>4. \A p \in Procs : pc'[p] \in {"idle", "done"}
    BY <1>1 DEF LifecycleInv, InFlight
  <1>5. SoleSubmission' /\ \A p \in Procs : HandlerOK(p)'
    BY <1>4, HandlersIdle
  <1> HIDE DEF ev
  <1>6. \A id \in OrderIds : orders[id] # NoRef =>
            orders[id] \in OrderIds /\ Owner(orders[id]) = id /\ heap[orders[id]].state # "NONE"
    BY <1>1 DEF LifecycleInv, HandlersInv, Belongs
  <1>7. \A id \in OrderIds : orders[id] # NoRef =>
            orders[id] = id /\ heap[orders[id]].state # "NONE"
    BY <1>6 DEF Owner
  <1>8. /\ orders'[ev.id] = ev.id /\ \A id \in OrderIds : id # ev.id => orders'[id] = orders[id]
        /\ heap'[ev.id].state = ev.state /\ \A r \in Refs : r # ev.id => heap'[r] = heap[r]
    <2>1. CASE orders[ev.id] = NoRef
      BY <1>1, <1>3, <2>1 DEF Apply, TypeOK, MemoryOK
    <2>2. CASE orders[ev.id] # NoRef
      <3>1. orders[ev.id] = ev.id /\ UNCHANGED orders
        BY <1>1, <1>3, <1>7, <2>2 DEF Apply
      <3>2. QED BY <1>1, <1>3, <2>2, <3>1 DEF Apply, TypeOK, MemoryOK
    <2>3. QED BY <2>1, <2>2
  <1>9. \A id \in OrderIds : orders'[id] # NoRef =>
            orders'[id] = id /\ heap'[orders'[id]].state # "NONE"
    BY <1>3, <1>7, <1>8
  <1>10. \A id \in OrderIds : orders'[id] # NoRef => Belongs(orders[id], id)'
    BY <1>9 DEF Belongs, Owner
  <1>11. ASSUME NEW i \in 1..n PROVE orders'[wal[i].id] # NoRef
    <2>0. i \in DOMAIN wal /\ wal \in Seq(Line) /\ replayed \in Nat
      BY <1>1 DEF TypeOK, LogOK
    <2>1. wal[i] \in Line
      BY <2>0
    <2>2. wal[i].id \in OrderIds
      BY <2>1 DEF Line
    <2>3. CASE i = n
      BY <1>3, <1>8, <2>3 DEF ev
    <2>4. CASE i # n
      <3>1. i \in 1..replayed
        BY <2>0, <2>4
      <3>2. orders[wal[i].id] # NoRef
        BY <1>1, <3>1 DEF HandlersInv
      <3>3. QED BY <1>3, <1>8, <2>2, <3>2
    <2>5. QED BY <2>3, <2>4
  <1>12. n <= Len(wal)
    BY <1>1 DEF TypeOK, LogOK
  <1>13. \A r \in Refs : lock'[r] # NoProc => pc'[lock'[r]] \in Locked /\ call'[lock'[r]].ref = r
    BY <1>1 DEF HandlersInv
  <1>14. QED BY <1>1, <1>5, <1>10, <1>11, <1>12, <1>13 DEF HandlersInv

\* Startup and ForcePause.
LEMMA HandlersRest ==
    ASSUME TypeOK, LifecycleInv, HandlersInv,
           ForcePause \/ Restart \/ Serve \/ UNCHANGED vars
    PROVE  HandlersInv'
  <1>1. UNCHANGED <<orders, heap, lock, wal, pc, call, replayed>>
    BY DEF ForcePause, Restart, Serve, vars, log, recovery
  <1>2. SoleSubmission' /\ (\A p \in Procs : HandlerOK(p)')
        /\ (\A id \in OrderIds : orders'[id] # NoRef => Belongs(orders[id], id)')
        /\ (\A r \in Refs : lock'[r] # NoProc => pc'[lock'[r]] \in Locked /\ call'[lock'[r]].ref = r)
    <2>1. SoleSubmission'
      BY <1>1 DEF HandlersInv, SoleSubmission, InFlight
    <2>2. ASSUME NEW p \in Procs PROVE HandlerOK(p)'
      <3>1. HandlerOK(p)
        BY DEF HandlersInv
      <3>2. QED BY <1>1, <3>1 DEF HandlerOK, InFlight, Belongs, Owner, Routed
    <2>3. ASSUME NEW id \in OrderIds, orders'[id] # NoRef PROVE Belongs(orders[id], id)'
      BY <1>1, <2>3 DEF HandlersInv, Belongs, Owner
    <2>4. QED BY <1>1, <2>1, <2>2, <2>3 DEF HandlersInv
  <1>3. CASE ForcePause
    BY <1>1, <1>2, <1>3 DEF ForcePause, HandlersInv
  <1>4. CASE Restart
    <2>1. phase = "down" /\ replayed = 0 /\ phase' \in {"replaying", "failed"}
      BY <1>4 DEF Restart, HandlersInv
    <2>2. replayed <= Len(wal) /\ 1..replayed = {}
      BY <2>1 DEF TypeOK, LogOK
    <2>3. QED BY <1>1, <1>2, <2>1, <2>2 DEF HandlersInv
  <1>5. CASE Serve
    <2>1. phase = "replaying" /\ replayed = Len(wal) /\ phase' = "serving"
      BY <1>5 DEF Serve
    <2>2. \A i \in DOMAIN wal : orders[wal[i].id] # NoRef
      BY <2>1 DEF HandlersInv, TypeOK, LogOK
    <2>3. QED BY <1>1, <1>2, <2>1, <2>2 DEF HandlersInv
  <1>6. CASE UNCHANGED vars
    BY <1>1, <1>2, <1>6 DEF HandlersInv, vars
  <1>7. QED BY <1>3, <1>4, <1>5, <1>6

\* Every step keeps the handlers in order.
LEMMA HandlersStep ==
    TypeOK /\ LifecycleInv /\ HandlersInv /\ [Next]_vars => HandlersInv'
  <1> SUFFICES ASSUME TypeOK, LifecycleInv, HandlersInv, [Next]_vars PROVE HandlersInv'
    OBVIOUS
  <1>1. ASSUME NEW p \in Procs, Begin(p) PROVE HandlersInv'
    BY <1>1, HandlersBegin
  <1>2. ASSUME NEW p \in Procs, Step(p) PROVE HandlersInv'
    BY <1>2, HandlersReads, HandlersStore, HandlersSubmitAppend, HandlersAppendFailed,
       HandlersLock, HandlersTransitionAppend, HandlersRelease
       DEF Step, Submit, TransitionState
  <1>3. CASE Die
    BY <1>3, HandlersDie
  <1>4. CASE Replay
    BY <1>4, HandlersReplay
  <1>5. CASE ForcePause \/ Restart \/ Serve \/ UNCHANGED vars
    BY <1>5, HandlersRest
  <1>6. QED BY <1>1, <1>2, <1>3, <1>4, <1>5 DEF Next, TransitionPanic, Crash, Startup

\* No handler runs at first.
LEMMA HandlersInit == Init /\ ~ConcurrentRetries => HandlersInv
  BY DEF Init, HandlersInv, SoleSubmission, HandlerOK, InFlight, Dereferences, Locked

-----------------------------------------------------------------------------
\* Then the log: what a reader of the lines knows of the order after each line.
ReadLine(seen, line) ==
    [state |-> line.state,
     total |-> IF seen.state = "NONE" THEN line.total ELSE seen.total,
     cum |-> IF seen.state # "NONE" /\ line.state \in Fills
             THEN seen.cum + line.delta ELSE seen.cum]
ReadFor(id, seen, line) == IF line.id = id THEN ReadLine(seen, line) ELSE seen

Reading(lines, id) ==
    LET seen[i \in 0..Len(lines)] ==
            IF i = 0 THEN NoRuntime ELSE ReadFor(id, seen[i - 1], lines[i])
    IN  seen
LastRead(id) == Reading(wal, id)[Len(wal)]

\* The reader starts knowing nothing and goes line by line.
LEMMA ReadingDef ==
    ASSUME NEW lines \in Seq(Line), NEW id
    PROVE  /\ Reading(lines, id)[0] = NoRuntime
           /\ \A i \in 1..Len(lines) :
                 Reading(lines, id)[i] = ReadFor(id, Reading(lines, id)[i - 1], lines[i])
  <1> DEFINE Rd(n, u) == ReadFor(id, u, lines[n])
             Reads(f, N) == f = [n \in 0..N |-> IF n = 0 THEN NoRuntime ELSE Rd(n, f[n - 1])]
  <1>1. \E f : Reads(f, Len(lines))
    <2> HIDE DEF Rd
    <2> DEFINE S == {N \in Nat : \E f : Reads(f, N)}
    <2>1. 0 \in S
      <3>1. Reads([n \in 0..0 |-> NoRuntime], 0)
        OBVIOUS
      <3>2. QED BY <3>1
    <2>2. ASSUME NEW N \in S PROVE N + 1 \in S
      <3>1. PICK f : Reads(f, N)
        OBVIOUS
      <3> DEFINE g == [n \in 0..(N + 1) |-> IF n <= N THEN f[n] ELSE Rd(N + 1, f[N])]
                 h == [n \in 0..(N + 1) |-> IF n = 0 THEN NoRuntime ELSE Rd(n, g[n - 1])]
      <3>2. f[0] = NoRuntime /\ \A n \in 1..N : f[n] = Rd(n, f[n - 1])
        BY <3>1
      <3>3. \A n \in 0..(N + 1) : g[n] = h[n]
        BY <3>2, SMTT(30)
      <3>4. g = h
        BY <3>3
      <3>5. Reads(g, N + 1)
        BY <3>4
      <3> HIDE DEF g, Reads
      <3>6. QED BY <3>5
    <2>3. S \in SUBSET Nat
      OBVIOUS
    <2> HIDE DEF S
    <2>4. Len(lines) \in S
      BY <2>1, <2>2, <2>3, NatInd
    <2>5. QED BY <2>4 DEF S
  <1> DEFINE seen == CHOOSE f : Reads(f, Len(lines))
  <1>2. Reads(seen, Len(lines)) /\ Reading(lines, id) = seen
    BY <1>1 DEF Reading
  <1> HIDE DEF seen
  <1>3. seen[0] = NoRuntime /\ \A n \in 1..Len(lines) : seen[n] = Rd(n, seen[n - 1])
    <2> HIDE DEF Rd
    <2>1. QED BY <1>2
  <1>4. QED BY <1>2, <1>3

\* Reading a line of an order gives an order.
LEMMA ReadLineType ==
    ASSUME NEW seen \in Runtime, NEW line \in Line
    PROVE  /\ ReadLine(seen, line) \in Runtime
           /\ ReadLine(seen, line).state = line.state
           /\ ReadLine(seen, line).total = IF seen.state = "NONE" THEN line.total ELSE seen.total
           /\ ReadLine(seen, line).cum = seen.cum +
                 (IF seen.state # "NONE" /\ line.state \in Fills THEN line.delta ELSE 0)
  BY DEF ReadLine, Runtime, Line

\* What is read is an order's state, quantity and fills.
LEMMA ReadingType ==
    ASSUME NEW lines \in Seq(Line), NEW id
    PROVE  \A i \in 0..Len(lines) : Reading(lines, id)[i] \in Runtime
  <1> DEFINE S == {n \in Nat : n <= Len(lines) => Reading(lines, id)[n] \in Runtime}
  <1>1. 0 \in S
    BY ReadingDef DEF NoRuntime, Runtime
  <1>2. ASSUME NEW n \in S PROVE n + 1 \in S
    <2>1. CASE n + 1 <= Len(lines)
      <3>1. Reading(lines, id)[n] \in Runtime /\ n + 1 \in 1..Len(lines) /\ (n + 1) - 1 = n
        BY <2>1
      <3>2. lines[n + 1] \in Line
        BY <3>1
      <3>3. Reading(lines, id)[n + 1] = ReadFor(id, Reading(lines, id)[n], lines[n + 1])
        BY <3>1, ReadingDef
      <3>4. QED BY <3>1, <3>2, <3>3, ReadLineType DEF ReadFor
    <2>2. CASE ~(n + 1 <= Len(lines))
      BY <2>2
    <2>3. QED BY <2>1, <2>2
  <1>3. S \in SUBSET Nat
    OBVIOUS
  <1> HIDE DEF S
  <1>4. Nat \subseteq S
    BY <1>1, <1>2, <1>3, NatInd
  <1>5. QED BY <1>4 DEF S

\* A line that is appended changes nothing that was read before it.
LEMMA ReadingAppend ==
    ASSUME NEW lines \in Seq(Line), NEW more \in Seq(Line), NEW line, NEW id,
           Len(more) = Len(lines) + 1, more[Len(more)] = line,
           \A i \in 1..Len(lines) : more[i] = lines[i]
    PROVE  /\ \A i \in 0..Len(lines) : Reading(more, id)[i] = Reading(lines, id)[i]
           /\ Reading(more, id)[Len(more)] = ReadFor(id, Reading(lines, id)[Len(lines)], line)
  <1>1. /\ Len(more) = Len(lines) + 1 /\ more[Len(more)] = line
        /\ \A i \in 1..Len(lines) : more[i] = lines[i]
    OBVIOUS
  <1>a. \A i \in 1..Len(more) : Reading(more, id)[i] = ReadFor(id, Reading(more, id)[i - 1], more[i])
    BY <1>1, ReadingDef
  <1> DEFINE S == {n \in Nat : n <= Len(lines) => Reading(more, id)[n] = Reading(lines, id)[n]}
  <1>2. 0 \in S
    BY <1>1, ReadingDef
  <1>3. ASSUME NEW n \in S PROVE n + 1 \in S
    <2>1. CASE n + 1 <= Len(lines)
      <3>1. /\ Reading(more, id)[n] = Reading(lines, id)[n]
            /\ n + 1 \in 1..Len(lines) /\ n + 1 \in 1..Len(more) /\ (n + 1) - 1 = n
        BY <1>1, <2>1
      <3>2. Reading(more, id)[n + 1] = ReadFor(id, Reading(more, id)[n], more[n + 1])
        BY <1>a, <3>1
      <3>3. Reading(lines, id)[n + 1] = ReadFor(id, Reading(lines, id)[n], lines[n + 1])
        BY <3>1, ReadingDef
      <3>4. QED BY <1>1, <3>1, <3>2, <3>3
    <2>2. CASE ~(n + 1 <= Len(lines))
      BY <2>2
    <2>3. QED BY <2>1, <2>2
  <1>4. S \in SUBSET Nat
    OBVIOUS
  <1> HIDE DEF S
  <1>5. Nat \subseteq S
    BY <1>2, <1>3, <1>4, NatInd
  <1>6. \A i \in 0..Len(lines) : Reading(more, id)[i] = Reading(lines, id)[i]
    BY <1>5 DEF S
  <1>7. Len(more) \in 1..Len(more) /\ Len(more) - 1 = Len(lines) /\ Len(lines) \in 0..Len(lines)
    BY <1>1
  <1>8. Reading(more, id)[Len(more)] = ReadFor(id, Reading(more, id)[Len(lines)], line)
    BY <1>1, <1>a, <1>7
  <1>9. QED BY <1>1, <1>6, <1>7, <1>8

\* Nothing is read of an order without a line.
LEMMA ReadingNone ==
    ASSUME NEW lines \in Seq(Line), NEW id, \A i \in DOMAIN lines : lines[i].id # id
    PROVE  \A i \in 0..Len(lines) : Reading(lines, id)[i] = NoRuntime
  <1> DEFINE S == {n \in Nat : n <= Len(lines) => Reading(lines, id)[n] = NoRuntime}
  <1>1. 0 \in S
    BY ReadingDef
  <1>2. ASSUME NEW n \in S PROVE n + 1 \in S
    <2>1. CASE n + 1 <= Len(lines)
      <3>1. Reading(lines, id)[n] = NoRuntime /\ n + 1 \in 1..Len(lines) /\ (n + 1) - 1 = n
        BY <2>1
      <3>2. Reading(lines, id)[n + 1] = ReadFor(id, Reading(lines, id)[n], lines[n + 1])
        BY <3>1, ReadingDef
      <3>3. QED BY <3>1, <3>2 DEF ReadFor
    <2>2. CASE ~(n + 1 <= Len(lines))
      BY <2>2
    <2>3. QED BY <2>1, <2>2
  <1>3. S \in SUBSET Nat
    OBVIOUS
  <1> HIDE DEF S
  <1>4. Nat \subseteq S
    BY <1>1, <1>2, <1>3, NatInd
  <1>5. QED BY <1>4 DEF S

\* What the transition of p, under way, adds to the fills in the log.
Added(p) == IF call[p].next \in Fills THEN call[p].delta ELSE 0
AtAppend(r) == r \in Procs /\ pc[r] \in {"append", "appendFailed"}
Accepted(p) == resp[p] = "SUBMITTED" \/ (pc[p] = "set" /\ call[p].op = "submit")

\* The log knows a registered order with its quantity, and at most the fills in
\* memory.
RegisteredRead(id) ==
    orders[id] # NoRef =>
        \/ AtAppend(orders[id])
        \/ /\ LastRead(id).state # "NONE"
           /\ LastRead(id).total = heap[orders[id]].total
           /\ LastRead(id).cum <= heap[orders[id]].cum

HandlerRead(p) ==
    /\ Readable /\ pc[p] = "wal" =>
          LastRead(call[p].id).cum + Added(p) <= heap[call[p].ref].cum
    /\ Readable /\ Accepted(p) => LastRead(call[p].id).state \notin {"NONE", "PENDING"}
    /\ phase = "serving" /\ resp[p] = "SUBMITTED" =>
          View(call[p].id).state \notin {"NONE", "PENDING"}

ReadInv ==
    /\ \A r \in Refs : heap[r].cum <= heap[r].total
    /\ Readable => \A id \in OrderIds : \A i \in 0..Len(wal) :
          Reading(wal, id)[i].cum <= Reading(wal, id)[i].total
    /\ phase = "replaying" => Readable
    /\ phase \in {"down", "replaying"} =>
          \A id \in OrderIds : View(id) = Reading(wal, id)[replayed]
    /\ phase = "serving" /\ Readable => \A id \in OrderIds : RegisteredRead(id)
    /\ \A p \in Procs : HandlerRead(p)

\* As long as no append fails, log and memory agree but for the step that a
\* handler is in.
RegisteredExact(id) ==
    IF orders[id] = NoRef THEN LastRead(id) = NoRuntime
    ELSE \/ lock[orders[id]] # NoProc
         \/ AtAppend(orders[id])
         \/ heap[orders[id]] = LastRead(id)

HandlerExact(p) ==
    /\ pc[p] \notin {"appendFailed", "walFailed"}
    /\ pc[p] = "wal" =>
          /\ LastRead(call[p].id).state = heap[call[p].ref].state
          /\ LastRead(call[p].id).cum + Added(p) = heap[call[p].ref].cum
    /\ pc[p] = "set" =>
          /\ LastRead(call[p].id).state = call[p].next
          /\ LastRead(call[p].id).cum = heap[call[p].ref].cum
    /\ resp[p] = "CANCELED" =>
          /\ LastRead(call[p].id).state = "CANCELED"
          /\ phase = "serving" => View(call[p].id).state = "CANCELED"

ExactInv ==
    walFailures = 0 =>
        /\ Readable /\ ~walOpen
        /\ phase = "serving" => \A id \in OrderIds : RegisteredExact(id)
        /\ \A p \in Procs : HandlerExact(p)
        /\ phase # "serving" => \A id \in OrderIds :
              before[id] # Unsettled => before[id] = LastRead(id)

\* All that is known of a state when clients retry one after the other.
EMSInv == /\ TypeOK /\ LifecycleInv /\ AckInv /\ HandlersInv
          /\ ReadInv /\ ExactInv

\* The log read to its end gives an order.
LEMMA LastReadType ==
    ASSUME LogOK, NEW id
    PROVE  /\ LastRead(id) \in Runtime
           /\ LastRead(id).cum \in Nat /\ LastRead(id).total \in Nat
  <1>1. LastRead(id) \in Runtime
    BY ReadingType DEF LogOK, LastRead
  <1>2. QED BY <1>1 DEF Runtime

\* Two handlers never change the same order: not two transitions, and not a
\* transition and a submission that is about to log its order.
LEMMA WritersApart ==
    ASSUME TypeOK, LifecycleInv, HandlersInv,
           NEW p \in Procs, NEW q \in Procs, p # q, pc[p] \in Locked
    PROVE  /\ pc[q] \in Locked => call[q].id # call[p].id /\ call[q].ref # call[p].ref
           /\ pc[q] \in {"check", "store", "append", "appendFailed"} =>
                 call[q].id # call[p].id /\ call[p].ref # q
           /\ call[p].ref \in Refs /\ orders[call[p].id] = call[p].ref
           /\ ~AtAppend(call[p].ref)
  <1>1. HandlerOK(p) /\ HandlerOK(q)
    BY DEF HandlersInv
  <1>2. lock[call[p].ref] = p /\ call[p].ref \in Refs
    BY DEF LifecycleInv, TypeOK, CallsOK, Dereferences, Locked
  <1>3. orders[call[p].id] = call[p].ref /\ Belongs(call[p].ref, call[p].id)
    BY <1>1 DEF HandlerOK, Dereferences, Locked
  <1>4. ASSUME pc[q] \in Locked PROVE call[q].id # call[p].id /\ call[q].ref # call[p].ref
    <2>1. lock[call[q].ref] = q /\ orders[call[q].id] = call[q].ref
      BY <1>1, <1>4 DEF LifecycleInv, HandlerOK
    <2>2. QED BY <1>2, <1>3, <2>1
  <1>5. ASSUME pc[q] \in {"check", "store", "append", "appendFailed"}
        PROVE  call[q].id # call[p].id /\ call[p].ref # q
    <2>1. CASE pc[q] \in {"check", "store"}
      <3>1. orders[call[q].id] = NoRef /\ heap[q].state = "NONE"
        BY <1>1, <2>1 DEF HandlerOK, LifecycleInv
      <3>2. QED BY <1>2, <1>3, <3>1 DEF Belongs
    <2>2. CASE pc[q] \in {"append", "appendFailed"}
      <3>1. orders[call[q].id] = q /\ lock[q] = NoProc
        BY <1>1, <2>2 DEF HandlerOK
      <3>2. QED BY <1>2, <1>3, <3>1
    <2>3. QED BY <1>5, <2>1, <2>2
  <1>6. ~AtAppend(call[p].ref)
    <2> SUFFICES ASSUME NEW s \in Procs, s = call[p].ref, pc[s] \in {"append", "appendFailed"}
                 PROVE  FALSE
      BY DEF AtAppend
    <2>1. HandlerOK(s)
      BY DEF HandlersInv
    <2>2. lock[s] = NoProc
      BY <2>1 DEF HandlerOK
    <2>3. QED BY <1>2, <2>2
  <1>7. QED BY <1>2, <1>3, <1>4, <1>5, <1>6

\* What an append does to a log that is readable afterwards, and to a reader.
LEMMA AppendReads ==
    ASSUME LogOK, NEW p \in Procs, NEW line \in Line, NEW ok, NEW failed,
           WalAppend(p, line, ok, failed), Readable'
    PROVE  /\ Readable
           /\ \/ UNCHANGED wal /\ AppendFails(line) /\ Goto(p, failed)
              \/ /\ wal' = Append(wal, line) /\ Len(wal') = Len(wal) + 1
                 /\ \A id : /\ \A i \in 0..Len(wal) : Reading(wal', id)[i] = Reading(wal, id)[i]
                            /\ Reading(wal', id)[Len(wal')] = ReadFor(id, LastRead(id), line)
  <1> DEFINE torn == [line EXCEPT !.ok = FALSE]
  <1>1. torn \in Line /\ torn.ok = FALSE
    BY DEF Line
  <1> HIDE DEF torn
  <1>2. CASE wal' = Write(line)
    <2>1. Readable /\ wal' = Append(wal, line)
      BY <1>2, WriteReadable
    <2>2. ASSUME NEW id
          PROVE  /\ Len(wal') = Len(wal) + 1
                 /\ \A i \in 0..Len(wal) : Reading(wal', id)[i] = Reading(wal, id)[i]
                 /\ Reading(wal', id)[Len(wal')] = ReadFor(id, LastRead(id), line)
      <3>1. PICK old, more : old = wal /\ more = wal'
        OBVIOUS
      <3>2. /\ old \in Seq(Line) /\ more \in Seq(Line)
            /\ Len(more) = Len(old) + 1 /\ more[Len(more)] = line
            /\ \A i \in 1..Len(old) : more[i] = old[i]
        BY <2>1, <3>1 DEF LogOK
      <3>3. /\ \A i \in 0..Len(old) : Reading(more, id)[i] = Reading(old, id)[i]
            /\ Reading(more, id)[Len(more)] = ReadFor(id, Reading(old, id)[Len(old)], line)
        BY <3>2, ReadingAppend
      <3>4. QED BY <3>1, <3>2, <3>3 DEF LastRead
    <2>3. QED BY <2>1, <2>2
  <1>3. CASE wal' = Write(torn)
    <2>1. Readable /\ wal' = Append(wal, torn)
      BY <1>1, <1>3, WriteReadable
    <2>2. Len(wal) + 1 \in DOMAIN wal' /\ wal'[Len(wal) + 1].ok = FALSE
      BY <1>1, <2>1 DEF LogOK
    <2>3. QED BY <2>2 DEF Readable
  <1>4. CASE UNCHANGED wal /\ AppendFails(line) /\ Goto(p, failed)
    BY <1>4 DEF Readable
  <1>5. QED BY <1>2, <1>3, <1>4 DEF WalAppend, AppendOk, AppendFails, torn

\* A step of p that changes neither an order nor the log, and is no step of a
\* writer.
Writing == Locked \cup {"append", "appendFailed"}

\* Such a step keeps what log and memory know of each other.
LEMMA LogQuiet ==
    ASSUME EMSInv, NEW p \in Procs,
           UNCHANGED <<phase, orders, heap, lock, wal, walOpen, walFailures, replayed, before>>,
           \A q \in Procs : q # p => pc'[q] = pc[q] /\ call'[q] = call[q] /\ resp'[q] = resp[q],
           pc[p] \notin Writing, pc'[p] \notin Writing,
           resp'[p] \notin {"SUBMITTED", "CANCELED"}
    PROVE  ReadInv' /\ ExactInv'
  <1>0. ReadInv /\ ExactInv
    BY DEF EMSInv
  <1>1. /\ Readable' = Readable
        /\ \A id : LastRead(id)' = LastRead(id) /\ View(id)' = View(id)
        /\ \A r : AtAppend(r)' <=> AtAppend(r)
    BY DEF Readable, LastRead, View, AtAppend, Writing
  <1>2. ASSUME NEW q \in Procs PROVE HandlerRead(q)' /\ (HandlerExact(q) => HandlerExact(q)')
    <2>1. CASE q = p
      BY <2>1 DEF HandlerRead, HandlerExact, Accepted, Writing, Locked
    <2>2. CASE q # p
      <3>1. HandlerRead(q) /\ pc'[q] = pc[q] /\ call'[q] = call[q] /\ resp'[q] = resp[q]
        BY <1>0, <2>2 DEF ReadInv
      <3>2. QED BY <3>1 DEF HandlerRead, HandlerExact, Accepted, Added, LastRead, View, Readable
    <2>3. QED BY <2>1, <2>2
  <1>3. ASSUME NEW id \in OrderIds
        PROVE  /\ RegisteredRead(id) => RegisteredRead(id)'
               /\ RegisteredExact(id) => RegisteredExact(id)'
    BY <1>1 DEF RegisteredRead, RegisteredExact, LastRead
  <1>4. ReadInv'
    BY <1>0, <1>2, <1>3 DEF ReadInv, View, Readable
  <1>5. ExactInv'
    BY <1>0, <1>2, <1>3 DEF ExactInv, LastRead, Readable
  <1>6. QED BY <1>4, <1>5

\* New calls, and the steps that read the order and decide.
LEMMA LogReads ==
    ASSUME EMSInv, NEW p \in Procs,
           \/ Begin(p) \/ SubmitRetry(p) \/ SubmitCheck(p) \/ CancelState(p)
           \/ TransitionLoad(p) \/ TransitionBlocked(p)
    PROVE  ReadInv' /\ ExactInv'
  <1>0. TypeOK /\ AckInv
    BY DEF EMSInv
  <1>1. /\ UNCHANGED <<phase, orders, heap, lock, wal, walOpen, walFailures, replayed, before>>
        /\ pc[p] \in {"idle", "retry", "check", "cancelState", "load", "lock"}
    BY DEF Begin, SubmitBegin, CancelBegin, ReportBegin, SubmitRetry, SubmitCheck, CancelState,
           TransitionLoad, TransitionBlocked, memory, log, recovery
  <1>2. /\ \A q \in Procs : q # p => pc'[q] = pc[q] /\ call'[q] = call[q] /\ resp'[q] = resp[q]
        /\ pc'[p] \in {"retry", "check", "store", "cancelState", "load", "lock", "done"}
        /\ resp'[p] \in {resp[p], "RETRY", "REJECTED", "NOT_FOUND", "TERMINAL", "ERROR"}
    BY <1>0 DEF Begin, SubmitBegin, CancelBegin, ReportBegin, SubmitRetry, SubmitCheck, CancelState,
           TransitionLoad, TransitionBlocked, ReturnError, Answer, Goto, TypeOK, CallsOK
  <1>3. resp[p] = "none"
    BY <1>0, <1>1 DEF AckInv
  <1>4. QED BY <1>1, <1>2, <1>3, LogQuiet DEF Writing, Locked

\* ForcePause only sets the flag.
LEMMA LogForcePause ==
    ASSUME EMSInv, ForcePause \/ UNCHANGED vars
    PROVE  ReadInv' /\ ExactInv'
  <1>0. ReadInv /\ ExactInv
    BY DEF EMSInv
  <1>1. UNCHANGED <<phase, orders, heap, lock, wal, walOpen, walFailures, replayed, before,
                    pc, call, resp>>
    BY DEF ForcePause, vars, log, recovery
  <1>2. QED BY <1>0, <1>1 DEF ReadInv, ExactInv, Readable, View, RegisteredRead, RegisteredExact,
                HandlerRead, HandlerExact, LastRead, AtAppend, Accepted, Added

\* An append by p of a line for its order: what is read of every other order
\* stays as it was, and the line continues what was read of this one.
LEMMA ReadAppend ==
    ASSUME EMSInv, NEW p \in Procs, NEW line \in Line, NEW ok, NEW failed,
           WalAppend(p, line, ok, failed), phase = "serving",
           UNCHANGED <<phase, orders, heap, lock, call, resp, replayed>>,
           line.id = call[p].id, line.id \in OrderIds,
           \/ pc[p] = "append" /\ ok = "load" /\ failed = "appendFailed"
           \/ pc[p] = "wal" /\ ok = "set" /\ failed = "walFailed",
           NEW new, new = ReadLine(LastRead(line.id), line),
           Readable => /\ new.cum <= new.total
                       /\ new.total = heap[orders[line.id]].total
                       /\ new.cum <= heap[orders[line.id]].cum,
           pc[p] = "wal" <=> line.state # "PENDING",
           \A q \in Procs : q # p /\ pc[q] = "wal" => call[q].id # line.id,
           orders[line.id] # NoRef
    PROVE  ReadInv'
  <1> DEFINE id == line.id
  <1>0. TypeOK /\ LogOK /\ LifecycleInv /\ HandlersInv /\ ReadInv
    BY DEF EMSInv, TypeOK
  <1>1. pc'[p] \in {ok, failed} /\ \A q \in Procs : q # p => pc'[q] = pc[q]
    BY <1>0 DEF WalAppend, Goto, TypeOK, CallsOK
  <1>2. new.state = line.state /\ line.state # "NONE"
    <2>1. line.state # "NONE"
      BY DEF Line, OrderStatus, Fills, Terminal
    <2>2. QED BY <1>0, <2>1, LastReadType, ReadLineType
  <1>3. \A i \in OrderIds : View(i)' = View(i)
    BY DEF View
  <1>4. ASSUME NEW q \in Procs, resp'[q] = "SUBMITTED", phase' = "serving"
        PROVE  View(call[q].id)'.state \notin {"NONE", "PENDING"}
    <2>1. View(call[q].id).state \notin {"NONE", "PENDING"}
      BY <1>0, <1>4 DEF ReadInv, HandlerRead
    <2>2. QED BY <2>1 DEF View
  <1>5. CASE ~Readable'
    BY <1>0, <1>4, <1>5 DEF ReadInv, HandlerRead, View
  <1>6. CASE Readable'
    <2>1. /\ Readable
          /\ \/ UNCHANGED wal /\ pc'[p] = failed
             \/ /\ Len(wal') = Len(wal) + 1
                /\ \A i : /\ \A j \in 0..Len(wal) : Reading(wal', i)[j] = Reading(wal, i)[j]
                          /\ Reading(wal', i)[Len(wal')] = ReadFor(i, LastRead(i), line)
      BY <1>0, <1>6, AppendReads DEF Goto, TypeOK, CallsOK
    <2>2. \A i \in OrderIds : i # id => LastRead(i)' = LastRead(i)
      BY <2>1 DEF LastRead, ReadFor
    <2>3. LastRead(id)' = new \/ (LastRead(id)' = LastRead(id) /\ UNCHANGED wal /\ pc'[p] = failed)
      BY <2>1 DEF LastRead, ReadFor
    <2>4. ASSUME NEW i \in OrderIds, NEW j \in 0..Len(wal')
          PROVE  Reading(wal', i)[j].cum <= Reading(wal', i)[j].total
      <3>0. Len(wal) \in Nat /\ Len(wal) \in 0..Len(wal)
            /\ \A k \in 0..Len(wal) : Reading(wal, i)[k].cum <= Reading(wal, i)[k].total
        BY <1>0, <2>1 DEF ReadInv, LogOK
      <3>1. CASE UNCHANGED wal
        BY <3>0, <3>1
      <3>2. CASE ~UNCHANGED wal /\ j \in 0..Len(wal)
        BY <2>1, <3>0, <3>2
      <3>3. CASE ~UNCHANGED wal /\ j \notin 0..Len(wal)
        <4>1. j = Len(wal')
          BY <2>1, <3>0, <3>3
        <4>2. CASE i = id
          BY <2>1, <2>3, <3>3, <4>1, <4>2 DEF LastRead
        <4>3. CASE i # id
          <5>1. Reading(wal', i)[j] = Reading(wal, i)[Len(wal)]
            BY <2>2, <4>1, <4>3 DEF LastRead
          <5>2. QED BY <3>0, <5>1
        <4>4. QED BY <4>2, <4>3
      <3>4. QED BY <3>1, <3>2, <3>3
    <2>5. ASSUME NEW i \in OrderIds PROVE RegisteredRead(i)'
      <3>0. RegisteredRead(i)
        BY <1>0, <2>1 DEF ReadInv
      <3>1. CASE i # id
        <4>1. orders[i] = p => i = id
          <5>1. orders[i] # NoRef => Belongs(orders[i], i)
            BY <1>0 DEF HandlersInv
          <5>2. QED BY <5>1 DEF Belongs, Owner
        <4>2. orders[i] # NoRef => orders[i] # p
          BY <3>1, <4>1
        <4>3. orders[i] # NoRef => (AtAppend(orders[i]) => AtAppend(orders[i])')
          BY <1>1, <4>2 DEF AtAppend
        <4>4. QED BY <2>2, <3>0, <3>1, <4>3 DEF RegisteredRead
      <3>2. CASE i = id /\ LastRead(id)' = new
        BY <1>2, <2>1, <3>2 DEF RegisteredRead
      <3>3. CASE i = id /\ LastRead(id)' = LastRead(id) /\ pc'[p] = failed
        <4>1. CASE pc[p] = "append"
          <5>0. HandlerOK(p)
            BY <1>0 DEF HandlersInv
          <5>1. orders[id] = p
            BY <4>1, <5>0 DEF HandlerOK
          <5>2. QED BY <3>3, <4>1, <5>1 DEF RegisteredRead, AtAppend
        <4>2. CASE pc[p] = "wal"
          <5>0. HandlerOK(p) /\ pc[p] \in Locked
            BY <1>0, <4>2 DEF HandlersInv, Locked
          <5>1. lock[call[p].ref] = p /\ orders[id] = call[p].ref
            BY <1>0, <5>0 DEF LifecycleInv, HandlerOK
          <5>2. ~AtAppend(orders[id])
            <6>1. ASSUME NEW s \in Procs, s = orders[id], pc[s] \in {"append", "appendFailed"}
                  PROVE  FALSE
              <7>1. HandlerOK(s)
                BY <1>0 DEF HandlersInv
              <7>2. lock[s] = NoProc
                BY <6>1, <7>1 DEF HandlerOK
              <7>3. QED BY <5>1, <6>1, <7>2
            <6>2. QED BY <6>1 DEF AtAppend
          <5>3. QED BY <3>0, <3>3, <5>2 DEF RegisteredRead
        <4>3. QED BY <4>1, <4>2
      <3>4. QED BY <2>3, <3>1, <3>2, <3>3
    <2>6. ASSUME NEW q \in Procs PROVE HandlerRead(q)'
      <3>0. HandlerRead(q) /\ (pc[q] # "idle" => call[q].id \in OrderIds)
        BY <1>0 DEF ReadInv, TypeOK, CallsOK, Call
      <3>1. ASSUME pc'[q] = "wal"
            PROVE  LastRead(call[q].id)'.cum + Added(q)' <= heap'[call'[q].ref].cum
        <4>1. q # p /\ pc[q] = "wal"
          BY <1>1, <3>1
        <4>2. call[q].id # id
          BY <4>1
        <4>3. LastRead(call[q].id)' = LastRead(call[q].id)
          BY <2>2, <3>0, <4>1, <4>2 DEF LastRead
        <4>4. QED BY <2>1, <3>0, <4>1, <4>3 DEF HandlerRead, Added
      <3>2. ASSUME Accepted(q)'
            PROVE  LastRead(call[q].id)'.state \notin {"NONE", "PENDING"}
        <4>1. CASE q = p /\ resp[q] # "SUBMITTED"
          <5>1. pc'[p] = "set" /\ pc[p] = "wal" /\ failed = "walFailed"
            BY <1>1, <3>2, <4>1 DEF Accepted
          <5>2. LastRead(id)' = new
            BY <2>3, <5>1
          <5>3. QED BY <1>2, <4>1, <5>1, <5>2 DEF LastRead
        <4>2. CASE ~(q = p /\ resp[q] # "SUBMITTED")
          <5>1. Accepted(q) /\ pc[q] # "idle"
            BY <1>0, <1>1, <3>2, <4>2 DEF Accepted, EMSInv, AckInv
          <5>2. LastRead(call[q].id).state \notin {"NONE", "PENDING"}
            BY <2>1, <3>0, <5>1 DEF HandlerRead
          <5>3. CASE call[q].id # id
            BY <2>2, <3>0, <5>1, <5>2, <5>3 DEF LastRead
          <5>4. CASE call[q].id = id /\ LastRead(id)' = LastRead(id)
            BY <5>2, <5>4 DEF LastRead
          <5>5. CASE call[q].id = id /\ LastRead(id)' = new
            <6>1. pc[p] = "wal"
              <7>1. ASSUME pc[p] = "append" PROVE FALSE
                <8>0. HandlerOK(p)
                  BY <1>0 DEF HandlersInv
                <8>1. \A k \in DOMAIN wal : wal[k].id # id
                  BY <7>1, <8>0 DEF HandlerOK
                <8>2. LastRead(id) = NoRuntime
                  BY <1>0, <8>1, ReadingNone DEF LastRead, LogOK
                <8>3. QED BY <5>2, <5>5, <8>2 DEF NoRuntime
              <7>2. QED BY <7>1
            <6>2. QED BY <1>2, <5>5, <6>1 DEF LastRead
          <5>6. QED BY <2>3, <5>3, <5>4, <5>5
        <4>3. QED BY <4>1, <4>2
      <3>3. QED BY <1>4, <3>1, <3>2 DEF HandlerRead
    <2>7. QED BY <1>0, <2>4, <2>5, <2>6 DEF ReadInv
  <1>7. QED BY <1>5, <1>6

\* An append of an order's next line keeps log and memory in step.
LEMMA ExactAppend ==
    ASSUME EMSInv, NEW p \in Procs, NEW line \in Line, NEW ok, NEW failed,
           WalAppend(p, line, ok, failed), phase = "serving", line.ok,
           UNCHANGED <<phase, orders, heap, lock, call, resp>>,
           line.id = call[p].id, line.id \in OrderIds,
           \/ pc[p] = "append" /\ ok = "load" /\ failed = "appendFailed"
           \/ pc[p] = "wal" /\ ok = "set" /\ failed = "walFailed",
           NEW new, new = ReadLine(LastRead(line.id), line),
           walFailures = 0 =>
               /\ pc[p] = "append" => orders[line.id] = p /\ heap[p] = new
               /\ pc[p] = "wal" => /\ orders[line.id] # NoRef
                                   /\ lock[orders[line.id]] # NoProc
                                   /\ new.state = call[p].next
                                   /\ new.cum = heap[call[p].ref].cum
               /\ \A q \in Procs : resp[q] = "CANCELED" => call[q].id # line.id,
           \A q \in Procs : q # p /\ pc[q] \in {"wal", "set"} => call[q].id # line.id
    PROVE  ExactInv'
  <1> DEFINE id == line.id
  <1> SUFFICES ASSUME walFailures' = 0
               PROVE  /\ Readable' /\ ~walOpen'
                      /\ \A i \in OrderIds : RegisteredExact(i)'
                      /\ \A q \in Procs : HandlerExact(q)'
    BY DEF ExactInv
  <1>0. TypeOK /\ LogOK /\ LifecycleInv /\ AckInv /\ HandlersInv
    BY DEF EMSInv, TypeOK
  <1>1. AppendOk(line) /\ Goto(p, ok) /\ walFailures = 0
    BY <1>0 DEF WalAppend, AppendFails, AppendOk, LogOK
  <1>2. /\ Readable /\ ~walOpen
        /\ \A i \in OrderIds : RegisteredExact(i)
        /\ \A q \in Procs : HandlerExact(q)
    BY <1>1 DEF EMSInv, ExactInv
  <1>3. pc'[p] = ok /\ \A q \in Procs : q # p => pc'[q] = pc[q]
    BY <1>0, <1>1 DEF Goto, TypeOK, CallsOK
  <1>4. wal' = Append(wal, line) /\ walOpen' = FALSE
    BY <1>1, <1>2 DEF AppendOk, Write
  <1>5. Readable'
    BY <1>0, <1>2, <1>4 DEF Readable, LogOK
  <1>6. /\ \A i \in OrderIds : i # id => LastRead(i)' = LastRead(i)
        /\ LastRead(id)' = new
    <2>1. \A i : Reading(wal', i)[Len(wal')] = ReadFor(i, LastRead(i), line)
      <3>1. \/ UNCHANGED wal
            \/ \A i : Reading(wal', i)[Len(wal')] = ReadFor(i, LastRead(i), line)
        BY <1>0, <1>5, AppendReads
      <3>2. Len(wal') # Len(wal)
        BY <1>0, <1>4 DEF LogOK
      <3>3. QED BY <3>1, <3>2
    <2>2. QED BY <2>1 DEF LastRead, ReadFor
  <1>7. ASSUME NEW i \in OrderIds PROVE RegisteredExact(i)'
    <2>0. RegisteredExact(i)
      BY <1>2
    <2>1. CASE i # id
      <3>1. orders[i] = p => i = id
        <4>1. orders[i] # NoRef => Belongs(orders[i], i)
          BY <1>0 DEF HandlersInv
        <4>2. QED BY <4>1 DEF Belongs, Owner
      <3>2. orders[i] # NoRef => (AtAppend(orders[i]) => AtAppend(orders[i])')
        BY <1>3, <2>1, <3>1 DEF AtAppend
      <3>3. QED BY <1>6, <2>0, <2>1, <3>2 DEF RegisteredExact
    <2>2. CASE i = id
      BY <1>1, <1>6, <2>2 DEF RegisteredExact
    <2>3. QED BY <2>1, <2>2
  <1>8. ASSUME NEW q \in Procs PROVE HandlerExact(q)'
    <2>0. HandlerExact(q) /\ (pc[q] # "idle" => call[q].id \in OrderIds)
      BY <1>0, <1>2 DEF TypeOK, CallsOK, Call
    <2>1. ASSUME resp'[q] = "CANCELED"
          PROVE  /\ LastRead(call[q].id)'.state = "CANCELED"
                 /\ phase' = "serving" => View(call[q].id)'.state = "CANCELED"
      <3>1. LastRead(call[q].id).state = "CANCELED" /\ View(call[q].id).state = "CANCELED"
        BY <2>0, <2>1 DEF HandlerExact
      <3>2. pc[q] # "idle" /\ call[q].id # id
        BY <1>0, <1>1, <2>1 DEF AckInv
      <3>3. LastRead(call[q].id)' = LastRead(call[q].id)
        BY <1>6, <2>0, <3>2 DEF LastRead
      <3>4. View(call[q].id)' = View(call[q].id)
        BY DEF View
      <3>5. QED BY <3>1, <3>3, <3>4
    <2>2. CASE q = p
      <3>1. pc'[q] = ok /\ (ok = "set" => pc[p] = "wal")
        BY <1>3, <2>2
      <3>2. pc'[q] = "set" => /\ LastRead(call[q].id)'.state = call'[q].next
                              /\ LastRead(call[q].id)'.cum = heap'[call'[q].ref].cum
        BY <1>1, <1>6, <2>2, <3>1 DEF LastRead
      <3>3. QED BY <2>1, <3>1, <3>2 DEF HandlerExact
    <2>3. CASE q # p
      <3>1. pc[q] \in {"wal", "set"} => LastRead(call[q].id)' = LastRead(call[q].id)
        BY <1>6, <2>0, <2>3 DEF LastRead
      <3>2. pc'[q] = pc[q] /\ UNCHANGED call /\ UNCHANGED heap
        BY <1>3, <2>3
      <3>3. QED BY <2>0, <2>1, <3>1, <3>2 DEF HandlerExact, Added
    <2>4. QED BY <2>2, <2>3
  <1>9. QED BY <1>4, <1>5, <1>7, <1>8

\* SubmitOrder logs PENDING.
LEMMA LogSubmitAppend ==
    ASSUME EMSInv, NEW p \in Procs, SubmitAppend(p)
    PROVE  ReadInv' /\ ExactInv'
  <1> DEFINE id == call[p].id
             line == Event(id, "PENDING", 0, call[p].total)
             new == ReadLine(LastRead(id), line)
  <1>0. TypeOK /\ LogOK /\ LifecycleInv /\ HandlersInv
    BY DEF EMSInv, TypeOK
  <1>1. pc[p] = "append" /\ phase = "serving" /\ call[p] \in Call
    BY <1>0, StepServing DEF SubmitAppend, TypeOK, CallsOK
  <1>2. id \in OrderIds /\ line \in Line /\ line.id = id /\ line.state = "PENDING"
        /\ line.ok /\ line.total = call[p].total /\ call[p].total \in Nat
    BY <1>1 DEF Call, Event, Line, OrderStatus
  <1>3. /\ WalAppend(p, line, "load", "appendFailed")
        /\ UNCHANGED <<phase, orders, heap, lock, call, resp, replayed>>
    BY DEF SubmitAppend, recovery, memory
  <1>4. HandlerOK(p)
    BY <1>0 DEF HandlersInv
  <1>5. /\ orders[id] = p
        /\ heap[p] = [state |-> "PENDING", total |-> call[p].total, cum |-> 0]
        /\ \A i \in DOMAIN wal : wal[i].id # id
    BY <1>1, <1>4 DEF HandlerOK
  <1>6. LastRead(id) = NoRuntime
    BY <1>0, <1>5, ReadingNone DEF LastRead, LogOK
  <1>7. new = [state |-> "PENDING", total |-> call[p].total, cum |-> 0]
    BY <1>2, <1>6 DEF ReadLine, NoRuntime
  <1>8. /\ new.cum <= new.total /\ new.total = heap[orders[id]].total
        /\ new.cum <= heap[orders[id]].cum /\ orders[id] # NoRef /\ heap[p] = new
    BY <1>2, <1>5, <1>7
  <1>9. \A q \in Procs : q # p /\ pc[q] \in {"wal", "set"} => call[q].id # id
    BY <1>0, <1>1, WritersApart DEF Locked
  <1>10. walFailures = 0 => \A q \in Procs : resp[q] = "CANCELED" => call[q].id # id
    BY <1>6 DEF EMSInv, ExactInv, HandlerExact, NoRuntime
  <1>11. new = ReadLine(LastRead(line.id), line)
    BY <1>2
  <1> HIDE DEF new, line
  <1>12. ReadInv'
    BY <1>1, <1>2, <1>3, <1>8, <1>9, <1>11, ReadAppend
  <1>13. ExactInv'
    BY <1>1, <1>2, <1>3, <1>5, <1>8, <1>9, <1>10, <1>11, ExactAppend
  <1>14. QED BY <1>12, <1>13

\* CANCELED is the end of an order.
LEMMA CanceledIsFinal == \A state : ~isValidTransition("CANCELED", state)
  BY DEF isValidTransition

\* TransitionState logs its event.
LEMMA LogTransitionAppend ==
    ASSUME EMSInv, NEW p \in Procs, TransitionAppend(p)
    PROVE  ReadInv' /\ ExactInv'
  <1> DEFINE id == call[p].id
             r == call[p].ref
             line == Event(id, call[p].next, call[p].delta, 0)
             new == ReadLine(LastRead(id), line)
  <1>0. TypeOK /\ LogOK /\ LifecycleInv /\ HandlersInv /\ ReadInv /\ MemoryOK
    BY DEF EMSInv, TypeOK
  <1>1. pc[p] = "wal" /\ pc[p] \in Locked /\ phase = "serving" /\ call[p] \in Call
    BY <1>0, StepServing DEF TransitionAppend, TypeOK, CallsOK, Locked
  <1>2. id \in OrderIds /\ line \in Line /\ line.id = id /\ line.state = call[p].next
        /\ line.ok /\ line.delta = call[p].delta /\ call[p].delta \in Nat
    BY <1>1 DEF Call, Event, Line
  <1>3. /\ WalAppend(p, line, "set", "walFailed")
        /\ UNCHANGED <<phase, orders, heap, lock, call, resp, replayed>>
    BY DEF TransitionAppend, recovery, memory
  <1>4. /\ HandlerOK(p) /\ lock[r] = p /\ r \in Refs
        /\ isValidTransition(heap[r].state, call[p].next)
    BY <1>0, <1>1 DEF HandlersInv, LifecycleInv, TypeOK, CallsOK, Locked, Dereferences
  <1>5. orders[id] = r /\ ~AtAppend(r)
    <2>1. orders[id] = r
      BY <1>1, <1>4 DEF HandlerOK
    <2>2. ASSUME NEW s \in Procs, s = r, pc[s] \in {"append", "appendFailed"} PROVE FALSE
      <3>1. HandlerOK(s)
        BY <1>0 DEF HandlersInv
      <3>2. lock[s] = NoProc
        BY <2>2, <3>1 DEF HandlerOK
      <3>3. QED BY <1>4, <2>2, <3>2
    <2>3. QED BY <2>1, <2>2 DEF AtAppend
  <1>6. heap[r].cum \in Nat /\ heap[r].total \in Nat /\ heap[r].cum <= heap[r].total
    BY <1>0, <1>4 DEF ReadInv, MemoryOK, Runtime
  <1>7. LastRead(id) \in Runtime /\ LastRead(id).cum \in Nat
    BY <1>0, LastReadType
  <1>8. Readable => /\ LastRead(id).state # "NONE" /\ LastRead(id).total = heap[r].total
                    /\ LastRead(id).cum + Added(p) <= heap[r].cum
    <2>1. Readable => RegisteredRead(id) /\ HandlerRead(p)
      BY <1>0, <1>1, <1>2 DEF ReadInv
    <2>2. QED BY <1>1, <1>4, <1>5, <2>1 DEF RegisteredRead, HandlerRead
  <1>9. /\ new.state = call[p].next
        /\ LastRead(id).state # "NONE" => /\ new.total = LastRead(id).total
                                          /\ new.cum = LastRead(id).cum + Added(p)
    <2> HIDE DEF line
    <2>1. QED BY <1>2, <1>7, ReadLineType DEF Added
  <1>10. call[p].next # "PENDING"
    BY <1>4 DEF isValidTransition, Fills
  <1>11. \A q \in Procs : q # p /\ pc[q] \in {"wal", "set"} => call[q].id # id
    BY <1>0, <1>1, WritersApart DEF Locked
  <1>12. walFailures = 0 =>
            /\ new.cum = heap[r].cum
            /\ \A q \in Procs : resp[q] = "CANCELED" => call[q].id # id
    <2> SUFFICES ASSUME walFailures = 0
                 PROVE  /\ new.cum = heap[r].cum
                        /\ \A q \in Procs : resp[q] = "CANCELED" => call[q].id # id
      OBVIOUS
    <2>1. Readable /\ \A q \in Procs : HandlerExact(q)
      BY DEF EMSInv, ExactInv
    <2>2. LastRead(id).state = heap[r].state /\ LastRead(id).cum + Added(p) = heap[r].cum
      BY <1>1, <2>1 DEF HandlerExact
    <2>3. heap[r].state # "CANCELED"
      BY <1>4, CanceledIsFinal
    <2>4. QED BY <1>8, <1>9, <2>1, <2>2, <2>3 DEF HandlerExact
  <1>13. Readable => /\ new.cum <= new.total /\ new.total = heap[orders[id]].total
                     /\ new.cum <= heap[orders[id]].cum
    <2> HIDE DEF new
    <2>1. Added(p) \in Nat
      BY <1>2 DEF Added
    <2>2. QED BY <1>5, <1>6, <1>7, <1>8, <1>9, <2>1
  <1>14. new = ReadLine(LastRead(line.id), line)
    BY <1>2
  <1>15. orders[id] # NoRef /\ lock[orders[id]] # NoProc
    BY <1>4, <1>5
  <1> HIDE DEF new, line
  <1>16. ReadInv'
    BY <1>1, <1>2, <1>3, <1>10, <1>11, <1>13, <1>14, <1>15, ReadAppend
  <1>17. ExactInv'
    BY <1>1, <1>2, <1>3, <1>9, <1>11, <1>12, <1>14, <1>15, ExactAppend
  <1>18. QED BY <1>16, <1>17

\* SubmitOrder registers its object.
LEMMA LogStore ==
    ASSUME EMSInv, NEW p \in Procs, SubmitStore(p)
    PROVE  ReadInv' /\ ExactInv'
  <1> DEFINE id == call[p].id
             new == [state |-> "PENDING", total |-> call[p].total, cum |-> 0]
  <1>0. TypeOK /\ LogOK /\ LifecycleInv /\ HandlersInv /\ AckInv /\ ReadInv /\ ExactInv
    BY DEF EMSInv, TypeOK
  <1>1. pc[p] = "store" /\ phase = "serving" /\ call[p] \in Call /\ heap[p].state = "NONE"
        /\ resp[p] = "none"
    BY <1>0, StepServing DEF SubmitStore, TypeOK, CallsOK, LifecycleInv, AckInv
  <1>2. id \in OrderIds /\ call[p].total \in Nat
    BY <1>1 DEF Call
  <1>3. /\ heap'[p] = new /\ \A r \in Refs : r # p => heap'[r] = heap[r]
        /\ orders'[id] = p /\ \A i \in OrderIds : i # id => orders'[i] = orders[i]
        /\ pc'[p] = "append" /\ \A q \in Procs : q # p => pc'[q] = pc[q]
        /\ UNCHANGED <<phase, lock, wal, walOpen, walFailures, replayed, before, call, resp>>
    BY <1>0, <1>2 DEF SubmitStore, Goto, TypeOK, CallsOK, MemoryOK, log, recovery
  <1>4. orders[id] = NoRef
    BY <1>0, <1>1 DEF HandlersInv, HandlerOK
  <1>5. Readable' = Readable /\ \A i : LastRead(i)' = LastRead(i)
    BY <1>3 DEF Readable, LastRead
  <1>6. ASSUME NEW i \in OrderIds, i # id
        PROVE  /\ orders'[i] = orders[i] /\ View(i)' = View(i)
               /\ orders[i] # NoRef => /\ heap'[orders[i]] = heap[orders[i]]
                                       /\ AtAppend(orders[i])' = AtAppend(orders[i])
    <2>1. orders'[i] = orders[i]
      BY <1>3, <1>6
    <2>2. orders[i] # NoRef => orders[i] \in Refs /\ orders[i] # p
      BY <1>0, <1>1 DEF HandlersInv, Belongs, TypeOK, MemoryOK
    <2>3. orders[i] # NoRef => heap'[orders[i]] = heap[orders[i]]
      BY <1>3, <2>2
    <2>4. orders[i] # NoRef => AtAppend(orders[i])' = AtAppend(orders[i])
      BY <1>3, <2>1, <2>2 DEF AtAppend
    <2>5. QED BY <2>1, <2>3, <2>4 DEF View
  <1>7. ASSUME NEW i \in OrderIds
        PROVE  /\ RegisteredRead(i) => RegisteredRead(i)'
               /\ RegisteredExact(i) => RegisteredExact(i)'
    <2>1. CASE i = id
      BY <1>3, <2>1 DEF RegisteredRead, RegisteredExact, AtAppend
    <2>2. CASE i # id
      BY <1>3, <1>5, <1>6, <2>2 DEF RegisteredRead, RegisteredExact
    <2>3. QED BY <2>1, <2>2
  <1>8. ASSUME NEW q \in Procs
        PROVE  HandlerRead(q) => HandlerRead(q)' /\ (HandlerExact(q) => HandlerExact(q)')
    <2>1. CASE q = p
      BY <1>1, <1>3, <2>1 DEF HandlerRead, HandlerExact, Accepted
    <2>2. CASE q # p
      <3>1. pc'[q] = pc[q] /\ call'[q] = call[q] /\ resp'[q] = resp[q]
            /\ (pc[q] # "idle" => call[q].id \in OrderIds)
        BY <1>0, <1>3, <2>2 DEF TypeOK, CallsOK, Call
      <3>2. pc[q] \in Locked => heap'[call[q].ref] = heap[call[q].ref]
        BY <1>0, <1>1, <1>3, <2>2, WritersApart
      <3>3. ASSUME resp[q] \in {"SUBMITTED", "CANCELED"}, View(call[q].id).state # "NONE"
            PROVE  View(call[q].id)' = View(call[q].id)
        <4>1. call[q].id \in OrderIds
          BY <1>0, <3>1, <3>3 DEF AckInv
        <4>2. call[q].id # id
          BY <1>4, <3>3 DEF View, NoRuntime
        <4>3. QED BY <1>6, <3>1, <4>1, <4>2 DEF View
      <3>4. LastRead(call[q].id)' = LastRead(call[q].id)
        BY <1>3 DEF LastRead
      <3>5. pc[q] \in {"wal", "set"} => pc[q] \in Locked
        BY DEF Locked
      <3>6. HandlerRead(q) => HandlerRead(q)'
        BY <1>3, <1>5, <3>1, <3>2, <3>3, <3>4, <3>5 DEF HandlerRead, Accepted, Added
      <3>7. HandlerExact(q) => HandlerExact(q)'
        BY <1>1, <1>3, <3>1, <3>2, <3>3, <3>4, <3>5 DEF HandlerExact, Added
      <3>8. QED BY <3>6, <3>7
    <2>3. QED BY <2>1, <2>2
  <1>9. \A r \in Refs : heap'[r].cum <= heap'[r].total
    <2>1. new.cum <= new.total
      BY <1>2
    <2>2. QED BY <1>0, <1>3, <2>1 DEF ReadInv
  <1>10. ReadInv'
    BY <1>0, <1>1, <1>3, <1>5, <1>7, <1>8, <1>9 DEF ReadInv
  <1>11. ExactInv'
    BY <1>0, <1>1, <1>3, <1>5, <1>7, <1>8 DEF ExactInv, ReadInv
  <1>12. QED BY <1>10, <1>11

\* SubmitOrder takes its object out again.
LEMMA LogAppendFailed ==
    ASSUME EMSInv, NEW p \in Procs, SubmitAppendFailed(p)
    PROVE  ReadInv' /\ ExactInv'
  <1> DEFINE id == call[p].id
  <1>0. TypeOK /\ LogOK /\ LifecycleInv /\ HandlersInv /\ AckInv /\ ReadInv /\ ExactInv
    BY DEF EMSInv, TypeOK
  <1>1. pc[p] = "appendFailed" /\ phase = "serving" /\ call[p] \in Call
    BY <1>0, StepServing DEF SubmitAppendFailed, TypeOK, CallsOK
  <1>2. id \in OrderIds
    BY <1>1 DEF Call
  <1>3. /\ orders'[id] = NoRef /\ \A i \in OrderIds : i # id => orders'[i] = orders[i]
        /\ pc'[p] = "done" /\ \A q \in Procs : q # p => pc'[q] = pc[q]
        /\ resp'[p] = "REJECTED" /\ \A q \in Procs : q # p => resp'[q] = resp[q]
        /\ UNCHANGED <<phase, heap, lock, wal, walOpen, walFailures, replayed, before, call>>
    BY <1>0, <1>2 DEF SubmitAppendFailed, Answer, Goto, TypeOK, CallsOK, MemoryOK, log, recovery
  <1>4. orders[id] = p /\ heap[p].state = "PENDING"
    <2>1. HandlerOK(p)
      BY <1>0 DEF HandlersInv
    <2>2. orders[id] = p /\ heap[p] = [state |-> "PENDING", total |-> call[p].total, cum |-> 0]
      BY <1>1, <2>1 DEF HandlerOK
    <2>3. QED BY <2>2
  <1>5. Readable' = Readable /\ \A i : LastRead(i)' = LastRead(i)
    BY <1>3 DEF Readable, LastRead
  <1>6. walFailures # 0
    BY <1>0, <1>1 DEF ExactInv, HandlerExact
  <1>7. ASSUME NEW i \in OrderIds, RegisteredRead(i) PROVE RegisteredRead(i)'
    <2>1. CASE i = id
      BY <1>3, <2>1 DEF RegisteredRead
    <2>2. CASE i # id
      <3>1. orders'[i] = orders[i]
        BY <1>3, <2>2
      <3>2. orders[i] # NoRef => Belongs(orders[i], i)
        BY <1>0 DEF HandlersInv
      <3>3. orders[i] # p
        BY <2>2, <3>2 DEF Belongs, Owner
      <3>4. AtAppend(orders[i]) => AtAppend(orders[i])'
        BY <1>3, <3>1, <3>3 DEF AtAppend
      <3>5. QED BY <1>3, <1>5, <1>7, <3>1, <3>4 DEF RegisteredRead
    <2>3. QED BY <2>1, <2>2
  <1>8. ASSUME NEW q \in Procs, HandlerRead(q) PROVE HandlerRead(q)'
    <2>1. CASE q = p
      BY <1>3, <2>1 DEF HandlerRead, Accepted
    <2>2. CASE q # p
      <3>1. pc'[q] = pc[q] /\ call'[q] = call[q] /\ resp'[q] = resp[q]
            /\ (pc[q] # "idle" => call[q].id \in OrderIds)
        BY <1>0, <1>3, <2>2 DEF TypeOK, CallsOK, Call
      <3>2. ASSUME resp[q] = "SUBMITTED" PROVE View(call[q].id)' = View(call[q].id)
        <4>1. call[q].id \in OrderIds /\ View(call[q].id).state # "PENDING"
          BY <1>0, <1>1, <1>8, <3>1, <3>2 DEF AckInv, HandlerRead
        <4>2. call[q].id # id
          BY <1>4, <4>1 DEF View
        <4>3. QED BY <1>3, <3>1, <4>1, <4>2 DEF View
      <3>3. LastRead(call[q].id)' = LastRead(call[q].id)
        BY <1>3 DEF LastRead
      <3>4. QED BY <1>3, <1>5, <1>8, <3>1, <3>2, <3>3 DEF HandlerRead, Accepted, Added
    <2>3. QED BY <2>1, <2>2
  <1>9. ReadInv'
    BY <1>0, <1>1, <1>3, <1>5, <1>7, <1>8 DEF ReadInv
  <1>10. QED BY <1>3, <1>6, <1>9 DEF ExactInv

\* Taking the lock: the fills in memory are ahead of the log by the report.
LEMMA LogLock ==
    ASSUME EMSInv, NEW p \in Procs, TransitionLock(p)
    PROVE  ReadInv' /\ ExactInv'
  <1> DEFINE id == call[p].id
             r == call[p].ref
  <1>0. TypeOK /\ LogOK /\ LifecycleInv /\ HandlersInv /\ AckInv /\ ReadInv /\ ExactInv
    BY DEF EMSInv, TypeOK
  <1>1. pc[p] = "lock" /\ phase = "serving" /\ call[p] \in Call /\ resp[p] = "none"
        /\ lock[r] = NoProc
    BY <1>0, StepServing DEF TransitionLock, TypeOK, CallsOK, AckInv
  <1>2. id \in OrderIds /\ r \in Refs /\ call[p].delta \in Nat
    BY <1>0, <1>1 DEF TypeOK, CallsOK, Call, Dereferences
  <1>3. /\ \A q \in Procs : q # p => pc'[q] = pc[q] /\ call'[q] = call[q]
        /\ pc'[p] = "wal" /\ call'[p].id = id /\ call'[p].ref = r
        /\ call'[p].delta = call[p].delta /\ call'[p].next = NextState(p)
        /\ UNCHANGED <<phase, orders, wal, walOpen, walFailures, replayed, before, resp>>
    <2>1. /\ call' = [call EXCEPT ![p] = [call[p] EXCEPT !.next = NextState(p)]]
          /\ pc' = [pc EXCEPT ![p] = "wal"]
          /\ UNCHANGED <<phase, orders, wal, walOpen, walFailures, replayed, before, resp>>
      BY DEF TransitionLock, Goto, log, recovery
    <2>2. QED BY <1>0, <1>1, <2>1 DEF TypeOK, CallsOK, Call
  <1>4. /\ lock'[r] = p /\ \A s \in Refs : s # r => lock'[s] = lock[s] /\ heap'[s] = heap[s]
        /\ heap'[r].state = heap[r].state /\ heap'[r].total = heap[r].total
        /\ heap'[r].cum = CumQty(p)
    <2>1. heap' = [heap EXCEPT ![r] = [heap[r] EXCEPT !.cum = CumQty(p)]]
          /\ lock' = [lock EXCEPT ![r] = p]
      BY DEF TransitionLock
    <2>2. QED BY <1>0, <1>2, <2>1 DEF TypeOK, MemoryOK, Runtime
  <1>5. orders[id] = r /\ ~AtAppend(r)
    <2>1. HandlersInv'
      BY <1>0, HandlersLock
    <2>2. HandlerOK(p)'
      BY <2>1 DEF HandlersInv
    <2>3. orders[id] = r
      BY <1>3, <2>2 DEF HandlerOK, Locked
    <2>4. ASSUME NEW s \in Procs, s = r, pc[s] \in {"append", "appendFailed"} PROVE FALSE
      <3>1. HandlerOK(s)' /\ pc'[s] = pc[s]
        BY <1>1, <1>3, <2>1, <2>4 DEF HandlersInv
      <3>2. lock'[s] = NoProc
        BY <2>4, <3>1 DEF HandlerOK
      <3>3. QED BY <1>4, <2>4, <3>2
    <2>5. QED BY <2>3, <2>4 DEF AtAppend
  <1>6. /\ heap[r].cum \in Nat /\ heap[r].total \in Nat /\ heap[r].cum <= heap[r].total
        /\ CumQty(p) = heap[r].cum + Added(p)' /\ Added(p)' \in Nat
        /\ CumQty(p) <= heap[r].total
    <2>1. heap[r].cum \in Nat /\ heap[r].total \in Nat /\ heap[r].cum <= heap[r].total
      BY <1>0, <1>2 DEF ReadInv, TypeOK, MemoryOK, Runtime
    <2>2. call'[p].next \in Fills <=> call[p].target \in Fills
      BY <1>3 DEF NextState, Fills
    <2>3. CumQty(p) = heap[r].cum + Added(p)' /\ Added(p)' \in Nat
      BY <1>2, <1>3, <2>2 DEF CumQty, Added
    <2>4. ~(CumQty(p) > heap[r].total /\ call[p].target \in Fills)
      BY DEF TransitionLock, Overfill
    <2>5. QED BY <2>1, <2>2, <2>3, <2>4 DEF Added
  <1>7. Readable' = Readable /\ \A i : LastRead(i)' = LastRead(i)
    BY <1>3 DEF Readable, LastRead
  <1>8. \A i \in OrderIds : View(i)'.state = View(i).state
    <2>1. \A i \in OrderIds : orders[i] # NoRef => orders[i] \in Refs
      BY <1>0 DEF TypeOK, MemoryOK
    <2>2. QED BY <1>3, <1>4, <2>1 DEF View
  <1>9. ASSUME NEW i \in OrderIds
        PROVE  /\ RegisteredRead(i) => RegisteredRead(i)'
               /\ RegisteredExact(i) => RegisteredExact(i)'
    <2>1. orders'[i] = orders[i] /\ (orders[i] # NoRef => orders[i] \in Refs)
      BY <1>0, <1>3 DEF TypeOK, MemoryOK
    <2>2. AtAppend(orders[i]) => AtAppend(orders[i])'
      BY <1>1, <1>3 DEF AtAppend
    <2>3. CASE orders[i] = r
      <3>1. RegisteredExact(i)'
        BY <1>2, <1>4, <2>1, <2>3 DEF RegisteredExact
      <3>2. LastRead(i).cum \in Nat
        BY <1>0, LastReadType
      <3>3. RegisteredRead(i) => RegisteredRead(i)'
        BY <1>2, <1>4, <1>6, <1>7, <2>1, <2>2, <2>3, <3>2 DEF RegisteredRead
      <3>4. QED BY <3>1, <3>3
    <2>4. CASE orders[i] # r
      BY <1>4, <1>7, <2>1, <2>2, <2>4 DEF RegisteredRead, RegisteredExact
    <2>5. QED BY <2>3, <2>4
  <1>10. ASSUME NEW q \in Procs, q # p
         PROVE  /\ HandlerRead(q) => HandlerRead(q)'
                /\ HandlerExact(q) => HandlerExact(q)'
    <2>1. pc'[q] = pc[q] /\ call'[q] = call[q] /\ resp'[q] = resp[q]
          /\ (pc[q] # "idle" => call[q].id \in OrderIds)
      BY <1>0, <1>3, <1>10 DEF TypeOK, CallsOK, Call
    <2>2. pc[q] \in {"wal", "set"} => heap'[call[q].ref] = heap[call[q].ref]
      <3>1. pc[q] \in {"wal", "set"} => lock[call[q].ref] = q /\ call[q].ref \in Refs
        BY <1>0 DEF LifecycleInv, TypeOK, CallsOK, Locked, Dereferences
      <3>2. QED BY <1>1, <1>4, <3>1
    <2>3. resp[q] \in {"SUBMITTED", "CANCELED"} =>
             View(call[q].id)'.state = View(call[q].id).state
      <3>1. resp[q] \in {"SUBMITTED", "CANCELED"} => call[q].id \in OrderIds
        BY <1>0, <2>1 DEF AckInv
      <3>2. QED BY <1>8, <2>1, <3>1 DEF View
    <2>4. LastRead(call[q].id)' = LastRead(call[q].id)
      BY <1>3, <2>1 DEF LastRead
    <2>5. HandlerRead(q) => HandlerRead(q)'
      BY <1>3, <1>7, <2>1, <2>2, <2>3, <2>4 DEF HandlerRead, Accepted, Added
    <2>6. HandlerExact(q) => HandlerExact(q)'
      BY <1>3, <1>7, <2>1, <2>2, <2>3, <2>4 DEF HandlerExact, Added
    <2>7. QED BY <2>5, <2>6
  <1>11. HandlerRead(p)'
    <2>1. Readable => LastRead(id).cum + Added(p)' <= heap'[r].cum
      <3>1. Readable => RegisteredRead(id)
        BY <1>0, <1>1, <1>2 DEF ReadInv
      <3>2. Readable => LastRead(id).cum <= heap[r].cum
        BY <1>2, <1>5, <3>1 DEF RegisteredRead
      <3>3. LastRead(id).cum \in Nat
        BY <1>0, LastReadType
      <3>4. QED BY <1>4, <1>6, <3>2, <3>3
    <2>2. LastRead(call[p].id)' = LastRead(id)
      BY <1>3 DEF LastRead
    <2>3. QED BY <1>1, <1>3, <1>7, <2>1, <2>2 DEF HandlerRead, Accepted
  <1>12. walFailures = 0 => HandlerExact(p)'
    <2>1. walFailures = 0 => RegisteredExact(id)
      BY <1>0, <1>1, <1>2 DEF ExactInv
    <2>2. walFailures = 0 => heap[r] = LastRead(id)
      BY <1>1, <1>2, <1>5, <2>1 DEF RegisteredExact
    <2>3. LastRead(call[p].id)' = LastRead(id)
      BY <1>3 DEF LastRead
    <2>4. QED BY <1>1, <1>3, <1>4, <1>6, <2>2, <2>3 DEF HandlerExact
  <1>13. \A s \in Refs : heap'[s].cum <= heap'[s].total
    BY <1>0, <1>4, <1>6 DEF ReadInv
  <1>14. ReadInv'
    BY <1>0, <1>1, <1>3, <1>7, <1>9, <1>10, <1>11, <1>13 DEF ReadInv
  <1>15. ExactInv'
    BY <1>0, <1>1, <1>3, <1>7, <1>9, <1>10, <1>12 DEF ExactInv
  <1>16. QED BY <1>14, <1>15

\* The end of a transition: memory has caught up with the log, or stays ahead of
\* it because the append failed.
LEMMA LogRelease ==
    ASSUME EMSInv, NEW p \in Procs, TransitionSet(p) \/ TransitionWalFailed(p)
    PROVE  ReadInv' /\ ExactInv'
  <1> DEFINE id == call[p].id
             r == call[p].ref
  <1>0. TypeOK /\ LogOK /\ LifecycleInv /\ HandlersInv /\ AckInv /\ ReadInv /\ ExactInv
    BY DEF EMSInv, TypeOK
  <1>1. pc[p] \in {"set", "walFailed"} /\ pc[p] \in Locked /\ phase = "serving" /\ call[p] \in Call
        /\ ProperTarget(call[p]) /\ resp[p] = "none"
    BY <1>0, StepServing DEF TransitionSet, TransitionWalFailed, TypeOK, CallsOK, Locked, AckInv
  <1>2. id \in OrderIds /\ r \in Refs /\ call[p].next \in OrderStatus /\ call[p].op \in Ops
    BY <1>0, <1>1 DEF TypeOK, CallsOK, Call, Dereferences, Locked
  <1>3. HandlerOK(p) /\ lock[r] = p /\ isValidTransition(heap[r].state, call[p].next)
    BY <1>0, <1>1 DEF HandlersInv, LifecycleInv
  <1>4. /\ orders[id] = r /\ Belongs(r, id)
        /\ call[p].target \notin Fills => call[p].next = call[p].target
    BY <1>1, <1>3 DEF HandlerOK, Locked, Dereferences
  <1>5. call[p].next \notin {"NONE", "PENDING"} /\ heap[r].state # "CANCELED"
    BY <1>3, CanceledIsFinal DEF isValidTransition, Fills
  <1>6. UNCHANGED <<phase, orders, wal, walOpen, walFailures, replayed, before>>
    BY DEF TransitionSet, TransitionWalFailed, log, recovery
  <1>7. /\ lock'[r] = NoProc /\ \A s \in Refs : s # r => lock'[s] = lock[s] /\ heap'[s] = heap[s]
        /\ heap'[r].cum = heap[r].cum /\ heap'[r].total = heap[r].total /\ heap'[r] \in Runtime
        /\ heap'[r].state = call[p].next \/ (heap'[r] = heap[r] /\ pc[p] = "walFailed")
    <2>0. heap[r] \in Runtime
      BY <1>0, <1>2 DEF TypeOK, MemoryOK
    <2>1. lock' = [lock EXCEPT ![r] = NoProc]
      BY DEF TransitionSet, TransitionWalFailed, Unlock
    <2>2. CASE heap' = [heap EXCEPT ![r] = [heap[r] EXCEPT !.state = call[p].next]]
      BY <1>0, <1>2, <2>0, <2>1, <2>2 DEF TypeOK, MemoryOK, Runtime
    <2>3. CASE UNCHANGED heap /\ pc[p] = "walFailed"
      BY <1>0, <1>2, <2>0, <2>1, <2>3 DEF TypeOK, MemoryOK
    <2>4. QED BY <2>2, <2>3 DEF TransitionSet, TransitionWalFailed, SetState
  <1>8. /\ \A q \in Procs : q # p => pc'[q] = pc[q] /\ call'[q] = call[q] /\ resp'[q] = resp[q]
        /\ pc'[p] \in {"done", "load"} /\ call'[p].id = id
        /\ resp'[p] = "SUBMITTED" => /\ call[p].op = "submit" /\ pc[p] = "set"
                                     /\ heap'[r].state = call[p].next
        /\ resp'[p] = "CANCELED" => /\ call[p].next = "CANCELED"
                                    /\ heap'[r].state = call[p].next
    <2>0. /\ pc \in [Procs -> ControlState] /\ call \in [Procs -> Call \cup {NoCall}]
          /\ resp \in [Procs -> Answers]
      BY <1>0 DEF TypeOK, CallsOK
    <2>1. CASE ReturnError(p)
      BY <2>0, <2>1 DEF ReturnError, Answer, Goto
    <2>2. CASE ReturnOk(p) /\ call[p].target = "PENDING_CANCEL"
      <3>1. /\ call' = [call EXCEPT ![p] = [call[p] EXCEPT !.target = "CANCELED"]]
            /\ pc' = [pc EXCEPT ![p] = "load"] /\ resp' = resp
        BY <2>2 DEF ReturnOk, Goto
      <3>2. QED BY <1>1, <2>0, <3>1 DEF Call
    <2>3. CASE ReturnOk(p) /\ call[p].target # "PENDING_CANCEL" /\ ~ReturnError(p)
      <3>1. /\ call' = call /\ pc' = [pc EXCEPT ![p] = "done"]
            /\ \A q \in Procs : q # p => resp'[q] = resp[q]
            /\ resp'[p] = IF call[p].op = "report" THEN "OK" ELSE call[p].target
        BY <2>0, <2>3 DEF ReturnOk, Answer, Goto
      <3>2. /\ resp'[p] = "SUBMITTED" => call[p].op = "submit"
            /\ resp'[p] = "CANCELED" => call[p].target = "CANCELED"
        BY <1>1, <1>2, <2>3, <3>1 DEF ProperTarget, Ops
      <3>3. call[p].op = "submit" => Opens(call[p].next)
        BY <1>0, <1>1 DEF AckInv, Opens
      <3>4. pc[p] = "set" \/ ~Opens(call[p].next)
        BY <2>3 DEF TransitionSet, TransitionWalFailed
      <3>5. heap' = [heap EXCEPT ![r] = [heap[r] EXCEPT !.state = call[p].next]]
        BY <2>3 DEF TransitionSet, TransitionWalFailed, SetState
      <3>6. heap'[r].state = call[p].next
        BY <1>0, <1>2, <3>5 DEF TypeOK, MemoryOK, Runtime
      <3>7. QED BY <1>1, <1>4, <2>0, <3>1, <3>2, <3>3, <3>4, <3>6 DEF Fills
    <2>4. QED BY <2>1, <2>2, <2>3 DEF TransitionSet, TransitionWalFailed
  <1>9. /\ Readable' = Readable /\ \A i : LastRead(i)' = LastRead(i)
        /\ \A x : AtAppend(x)' = AtAppend(x)
    BY <1>1, <1>6, <1>8 DEF Readable, LastRead, AtAppend
  <1>10. \A i \in OrderIds : orders[i] = r => i = id
    <2>1. \A i \in OrderIds : orders[i] = r => Belongs(r, i)
      BY <1>0, <1>2 DEF HandlersInv
    <2>2. QED BY <1>4, <2>1 DEF Belongs
  <1>11. \A i \in OrderIds : i # id => View(i)' = View(i)
    <2>1. \A i \in OrderIds : orders[i] # NoRef => orders[i] \in Refs
      BY <1>0 DEF TypeOK, MemoryOK
    <2>2. QED BY <1>6, <1>7, <1>10, <2>1 DEF View
  <1>12. View(id).state = heap[r].state /\ \A v : (v = id => View(v)'.state = heap'[r].state)
    BY <1>2, <1>4, <1>6 DEF View
  <1>13. ASSUME NEW i \in OrderIds PROVE RegisteredRead(i) => RegisteredRead(i)'
    <2>1. orders[i] # NoRef => orders[i] \in Refs
      BY <1>0 DEF TypeOK, MemoryOK
    <2>2. QED BY <1>6, <1>7, <1>9, <2>1 DEF RegisteredRead
  <1>14. ASSUME NEW i \in OrderIds, walFailures = 0 PROVE RegisteredExact(i)'
    <2>0. RegisteredExact(i) /\ HandlerExact(p) /\ Readable /\ RegisteredRead(i)
      BY <1>0, <1>1, <1>14 DEF ExactInv, ReadInv
    <2>1. CASE orders[i] = r
      <3>1. i = id
        BY <1>10, <2>1
      <3>2. pc[p] = "set" /\ LastRead(id).state = call[p].next /\ LastRead(id).cum = heap[r].cum
        BY <1>1, <2>0 DEF HandlerExact
      <3>3. ~AtAppend(r)
        <4>1. ASSUME NEW s \in Procs, s = r, pc[s] \in {"append", "appendFailed"} PROVE FALSE
          <5>1. HandlerOK(s)
            BY <1>0 DEF HandlersInv
          <5>2. lock[s] = NoProc
            BY <4>1, <5>1 DEF HandlerOK
          <5>3. QED BY <1>3, <4>1, <5>2
        <4>2. QED BY <4>1 DEF AtAppend
      <3>4. LastRead(id).total = heap[r].total
        BY <1>2, <2>0, <2>1, <3>1, <3>3 DEF RegisteredRead
      <3>5. LastRead(id) \in Runtime
        BY <1>0, LastReadType
      <3>6. heap'[r] = LastRead(id)
        BY <1>7, <3>2, <3>4, <3>5 DEF Runtime
      <3>7. LastRead(i)' = LastRead(id)
        BY <1>9, <3>1
      <3>8. QED BY <1>2, <1>6, <2>1, <3>6, <3>7 DEF RegisteredExact
    <2>2. CASE orders[i] # r
      <3>1. orders[i] # NoRef => orders[i] \in Refs
        BY <1>0 DEF TypeOK, MemoryOK
      <3>2. QED BY <1>6, <1>7, <1>9, <2>0, <2>2, <3>1 DEF RegisteredExact
    <2>3. QED BY <2>1, <2>2
  <1>15. ASSUME NEW q \in Procs, q # p
         PROVE  /\ HandlerRead(q) => HandlerRead(q)'
                /\ HandlerExact(q) => HandlerExact(q)'
    <2>1. pc'[q] = pc[q] /\ call'[q] = call[q] /\ resp'[q] = resp[q]
          /\ (resp[q] \in {"SUBMITTED", "CANCELED"} => call[q].id \in OrderIds)
      BY <1>0, <1>8, <1>15 DEF TypeOK, CallsOK, Call, AckInv
    <2>2. pc[q] \in {"wal", "set"} => heap'[call[q].ref] = heap[call[q].ref]
      <3>1. pc[q] \in {"wal", "set"} => lock[call[q].ref] = q /\ call[q].ref \in Refs
        BY <1>0 DEF LifecycleInv, TypeOK, CallsOK, Locked, Dereferences
      <3>2. QED BY <1>3, <1>7, <1>15, <3>1
    <2>3. ASSUME resp[q] = "SUBMITTED", View(call[q].id).state \notin {"NONE", "PENDING"}
          PROVE  View(call[q].id)'.state \notin {"NONE", "PENDING"}
      <3>1. CASE call[q].id = id
        <4>1. heap'[r].state \notin {"NONE", "PENDING"}
          BY <1>5, <1>7, <1>12, <2>3, <3>1
        <4>2. QED BY <1>4, <1>6, <1>2, <2>1, <3>1, <4>1 DEF View
      <3>2. CASE call[q].id # id
        BY <1>11, <2>1, <2>3, <3>2 DEF View
      <3>3. QED BY <3>1, <3>2
    <2>4. ASSUME resp[q] = "CANCELED", View(call[q].id).state = "CANCELED"
          PROVE  View(call[q].id)'.state = "CANCELED"
      <3>1. call[q].id # id
        BY <1>5, <1>12, <2>4
      <3>2. QED BY <1>11, <2>1, <2>4, <3>1 DEF View
    <2>5. LastRead(call[q].id)' = LastRead(call[q].id)
      BY <1>6, <2>1 DEF LastRead
    <2>6. HandlerRead(q) => HandlerRead(q)'
      BY <1>6, <1>9, <2>1, <2>2, <2>3, <2>5 DEF HandlerRead, Accepted, Added
    <2>7. HandlerExact(q) => HandlerExact(q)'
      BY <1>1, <1>6, <1>9, <2>1, <2>2, <2>4, <2>5 DEF HandlerExact, Added
    <2>8. QED BY <2>6, <2>7
  <1>16. View(call[p].id)'.state = heap'[r].state /\ LastRead(call[p].id)' = LastRead(id)
    BY <1>2, <1>4, <1>6, <1>8 DEF View, LastRead
  <1>17. HandlerRead(p)'
    <2>1. HandlerRead(p)
      BY <1>0 DEF ReadInv
    <2>2. Accepted(p)' => Accepted(p)
      BY <1>8 DEF Accepted
    <2>3. QED BY <1>5, <1>8, <1>9, <1>16, <2>1, <2>2 DEF HandlerRead
  <1>18. walFailures = 0 => HandlerExact(p)'
    <2>1. walFailures = 0 => HandlerExact(p)
      BY <1>0 DEF ExactInv
    <2>2. walFailures = 0 => LastRead(id).state = call[p].next
      BY <1>1, <2>1 DEF HandlerExact
    <2>3. QED BY <1>8, <1>16, <2>2 DEF HandlerExact
  <1>19. \A s \in Refs : heap'[s].cum <= heap'[s].total
    BY <1>0, <1>7 DEF ReadInv
  <1>20. ReadInv'
    BY <1>0, <1>1, <1>6, <1>9, <1>13, <1>15, <1>17, <1>19 DEF ReadInv
  <1>21. ExactInv'
    BY <1>0, <1>1, <1>6, <1>9, <1>14, <1>15, <1>18 DEF ExactInv
  <1>22. QED BY <1>20, <1>21

\* The process dies: nothing but the log is left, and the log has every order
\* that no handler was changing as memory had it.
LEMMA LogDie ==
    ASSUME EMSInv, Die, phase = "serving"
    PROVE  ReadInv' /\ ExactInv'
  <1>0. TypeOK /\ LogOK /\ LifecycleInv /\ HandlersInv /\ AckInv /\ ReadInv /\ ExactInv
    BY DEF EMSInv, TypeOK
  <1>1. /\ phase' = "down" /\ replayed' = 0 /\ UNCHANGED <<wal, walOpen, walFailures, call>>
        /\ \A i \in OrderIds : orders'[i] = NoRef
        /\ \A r \in Refs : heap'[r] = NoRuntime
        /\ \A q \in Procs : /\ pc'[q] \in {"idle", "done"}
                            /\ resp'[q] \in {"SUBMITTED", "CANCELED"} => resp'[q] = resp[q]
        /\ \A i \in OrderIds : before'[i] = IF Settled(i) THEN View(i) ELSE Unsettled
    BY DEF Die
  <1>2. /\ Readable' = Readable /\ \A i : LastRead(i)' = LastRead(i)
        /\ \A q : LastRead(call[q].id)' = LastRead(call[q].id)
    BY <1>1 DEF Readable, LastRead
  <1>3. ASSUME NEW q \in Procs
        PROVE  HandlerRead(q)' /\ (HandlerExact(q) => HandlerExact(q)')
    <2>1. HandlerRead(q)
      BY <1>0 DEF ReadInv
    <2>2. QED BY <1>1, <1>2, <2>1 DEF HandlerRead, HandlerExact, Accepted
  <1>4. \A i \in OrderIds : View(i)' = Reading(wal, i)[replayed]'
    <2>1. \A i \in OrderIds : View(i)' = NoRuntime
      BY <1>1 DEF View
    <2>2. \A i \in OrderIds : Reading(wal, i)[0] = NoRuntime
      BY <1>0, ReadingDef DEF LogOK
    <2>3. QED BY <1>1, <2>1, <2>2
  <1>5. \A r \in Refs : heap'[r].cum <= heap'[r].total
    BY <1>1 DEF NoRuntime
  <1>6. ReadInv'
    BY <1>0, <1>1, <1>2, <1>3, <1>4, <1>5 DEF ReadInv
  <1>7. ASSUME walFailures = 0, NEW i \in OrderIds, before'[i] # Unsettled
        PROVE  before'[i] = LastRead(i)
    <2>1. Settled(i) /\ before'[i] = View(i) /\ RegisteredExact(i)
      BY <1>0, <1>1, <1>7 DEF ExactInv
    <2>2. CASE orders[i] = NoRef
      BY <2>1, <2>2 DEF View, RegisteredExact
    <2>3. CASE orders[i] # NoRef
      <3>1. lock[orders[i]] = NoProc
        BY <2>1, <2>3 DEF Settled
      <3>2. ~AtAppend(orders[i])
        <4>1. Belongs(orders[i], i)
          BY <1>0, <2>3 DEF HandlersInv
        <4>2. orders[i] \in Procs => call[orders[i]].id = i
          BY <4>1 DEF Belongs, Owner
        <4>3. QED BY <2>1, <4>2 DEF Settled, AtAppend
      <3>3. QED BY <2>1, <2>3, <3>1, <3>2 DEF View, RegisteredExact
    <2>4. QED BY <2>2, <2>3
  <1>8. ExactInv'
    BY <1>0, <1>1, <1>2, <1>3, <1>7 DEF ExactInv
  <1>9. QED BY <1>6, <1>8

\* Recover reads the file, or fails.
LEMMA LogRestart ==
    ASSUME EMSInv, Restart
    PROVE  ReadInv' /\ ExactInv'
  <1>0. ReadInv /\ ExactInv
    BY DEF EMSInv
  <1>1. /\ phase = "down" /\ phase' = (IF Readable THEN "replaying" ELSE "failed")
        /\ UNCHANGED <<orders, heap, lock, wal, walOpen, walFailures, replayed, before,
                       pc, call, resp>>
    BY DEF Restart, log, recovery
  <1>2. Readable' = Readable /\ \A i : LastRead(i)' = LastRead(i) /\ View(i)' = View(i)
    BY <1>1 DEF Readable, LastRead, View
  <1>3. ASSUME NEW q \in Procs
        PROVE  HandlerRead(q)' /\ (HandlerExact(q) => HandlerExact(q)')
    <2>1. HandlerRead(q)
      BY <1>0 DEF ReadInv
    <2>2. LastRead(call[q].id)' = LastRead(call[q].id)
      BY <1>1 DEF LastRead
    <2>3. QED BY <1>1, <1>2, <2>1, <2>2 DEF HandlerRead, HandlerExact, Accepted, Added
  <1>4. ReadInv'
    BY <1>0, <1>1, <1>2, <1>3 DEF ReadInv
  <1>5. ExactInv'
    BY <1>0, <1>1, <1>2, <1>3 DEF ExactInv
  <1>6. QED BY <1>4, <1>5

\* RecoverFromWAL rebuilds what a reader of the lines knows.
LEMMA LogReplay ==
    ASSUME EMSInv, Replay
    PROVE  ReadInv' /\ ExactInv'
  <1> DEFINE n == replayed + 1
             ev == wal[n]
             id == ev.id
  <1>0. TypeOK /\ LogOK /\ LifecycleInv /\ HandlersInv /\ AckInv /\ ReadInv /\ ExactInv
    BY DEF EMSInv, TypeOK
  <1>1. /\ phase = "replaying" /\ n \in 1..Len(wal) /\ replayed' = n /\ n - 1 = replayed
        /\ replayed \in 0..Len(wal) /\ n \in 0..Len(wal) /\ Apply(ev)
        /\ UNCHANGED <<phase, lock, wal, walOpen, walFailures, before, pc, call, resp>>
    BY <1>0 DEF Replay, log, TypeOK, LogOK
  <1>2. ev \in Line
    BY <1>0, <1>1 DEF LogOK
  <1>3. id \in OrderIds /\ ev.state # "NONE" /\ ev.delta \in Nat
    BY <1>2 DEF Line, OrderStatus, Fills, Terminal
  <1>4. Readable /\ \A i \in OrderIds : View(i) = Reading(wal, i)[replayed]
    BY <1>0, <1>1 DEF ReadInv
  <1>5. \A i \in OrderIds : Reading(wal, i)[n] = ReadFor(i, Reading(wal, i)[replayed], ev)
    BY <1>0, <1>1, ReadingDef DEF LogOK
  <1>6. \A i \in OrderIds : orders[i] # NoRef => orders[i] = i /\ heap[i].state # "NONE"
    <2>1. \A i \in OrderIds : orders[i] # NoRef => orders[i] \in OrderIds /\ Belongs(orders[i], i)
      BY <1>0, <1>1 DEF LifecycleInv, HandlersInv
    <2>2. QED BY <2>1 DEF Belongs, Owner
  <1>7. heap \in [Refs -> Runtime] /\ orders \in [OrderIds -> Refs \cup {NoRef}]
    BY <1>0 DEF TypeOK, MemoryOK
  <1> HIDE DEF ev
  <1>8. /\ orders'[id] = id /\ \A i \in OrderIds : i # id => orders'[i] = orders[i]
        /\ heap'[id] = ReadLine(View(id), ev) /\ \A r \in Refs : r # id => heap'[r] = heap[r]
    <2>1. CASE orders[id] = NoRef
      <3>1. heap'[id] = [state |-> ev.state, total |-> ev.total, cum |-> 0]
        BY <1>1, <1>3, <1>7, <2>1 DEF Apply
      <3>2. ReadLine(View(id), ev) = [state |-> ev.state, total |-> ev.total, cum |-> 0]
        BY <2>1 DEF View, ReadLine, NoRuntime
      <3>3. QED BY <1>1, <1>3, <1>7, <2>1, <3>1, <3>2 DEF Apply
    <2>2. CASE orders[id] # NoRef
      <3>1. orders[id] = id /\ heap[id].state # "NONE" /\ View(id) = heap[id]
        BY <1>3, <1>6, <2>2 DEF View
      <3>2. heap[id].cum \in Nat
        BY <1>3, <1>7 DEF Runtime
      <3>3. heap'[id] = [state |-> ev.state, total |-> heap[id].total,
                         cum |-> heap[id].cum + (IF ev.state \in Fills THEN ev.delta ELSE 0)]
        BY <1>1, <1>3, <1>7, <2>2, <3>1 DEF Apply
      <3>4. ReadLine(View(id), ev) =
                [state |-> ev.state, total |-> heap[id].total,
                 cum |-> heap[id].cum + (IF ev.state \in Fills THEN ev.delta ELSE 0)]
        BY <3>1, <3>2 DEF ReadLine
      <3>5. QED BY <1>1, <1>3, <1>7, <2>2, <3>1, <3>3, <3>4 DEF Apply
    <2>3. QED BY <2>1, <2>2
  <1>9. ASSUME NEW i \in OrderIds PROVE View(i)' = Reading(wal, i)[n]
    <2>1. CASE i = id
      <3>1. View(i)' = ReadLine(View(id), ev)
        BY <1>3, <1>8, <2>1 DEF View
      <3>2. QED BY <1>4, <1>5, <2>1, <3>1 DEF ReadFor
    <2>2. CASE i # id
      <3>1. View(i)' = View(i)
        <4>1. orders[i] # NoRef => orders[i] = i /\ i \in Refs
          BY <1>6
        <4>2. QED BY <1>8, <2>2, <4>1 DEF View
      <3>2. Reading(wal, i)[n] = Reading(wal, i)[replayed]
        BY <1>5, <2>2 DEF ReadFor
      <3>3. QED BY <1>4, <3>1, <3>2
    <2>3. QED BY <2>1, <2>2
  <1>10. heap'[id].cum <= heap'[id].total
    <2>1. heap'[id] = Reading(wal, id)[n]
      BY <1>3, <1>4, <1>5, <1>8 DEF ReadFor
    <2>2. Reading(wal, id)[n].cum <= Reading(wal, id)[n].total
      BY <1>0, <1>1, <1>3, <1>4 DEF ReadInv
    <2>3. QED BY <2>1, <2>2
  <1>11. /\ Readable' = Readable /\ \A i : LastRead(i)' = LastRead(i)
    BY <1>1 DEF Readable, LastRead
  <1>12. ASSUME NEW q \in Procs
         PROVE  HandlerRead(q)' /\ (HandlerExact(q) => HandlerExact(q)')
    <2>1. HandlerRead(q) /\ pc[q] \in {"idle", "done"}
      BY <1>0, <1>1 DEF ReadInv, LifecycleInv, InFlight
    <2>2. LastRead(call[q].id)' = LastRead(call[q].id)
      BY <1>1 DEF LastRead
    <2>3. QED BY <1>1, <1>11, <2>1, <2>2 DEF HandlerRead, HandlerExact, Accepted
  <1>13. ReadInv'
    <2>1. \A r \in Refs : heap'[r].cum <= heap'[r].total
      BY <1>0, <1>8, <1>10 DEF ReadInv
    <2>2. \A i \in OrderIds : View(i)' = Reading(wal, i)[replayed]'
      BY <1>1, <1>9
    <2>3. QED BY <1>0, <1>1, <1>4, <1>11, <1>12, <2>1, <2>2 DEF ReadInv
  <1>14. ExactInv'
    BY <1>0, <1>1, <1>11, <1>12 DEF ExactInv
  <1>15. QED BY <1>13, <1>14

\* The server has replayed the whole log and serves.
LEMMA LogServe ==
    ASSUME EMSInv, Serve
    PROVE  ReadInv' /\ ExactInv'
  <1>0. TypeOK /\ LogOK /\ LifecycleInv /\ HandlersInv /\ AckInv /\ ReadInv /\ ExactInv
    BY DEF EMSInv, TypeOK
  <1>1. /\ phase = "replaying" /\ phase' = "serving" /\ replayed = Len(wal)
        /\ UNCHANGED <<orders, heap, lock, wal, walOpen, walFailures, replayed, pc, call, resp>>
    BY DEF Serve, log
  <1>2. Readable /\ \A i \in OrderIds : View(i) = LastRead(i)
    BY <1>0, <1>1 DEF ReadInv, LastRead
  <1>3. Readable' = Readable /\ \A i : LastRead(i)' = LastRead(i) /\ View(i)' = View(i)
    BY <1>1 DEF Readable, LastRead, View
  <1>4. ASSUME NEW i \in OrderIds PROVE RegisteredRead(i)' /\ RegisteredExact(i)'
    <2>1. CASE orders[i] = NoRef
      BY <1>1, <1>2, <1>3, <2>1 DEF RegisteredRead, RegisteredExact, View
    <2>2. CASE orders[i] # NoRef
      <3>1. orders[i] \in Refs /\ heap[orders[i]].state # "NONE" /\ heap[orders[i]] = LastRead(i)
        BY <1>0, <1>2, <2>2 DEF HandlersInv, Belongs, View, TypeOK, MemoryOK
      <3>2. heap[orders[i]].cum \in Nat
        BY <1>0, <3>1 DEF TypeOK, MemoryOK, Runtime
      <3>3. QED BY <1>1, <1>3, <2>2, <3>1, <3>2 DEF RegisteredRead, RegisteredExact
    <2>3. QED BY <2>1, <2>2
  <1>5. ASSUME NEW q \in Procs
        PROVE  HandlerRead(q)' /\ (HandlerExact(q) => HandlerExact(q)')
    <2>1. HandlerRead(q) /\ pc[q] \in {"idle", "done"}
      BY <1>0, <1>1 DEF ReadInv, LifecycleInv, InFlight
    <2>2. LastRead(call[q].id)' = LastRead(call[q].id) /\ View(call[q].id)' = View(call[q].id)
      BY <1>1 DEF LastRead, View
    <2>3. resp[q] \in {"SUBMITTED", "CANCELED"} => View(call[q].id) = LastRead(call[q].id)
      <3>1. resp[q] \in {"SUBMITTED", "CANCELED"} => call[q].id \in OrderIds
        BY <1>0 DEF AckInv, TypeOK, CallsOK, Call
      <3>2. QED BY <1>2, <3>1
    <2>4. QED BY <1>1, <1>2, <1>3, <2>1, <2>2, <2>3 DEF HandlerRead, HandlerExact, Accepted
  <1>6. ReadInv'
    BY <1>0, <1>1, <1>3, <1>4, <1>5 DEF ReadInv
  <1>7. ExactInv'
    BY <1>0, <1>1, <1>3, <1>4, <1>5 DEF ExactInv
  <1>8. QED BY <1>6, <1>7

\* Every step keeps what the log and memory know of each other.
LEMMA EMSInvStep == EMSInv /\ [Next]_vars => EMSInv'
  <1> SUFFICES ASSUME EMSInv, [Next]_vars PROVE EMSInv'
    OBVIOUS
  <1>1. TypeOK' /\ AckInv' /\ HandlersInv'
    BY TypeStep, AckStep, HandlersStep DEF EMSInv
  <1>2. LifecycleInv'
    BY LifecycleSubmit, LifecycleTransition, LifecycleOther DEF Next, Step, EMSInv
  <1>3. ReadInv' /\ ExactInv'
    <2>1. ASSUME NEW p \in Procs, Begin(p) PROVE ReadInv' /\ ExactInv'
      BY <2>1, LogReads
    <2>2. ASSUME NEW p \in Procs, Step(p) PROVE ReadInv' /\ ExactInv'
      BY <2>2, LogReads, LogStore, LogSubmitAppend, LogAppendFailed, LogLock,
         LogTransitionAppend, LogRelease
         DEF Step, Submit, TransitionState
    <2>3. ASSUME NEW p \in Procs, TransitionPanic(p) PROVE ReadInv' /\ ExactInv'
      <3>1. phase = "serving"
        BY <2>3, StepServing DEF TransitionPanic, EMSInv
      <3>2. QED BY <2>3, <3>1, LogDie DEF TransitionPanic
    <2>4. CASE Crash
      BY <2>4, LogDie DEF Crash
    <2>5. CASE Startup
      BY <2>5, LogRestart, LogReplay, LogServe DEF Startup
    <2>6. CASE ForcePause \/ UNCHANGED vars
      BY <2>6, LogForcePause
    <2>7. QED BY <2>1, <2>2, <2>3, <2>4, <2>5, <2>6 DEF Next
  <1>4. QED BY <1>1, <1>2, <1>3 DEF EMSInv

\* Log and memory agree at first.
LEMMA EMSInvInit == Init /\ ~ConcurrentRetries => EMSInv
  <1> SUFFICES ASSUME Init, ~ConcurrentRetries PROVE EMSInv
    OBVIOUS
  <1>1. TypeOK
    BY InitType
  <1>2. LifecycleInv /\ AckInv
    BY DEF Init, LifecycleInv, AckInv, NoRuntime, Locked, InFlight
  <1>3. HandlersInv
    BY HandlersInit
  <1>4. /\ phase = "serving" /\ wal = <<>> /\ ~walOpen /\ walFailures = 0
        /\ orders = [id \in OrderIds |-> NoRef] /\ heap = [r \in Refs |-> NoRuntime]
        /\ \A p \in Procs : pc[p] = "idle" /\ resp[p] = "none"
    BY DEF Init
  <1>5. Readable /\ \A id \in OrderIds : LastRead(id) = NoRuntime
    <2>1. wal \in Seq(Line) /\ Len(wal) = 0
      BY <1>4
    <2>2. \A id \in OrderIds : Reading(wal, id)[0] = NoRuntime
      BY <2>1, ReadingDef
    <2>3. DOMAIN wal = {}
      BY <1>4
    <2>4. QED BY <2>1, <2>2, <2>3 DEF Readable, LastRead
  <1>6. \A id \in OrderIds : RegisteredRead(id) /\ RegisteredExact(id)
    BY <1>4, <1>5 DEF RegisteredRead, RegisteredExact
  <1>7. \A p \in Procs : HandlerRead(p) /\ HandlerExact(p)
    BY <1>4 DEF HandlerRead, HandlerExact, Accepted
  <1>8. \A id \in OrderIds : \A i \in 0..Len(wal) :
            Reading(wal, id)[i].cum <= Reading(wal, id)[i].total
    <2>1. \A i \in 0..Len(wal) : i = Len(wal)
      BY <1>4
    <2>2. QED BY <1>5, <2>1 DEF LastRead, NoRuntime
  <1>9. \A r \in Refs : heap[r].cum <= heap[r].total
    BY <1>4 DEF NoRuntime
  <1>10. ReadInv
    BY <1>4, <1>6, <1>7, <1>8, <1>9 DEF ReadInv
  <1>11. ExactInv
    BY <1>4, <1>5, <1>6, <1>7 DEF ExactInv
  <1>12. QED BY <1>1, <1>2, <1>3, <1>10, <1>11 DEF EMSInv

\* For any number of goroutines, orders, crashes and WAL failures, when clients
\* retry one after the other: an order answered SUBMITTED stays registered beyond
\* PENDING, a cancel that was acknowledged is not undone as long as no append
\* fails, and no order is ever filled beyond its quantity, replay included.
THEOREM AnswersKeptTheorem == ~ConcurrentRetries => (Spec => []AnswersKept)
  <1>1. EMSInv => AnswersKept
    <2> SUFFICES ASSUME EMSInv PROVE AnswersKept
      OBVIOUS
    <2>0. ReadInv /\ ExactInv
      BY DEF EMSInv
    <2>1. AckedSubmission
      BY <2>0 DEF AckedSubmission, ReadInv, HandlerRead
    <2>2. AckedCancel
      BY <2>0 DEF AckedCancel, ExactInv, HandlerExact
    <2>3. NoOverfill
      <3>1. NoRuntime.cum <= NoRuntime.total
        BY DEF NoRuntime
      <3>2. \A id \in OrderIds : orders[id] # NoRef => orders[id] \in Refs
        BY DEF EMSInv, TypeOK, MemoryOK
      <3>3. QED BY <2>0, <3>1, <3>2 DEF NoOverfill, View, ReadInv
    <2>4. QED BY <2>1, <2>2, <2>3 DEF AnswersKept
  <1>2. QED BY <1>1, EMSInvInit, EMSInvStep, PTL DEF Spec

\* As long as no append fails, replay rebuilds every order that no handler was
\* changing at the crash.
LEMMA RecoveryFollows == EMSInv => RecoveryExact
  <1> SUFFICES ASSUME EMSInv, walFailures = 0, phase = "replaying", replayed = Len(wal),
                      NEW id \in OrderIds, before[id] # Unsettled
               PROVE  View(id) = before[id]
    BY DEF RecoveryExact
  <1>1. View(id) = LastRead(id)
    BY DEF EMSInv, ReadInv, LastRead
  <1>2. before[id] = LastRead(id)
    BY DEF EMSInv, ExactInv
  <1>3. QED BY <1>1, <1>2

-----------------------------------------------------------------------------
(***************************************************************************)
(* The book of the log                                                     *)
(***************************************************************************)
\* The equations of Filled.
LEMMA FilledDef ==
    ASSUME NEW lines \in Seq(Line), NEW id
    PROVE  /\ Filled(lines, id)[0] = 0
           /\ \A i \in 1..Len(lines) : Filled(lines, id)[i] = Filled(lines, id)[i - 1] +
                 (IF lines[i].id = id /\ lines[i].state \in Fills THEN lines[i].delta ELSE 0)
  <1> DEFINE Rd(n, u) == u + (IF lines[n].id = id /\ lines[n].state \in Fills
                              THEN lines[n].delta ELSE 0)
             Sums(f, N) == f = [n \in 0..N |-> IF n = 0 THEN 0 ELSE Rd(n, f[n - 1])]
  <1>1. \E f : Sums(f, Len(lines))
    <2> HIDE DEF Rd
    <2> DEFINE S == {N \in Nat : \E f : Sums(f, N)}
    <2>1. 0 \in S
      <3>1. Sums([n \in 0..0 |-> 0], 0)
        OBVIOUS
      <3>2. QED BY <3>1
    <2>2. ASSUME NEW N \in S PROVE N + 1 \in S
      <3>1. PICK f : Sums(f, N)
        OBVIOUS
      <3> DEFINE g == [n \in 0..(N + 1) |-> IF n <= N THEN f[n] ELSE Rd(N + 1, f[N])]
                 h == [n \in 0..(N + 1) |-> IF n = 0 THEN 0 ELSE Rd(n, g[n - 1])]
      <3>2. f[0] = 0 /\ \A n \in 1..N : f[n] = Rd(n, f[n - 1])
        BY <3>1
      <3>3. \A n \in 0..(N + 1) : g[n] = h[n]
        <4> SUFFICES ASSUME NEW n \in 0..(N + 1) PROVE g[n] = h[n]
          OBVIOUS
        <4>1. CASE n = 0
          BY <3>2, <4>1
        <4>2. CASE n \in 1..N
          <5>1. n # 0 /\ n <= N /\ n - 1 <= N /\ n - 1 \in 0..(N + 1)
            BY <4>2
          <5>2. g[n] = f[n] /\ g[n - 1] = f[n - 1]
            BY <5>1
          <5>3. QED BY <3>2, <4>2, <5>1, <5>2
        <4>3. CASE n = N + 1
          <5>1. n # 0 /\ ~(n <= N) /\ n - 1 = N /\ N <= N /\ N \in 0..(N + 1)
            BY <4>3
          <5>2. g[n] = Rd(N + 1, f[N]) /\ g[N] = f[N] /\ h[n] = Rd(n, g[n - 1])
            BY <5>1
          <5>3. QED BY <4>3, <5>1, <5>2
        <4>4. QED BY <4>1, <4>2, <4>3
      <3>4. g = h
        BY <3>3
      <3>5. Sums(g, N + 1)
        BY <3>4
      <3> HIDE DEF g, Sums
      <3>6. QED BY <3>5
    <2>3. S \in SUBSET Nat
      OBVIOUS
    <2> HIDE DEF S
    <2>4. Len(lines) \in S
      BY <2>1, <2>2, <2>3, NatInd
    <2>5. QED BY <2>4 DEF S
  <1> DEFINE sum == CHOOSE f : Sums(f, Len(lines))
  <1>2. Sums(sum, Len(lines)) /\ Filled(lines, id) = sum
    BY <1>1 DEF Filled
  <1> HIDE DEF sum
  <1>3. sum[0] = 0 /\ \A n \in 1..Len(lines) : sum[n] = Rd(n, sum[n - 1])
    <2> HIDE DEF Rd
    <2>1. QED BY <1>2
  <1>4. QED BY <1>2, <1>3

\* An appended line adds its own fill to the sum.
LEMMA FilledAppend ==
    ASSUME NEW lines \in Seq(Line), NEW more \in Seq(Line), NEW line, NEW id,
           Len(more) = Len(lines) + 1, more[Len(more)] = line,
           \A i \in 1..Len(lines) : more[i] = lines[i]
    PROVE  Filled(more, id)[Len(more)] = Filled(lines, id)[Len(lines)] +
              (IF line.id = id /\ line.state \in Fills THEN line.delta ELSE 0)
  <1> DEFINE D(l) == IF l.id = id /\ l.state \in Fills THEN l.delta ELSE 0
  <1>1. /\ Filled(more, id)[0] = 0
        /\ \A i \in 1..Len(more) : Filled(more, id)[i] = Filled(more, id)[i - 1] + D(more[i])
    BY FilledDef
  <1>2. /\ Filled(lines, id)[0] = 0
        /\ \A i \in 1..Len(lines) : Filled(lines, id)[i] = Filled(lines, id)[i - 1] + D(lines[i])
    BY FilledDef
  <1> HIDE DEF D
  <1> DEFINE S == {n \in Nat : n <= Len(lines) => Filled(more, id)[n] = Filled(lines, id)[n]}
  <1>3. 0 \in S
    BY <1>1, <1>2
  <1>4. ASSUME NEW n \in S PROVE n + 1 \in S
    <2>1. CASE n + 1 <= Len(lines)
      <3>1. /\ Filled(more, id)[n] = Filled(lines, id)[n] /\ more[n + 1] = lines[n + 1]
            /\ n + 1 \in 1..Len(lines) /\ n + 1 \in 1..Len(more) /\ (n + 1) - 1 = n
        BY <2>1
      <3>2. Filled(more, id)[n + 1] = Filled(more, id)[n] + D(more[n + 1])
        BY <1>1, <3>1
      <3>3. Filled(lines, id)[n + 1] = Filled(lines, id)[n] + D(lines[n + 1])
        BY <1>2, <3>1
      <3>4. QED BY <3>1, <3>2, <3>3
    <2>2. CASE ~(n + 1 <= Len(lines))
      BY <2>2
    <2>3. QED BY <2>1, <2>2
  <1>5. S \in SUBSET Nat
    OBVIOUS
  <1> HIDE DEF S
  <1>6. Nat \subseteq S
    BY <1>3, <1>4, <1>5, NatInd
  <1>7. Filled(more, id)[Len(lines)] = Filled(lines, id)[Len(lines)]
    BY <1>6 DEF S
  <1>8. Len(more) \in 1..Len(more) /\ Len(more) - 1 = Len(lines)
    OBVIOUS
  <1>9. Filled(more, id)[Len(more)] = Filled(more, id)[Len(lines)] + D(line)
    BY <1>1, <1>8
  <1>10. QED BY <1>7, <1>9 DEF D

\* An order without events has no fills.
LEMMA FilledNone ==
    ASSUME NEW lines \in Seq(Line), NEW id, \A i \in DOMAIN lines : lines[i].id # id
    PROVE  Filled(lines, id)[Len(lines)] = 0
  <1> DEFINE S == {n \in Nat : n <= Len(lines) => Filled(lines, id)[n] = 0}
  <1>1. 0 \in S
    BY FilledDef
  <1>2. ASSUME NEW n \in S PROVE n + 1 \in S
    <2>1. CASE n + 1 <= Len(lines)
      <3>1. Filled(lines, id)[n] = 0 /\ n + 1 \in 1..Len(lines) /\ (n + 1) - 1 = n
        BY <2>1
      <3>2. lines[n + 1].id # id
        BY <3>1
      <3>3. Filled(lines, id)[n + 1] = Filled(lines, id)[n] + 0
        BY <3>1, <3>2, FilledDef
      <3>4. QED BY <3>1, <3>3
    <2>2. CASE ~(n + 1 <= Len(lines))
      BY <2>2
    <2>3. QED BY <2>1, <2>2
  <1>3. S \in SUBSET Nat
    OBVIOUS
  <1> HIDE DEF S
  <1>4. Nat \subseteq S
    BY <1>1, <1>2, <1>3, NatInd
  <1>5. QED BY <1>4 DEF S

\* Min of a set of numbers is its least element.
LEMMA FirstOf ==
    ASSUME NEW S \in SUBSET Nat, S # {}
    PROVE  Min(S) \in S /\ \A k \in S : Min(S) <= k
  BY NatLeast DEF Min

\* Max of a bounded set of numbers is its greatest element.
LEMMA LastOf ==
    ASSUME NEW S \in SUBSET Nat, S # {}, NEW n \in Nat, \A k \in S : k <= n
    PROVE  Max(S) \in S /\ \A k \in S : k <= Max(S)
  <1> DEFINE T == {m \in Nat : \A k \in S : k <= m}
  <1>1. T \in SUBSET Nat /\ n \in T
    OBVIOUS
  <1>2. PICK m \in T : \A j \in T : m <= j
    BY <1>1, NatLeast
  <1>3. m \in S
    <2> SUFFICES ASSUME m \notin S PROVE FALSE
      OBVIOUS
    <2>1. PICK k \in S : TRUE
      OBVIOUS
    <2>2. m - 1 \in Nat /\ \A j \in S : j <= m - 1
      <3>1. m \in Nat /\ \A j \in S : j \in Nat /\ j <= m /\ j # m
        OBVIOUS
      <3>2. QED BY <2>1, <3>1
    <2>3. m - 1 \in T
      BY <2>2
    <2>4. QED BY <1>2, <2>3
  <1>4. m \in S /\ \A k \in S : m >= k
    BY <1>3
  <1>5. Max(S) \in S /\ \A k \in S : Max(S) >= k
    BY <1>4 DEF Max
  <1>6. QED BY <1>5

\* The fills of an order are a number.
LEMMA FilledType ==
    ASSUME NEW lines \in Seq(Line), NEW id
    PROVE  Filled(lines, id)[Len(lines)] \in Nat
  <1> DEFINE S == {n \in Nat : n <= Len(lines) => Filled(lines, id)[n] \in Nat}
  <1>1. 0 \in S
    BY FilledDef
  <1>2. ASSUME NEW n \in S PROVE n + 1 \in S
    <2>1. CASE n + 1 <= Len(lines)
      <3>1. Filled(lines, id)[n] \in Nat /\ n + 1 \in 1..Len(lines) /\ (n + 1) - 1 = n
        BY <2>1
      <3>2. lines[n + 1] \in Line
        BY <3>1
      <3>3. lines[n + 1].delta \in Nat
        BY <3>2 DEF Line
      <3>4. Filled(lines, id)[n + 1] = Filled(lines, id)[n] +
              (IF lines[n + 1].id = id /\ lines[n + 1].state \in Fills
               THEN lines[n + 1].delta ELSE 0)
        BY <3>1, FilledDef
      <3>5. QED BY <3>1, <3>3, <3>4
    <2>2. CASE ~(n + 1 <= Len(lines))
      BY <2>2
    <2>3. QED BY <2>1, <2>2
  <1>3. S \in SUBSET Nat
    OBVIOUS
  <1> HIDE DEF S
  <1>4. Nat \subseteq S
    BY <1>1, <1>2, <1>3, NatInd
  <1>5. QED BY <1>4 DEF S

\* The events of an order in a log, and the book's entry when there is one.
EventsOf(lines, id) == {i \in DOMAIN lines : lines[i].id = id}

\* An order without events is not in the book.
LEMMA BookedNone ==
    ASSUME NEW lines \in Seq(Line), NEW id, EventsOf(lines, id) = {}
    PROVE  BookedOrder(lines, id) = NoRuntime /\ Filled(lines, id)[Len(lines)] = 0
  BY FilledNone DEF BookedOrder, EventsOf

\* The entry of an order with events, from its first and its last.
LEMMA BookedSome ==
    ASSUME NEW lines \in Seq(Line), NEW id,
           NEW first \in EventsOf(lines, id), NEW last \in EventsOf(lines, id),
           \A k \in EventsOf(lines, id) : first <= k /\ k <= last
    PROVE  /\ BookedOrder(lines, id) = [state |-> lines[last].state,
                                        total |-> lines[first].total,
                                        cum   |-> Filled(lines, id)[Len(lines)]]
           /\ lines[last].state # "NONE"
  <1> DEFINE S == EventsOf(lines, id)
  <1>1. S \in SUBSET Nat /\ S # {} /\ \A k \in S : k <= Len(lines)
    BY DEF EventsOf
  <1>2. Min(S) \in S /\ \A k \in S : Min(S) <= k
    BY <1>1, FirstOf
  <1>3. Max(S) \in S /\ \A k \in S : k <= Max(S)
    BY <1>1, LastOf
  <1>4. Min(S) = first /\ Max(S) = last
    <2> HIDE DEF S
    <2>1. first \in S /\ last \in S /\ \A k \in S : first <= k /\ k <= last
      BY DEF S
    <2>2. Min(S) \in Nat /\ Max(S) \in Nat /\ first \in Nat /\ last \in Nat
      BY <1>1, <1>2, <1>3, <2>1
    <2>3. QED BY <1>2, <1>3, <2>1, <2>2
  <1>5. BookedOrder(lines, id) = [state |-> lines[Max(S)].state, total |-> lines[Min(S)].total,
                                  cum |-> Filled(lines, id)[Len(lines)]]
    BY <1>1 DEF BookedOrder, EventsOf
  <1>6. lines[last] \in Line
    BY DEF EventsOf
  <1>7. QED BY <1>4, <1>5, <1>6 DEF Line, OrderStatus, Terminal, Fills

\* The book takes a line as a reader of the log does, provided that an order does
\* not begin with a fill.
LEMMA BookAppend ==
    ASSUME NEW lines \in Seq(Line), NEW more \in Seq(Line), NEW line, NEW id,
           Len(more) = Len(lines) + 1, more[Len(more)] = line,
           \A i \in 1..Len(lines) : more[i] = lines[i],
           line.id = id /\ line.state \in Fills => EventsOf(lines, id) # {}
    PROVE  BookedOrder(more, id) = ReadFor(id, BookedOrder(lines, id), line)
  <1> DEFINE n == Len(more)
             S == EventsOf(lines, id)
             add == IF line.id = id /\ line.state \in Fills THEN line.delta ELSE 0
  <1>1. Filled(more, id)[n] = Filled(lines, id)[Len(lines)] + add
    BY FilledAppend
  <1>2. EventsOf(more, id) = S \cup (IF line.id = id THEN {n} ELSE {})
    BY DEF EventsOf
  <1>3. S \in SUBSET Nat /\ n \in Nat /\ \A k \in S : k < n /\ more[k] = lines[k] /\ lines[k].id = id
    BY DEF EventsOf
  <1>4. Filled(lines, id)[Len(lines)] \in Nat
    BY FilledType
  <1>5. CASE S = {}
    <2>1. BookedOrder(lines, id) = NoRuntime /\ Filled(lines, id)[Len(lines)] = 0
      BY <1>5, BookedNone
    <2>2. CASE line.id = id
      <3>1. EventsOf(more, id) = {n}
        BY <1>2, <1>5, <2>2
      <3>2. add = 0
        BY <1>5, <2>2
      <3>3. BookedOrder(more, id) = [state |-> line.state, total |-> line.total,
                                     cum |-> Filled(more, id)[n]]
        BY <1>3, <3>1, BookedSome
      <3>4. QED BY <1>1, <2>1, <2>2, <3>2, <3>3 DEF ReadFor, ReadLine, NoRuntime
    <2>3. CASE line.id # id
      <3>1. EventsOf(more, id) = {}
        BY <1>2, <1>5, <2>3
      <3>2. QED BY <2>1, <2>3, <3>1, BookedNone DEF ReadFor
    <2>4. QED BY <2>2, <2>3
  <1>6. CASE S # {}
    <2>0. \A k \in S : k <= n
      BY <1>3
    <2>1. PICK first \in S : \A k \in S : first <= k
      BY <1>3, <1>6, FirstOf
    <2>2. PICK last \in S : \A k \in S : k <= last
      BY <1>3, <1>6, <2>0, LastOf
    <2>3. /\ BookedOrder(lines, id) = [state |-> lines[last].state, total |-> lines[first].total,
                                       cum |-> Filled(lines, id)[Len(lines)]]
          /\ lines[last].state # "NONE"
      BY <2>1, <2>2, BookedSome
    <2>4. more[first] = lines[first] /\ more[last] = lines[last] /\ first < n
      BY <1>3
    <2>5. CASE line.id = id
      <3>1. EventsOf(more, id) = S \cup {n}
        BY <1>2, <2>5
      <3>2. first \in EventsOf(more, id) /\ n \in EventsOf(more, id)
            /\ \A k \in EventsOf(more, id) : first <= k /\ k <= n
        BY <1>3, <2>0, <2>1, <2>4, <3>1
      <3>3. BookedOrder(more, id) = [state |-> line.state, total |-> lines[first].total,
                                     cum |-> Filled(more, id)[n]]
        BY <2>4, <3>2, BookedSome
      <3>4. QED BY <1>1, <1>4, <2>3, <2>5, <3>3 DEF ReadFor, ReadLine
    <2>6. CASE line.id # id
      <3>1. EventsOf(more, id) = S /\ add = 0
        BY <1>2, <2>6
      <3>2. BookedOrder(more, id) = [state |-> lines[last].state, total |-> lines[first].total,
                                     cum |-> Filled(more, id)[n]]
        BY <2>1, <2>2, <2>4, <3>1, BookedSome
      <3>3. QED BY <1>1, <1>4, <2>3, <2>6, <3>1, <3>2 DEF ReadFor
    <2>7. QED BY <2>5, <2>6
  <1>7. QED BY <1>5, <1>6

\* Reading the log line by line, as replay does, gives the book, and so does the
\* memory of a server that has replayed all of it.
BookInv == Readable => \A id \in OrderIds : BookedOrder(wal, id) = LastRead(id)

\* An order under a transition is in the log, with its quantity.
LEMMA LockedRead ==
    ASSUME EMSInv, NEW p \in Procs, pc[p] \in Locked, Readable
    PROVE  /\ LastRead(call[p].id).state # "NONE"
           /\ LastRead(call[p].id).total = heap[call[p].ref].total
  <1> DEFINE id == call[p].id
             r == call[p].ref
  <1>0. TypeOK /\ LifecycleInv /\ HandlersInv /\ ReadInv
    BY DEF EMSInv
  <1>1. phase = "serving" /\ id \in OrderIds
    BY <1>0, StepServing DEF TypeOK, CallsOK, Call, Locked
  <1>2. HandlerOK(p) /\ lock[r] = p /\ r \in Refs
    BY <1>0 DEF HandlersInv, LifecycleInv, TypeOK, CallsOK, Locked, Dereferences
  <1>3. orders[id] = r
    BY <1>2 DEF HandlerOK
  <1>4. ~AtAppend(r)
    <2>1. ASSUME NEW s \in Procs, s = r, pc[s] \in {"append", "appendFailed"} PROVE FALSE
      <3>1. HandlerOK(s)
        BY <1>0 DEF HandlersInv
      <3>2. lock[s] = NoProc
        BY <2>1, <3>1 DEF HandlerOK
      <3>3. QED BY <1>2, <2>1, <3>2
    <2>2. QED BY <2>1 DEF AtAppend
  <1>5. RegisteredRead(id)
    BY <1>0, <1>1 DEF ReadInv
  <1>6. QED BY <1>2, <1>3, <1>4, <1>5 DEF RegisteredRead

\* An append keeps book and reading together.
LEMMA BookWrite ==
    ASSUME EMSInv, BookInv, NEW p \in Procs, NEW line \in Line, NEW ok, NEW failed,
           WalAppend(p, line, ok, failed),
           line.state \in Fills /\ Readable => LastRead(line.id).state # "NONE"
    PROVE  BookInv'
  <1> SUFFICES ASSUME Readable', NEW id \in OrderIds
               PROVE  BookedOrder(wal', id) = LastRead(id)'
    BY DEF BookInv
  <1>0. LogOK
    BY DEF EMSInv, TypeOK
  <1>1. /\ Readable
        /\ \/ UNCHANGED wal
           \/ /\ wal' = Append(wal, line) /\ Len(wal') = Len(wal) + 1
              /\ Reading(wal', id)[Len(wal')] = ReadFor(id, LastRead(id), line)
    BY <1>0, AppendReads
  <1>2. BookedOrder(wal, id) = LastRead(id)
    BY <1>1 DEF BookInv
  <1>3. CASE UNCHANGED wal
    BY <1>2, <1>3 DEF LastRead
  <1>4. CASE /\ wal' = Append(wal, line) /\ Len(wal') = Len(wal) + 1
             /\ Reading(wal', id)[Len(wal')] = ReadFor(id, LastRead(id), line)
    <2>1. PICK old, more : old = wal /\ more = wal'
      OBVIOUS
    <2>2. /\ old \in Seq(Line) /\ more \in Seq(Line)
          /\ Len(more) = Len(old) + 1 /\ more[Len(more)] = line
          /\ \A i \in 1..Len(old) : more[i] = old[i]
      BY <1>0, <1>4, <2>1 DEF LogOK
    <2>3. line.id = id /\ line.state \in Fills => EventsOf(old, id) # {}
      BY <1>1, <1>2, <2>1, <2>2, BookedNone DEF NoRuntime
    <2>4. BookedOrder(more, id) = ReadFor(id, BookedOrder(old, id), line)
      BY <2>2, <2>3, BookAppend
    <2>5. QED BY <1>2, <1>4, <2>1, <2>4 DEF LastRead
  <1>5. QED BY <1>1, <1>3, <1>4

\* Only two steps write to the log.
LEMMA LogWriters ==
    [Next]_vars => (\E p \in Procs : SubmitAppend(p) \/ TransitionAppend(p)) \/ UNCHANGED wal
  BY DEF Next, Begin, Step, Submit, TransitionState, Startup, Crash, Die, TransitionPanic,
         SubmitBegin, CancelBegin, ReportBegin, SubmitRetry, SubmitCheck, SubmitStore,
         SubmitAppendFailed, CancelState, TransitionLoad, TransitionBlocked, TransitionLock,
         TransitionSet, TransitionWalFailed, ForcePause, Restart, Replay, Serve, log, vars

\* Every step keeps book and reading together.
LEMMA BookStep == EMSInv /\ BookInv /\ [Next]_vars => BookInv'
  <1> SUFFICES ASSUME EMSInv, BookInv, [Next]_vars PROVE BookInv'
    OBVIOUS
  <1>1. ASSUME NEW p \in Procs, SubmitAppend(p) PROVE BookInv'
    <2> DEFINE line == Event(call[p].id, "PENDING", 0, call[p].total)
    <2>1. call[p] \in Call
      BY <1>1 DEF SubmitAppend, EMSInv, TypeOK, CallsOK
    <2>2. line \in Line /\ line.state \notin Fills
      BY <2>1 DEF Call, Event, Line, OrderStatus, Fills
    <2>3. WalAppend(p, line, "load", "appendFailed")
      BY <1>1 DEF SubmitAppend
    <2> HIDE DEF line
    <2>4. QED BY <2>2, <2>3, BookWrite
  <1>2. ASSUME NEW p \in Procs, TransitionAppend(p) PROVE BookInv'
    <2> DEFINE line == Event(call[p].id, call[p].next, call[p].delta, 0)
    <2>1. call[p] \in Call
      BY <1>2 DEF TransitionAppend, EMSInv, TypeOK, CallsOK
    <2>2. line \in Line /\ line.id = call[p].id
      BY <2>1 DEF Call, Event, Line
    <2>3. WalAppend(p, line, "set", "walFailed")
      BY <1>2 DEF TransitionAppend
    <2>4. Readable => LastRead(call[p].id).state # "NONE"
      BY <1>2, LockedRead DEF TransitionAppend, Locked
    <2> HIDE DEF line
    <2>5. QED BY <2>2, <2>3, <2>4, BookWrite
  <1>3. CASE UNCHANGED wal
    BY <1>3 DEF BookInv, Readable, LastRead
  <1>4. (\E p \in Procs : SubmitAppend(p) \/ TransitionAppend(p)) \/ UNCHANGED wal
    BY LogWriters
  <1>5. QED BY <1>1, <1>2, <1>3, <1>4

\* Book and reading of the empty log agree.
LEMMA BookInit == Init => BookInv
  <1> SUFFICES ASSUME Init, NEW id \in OrderIds PROVE BookedOrder(wal, id) = LastRead(id)
    BY DEF BookInv
  <1>1. wal = <<>> /\ wal \in Seq(Line) /\ Len(wal) = 0 /\ DOMAIN wal = {}
    BY DEF Init
  <1>2. Reading(wal, id)[0] = NoRuntime
    BY <1>1, ReadingDef
  <1>3. EventsOf(wal, id) = {}
    BY <1>1 DEF EventsOf
  <1>4. QED BY <1>1, <1>2, <1>3, BookedNone DEF LastRead

\* For any number of goroutines, orders, crashes and WAL failures, when clients
\* retry one after the other: a restart that reads the log back rebuilds the book
\* of the log, and, as long as no append failed, every order as it was in memory.
THEOREM ReplayExactTheorem == ~ConcurrentRetries => (Spec => []ReplayExact)
  <1>1. EMSInv /\ BookInv => ReplayReadsBook
    <2> SUFFICES ASSUME EMSInv, BookInv, phase = "replaying", replayed = Len(wal),
                        NEW id \in OrderIds
                 PROVE  View(id) = LoggedBook[id]
      BY DEF ReplayReadsBook
    <2>1. Readable /\ View(id) = LastRead(id)
      BY DEF EMSInv, ReadInv, LastRead
    <2>2. QED BY <2>1 DEF BookInv, LoggedBook
  <1>2. EMSInv /\ BookInv => ReplayExact
    BY <1>1, RecoveryFollows DEF ReplayExact
  <1>3. QED BY <1>2, EMSInvInit, EMSInvStep, BookInit, BookStep, PTL DEF Spec

-----------------------------------------------------------------------------
(***************************************************************************)
(* The refinement of OrderLifecycle                                        *)
(***************************************************************************)
\* A fill changes state and sum of an order.
LEMMA FillUpdate ==
    ASSUME NEW u \in Runtime, NEW s, NEW c
    PROVE  [u EXCEPT !.state = s, !.cum = c] = [state |-> s, total |-> u.total, cum |-> c]
  <1>1. PICK v : v = [u EXCEPT !.state = s]
    OBVIOUS
  <1>2. v = [state |-> s, total |-> u.total, cum |-> u.cum]
    BY <1>1 DEF Runtime
  <1>3. [v EXCEPT !.cum = c] = [state |-> s, total |-> u.total, cum |-> c]
    BY <1>2
  <1>4. [u EXCEPT !.state = s, !.cum = c] = [[u EXCEPT !.state = s] EXCEPT !.cum = c]
    OBVIOUS
  <1>5. QED BY <1>1, <1>3, <1>4

\* isValidTransition is within the table of OrderLifecycle.
LEMMA TransitionTable ==
    ASSUME NEW state, NEW target, isValidTransition(state, target)
    PROVE  /\ state \in DOMAIN Abstract!ValidTransitions
           /\ target \in Abstract!ValidTransitions[state]
  <1>1. DOMAIN Abstract!ValidTransitions =
            {"PENDING", "SUBMITTED", "PARTIALLY_FILLED", "PENDING_CANCEL"}
    BY DEF Abstract!ValidTransitions
  <1>2. /\ Abstract!ValidTransitions["PENDING"] = {"SUBMITTED", "REJECTED"}
        /\ Abstract!ValidTransitions["SUBMITTED"] =
               {"PARTIALLY_FILLED", "FILLED", "PENDING_CANCEL", "REJECTED"}
        /\ Abstract!ValidTransitions["PARTIALLY_FILLED"] =
               {"PARTIALLY_FILLED", "FILLED", "PENDING_CANCEL"}
        /\ Abstract!ValidTransitions["PENDING_CANCEL"] = {"CANCELED", "FILLED"}
    BY DEF Abstract!ValidTransitions
  <1>3. QED BY <1>1, <1>2 DEF isValidTransition, Fills

\* The empty log is the empty book.
LEMMA AbstractInit == Init => Abstract!Init
  <1> SUFFICES ASSUME Init PROVE Abstract!Init
    OBVIOUS
  <1>1. wal = <<>> /\ wal \in Seq(Line) /\ DOMAIN wal = {}
    BY DEF Init
  <1>2. \A id \in OrderIds : BookedOrder(wal, id) = NoRuntime
    BY <1>1, BookedNone DEF EventsOf
  <1>3. QED BY <1>2 DEF Abstract!Init, Abstract!NoOrder, LoggedBook, NoRuntime

-----------------------------------------------------------------------------
\* What the refinement needs besides: no append has failed, calls carry the
\* quantities of their inputs, and a partial fill under way leaves some open.
CallFrom(p) ==
    pc[p] # "idle" => /\ call[p].op = "submit" => call[p].total \in Totals
                      /\ call[p].op = "report" => call[p].delta \in Deltas
OpenRest(p) ==
    pc[p] = "wal" /\ call[p].next = "PARTIALLY_FILLED" =>
        heap[call[p].ref].cum < heap[call[p].ref].total

RefInv ==
    /\ MaxWalFailures = 0 /\ walFailures = 0
    /\ \A p \in Procs : CallFrom(p) /\ OpenRest(p)

\* No append has failed at first, and no call was made.
LEMMA RefInit == Init /\ MaxWalFailures = 0 => RefInv
  BY DEF Init, RefInv, CallFrom, OpenRest

\* Without failing appends the log takes the line as the book does.
LEMMA BookChange ==
    ASSUME EMSInv, BookInv, RefInv, NEW p \in Procs, NEW line \in Line, NEW ok, NEW failed,
           WalAppend(p, line, ok, failed), line.ok,
           line.state \in Fills => LastRead(line.id).state # "NONE"
    PROVE  LoggedBook' = [LoggedBook EXCEPT ![line.id] = ReadLine(LastRead(line.id), line)]
  <1>1. LogOK /\ Readable /\ ~walOpen
    BY DEF EMSInv, TypeOK, ExactInv, RefInv
  <1>2. wal' = Append(wal, line)
    BY <1>1 DEF RefInv, WalAppend, AppendOk, AppendFails, Write, LogOK
  <1>3. ASSUME NEW id \in OrderIds
        PROVE  BookedOrder(wal', id) = ReadFor(id, LastRead(id), line)
    <2>1. PICK old, more : old = wal /\ more = wal'
      OBVIOUS
    <2>2. /\ old \in Seq(Line) /\ more \in Seq(Line)
          /\ Len(more) = Len(old) + 1 /\ more[Len(more)] = line
          /\ \A i \in 1..Len(old) : more[i] = old[i]
      BY <1>1, <1>2, <2>1 DEF LogOK
    <2>3. BookedOrder(old, id) = LastRead(id)
      BY <1>1, <2>1 DEF BookInv
    <2>4. line.id = id /\ line.state \in Fills => EventsOf(old, id) # {}
      BY <2>2, <2>3, BookedNone DEF NoRuntime
    <2>5. BookedOrder(more, id) = ReadFor(id, BookedOrder(old, id), line)
      BY <2>2, <2>4, BookAppend
    <2>6. QED BY <2>1, <2>3, <2>5
  <1>4. \A id \in OrderIds : LoggedBook[id] = LastRead(id)
    BY <1>1 DEF BookInv, LoggedBook
  <1>5. QED BY <1>3, <1>4 DEF LoggedBook, ReadFor

\* The PENDING event of SubmitOrder registers the order in the book.
LEMMA RegisterStep ==
    ASSUME EMSInv, BookInv, RefInv, NEW p \in Procs, SubmitAppend(p)
    PROVE  Abstract!Next
  <1> DEFINE id == call[p].id
             line == Event(id, "PENDING", 0, call[p].total)
  <1>1. pc[p] = "append" /\ call[p] \in Call
    BY DEF SubmitAppend, EMSInv, TypeOK, CallsOK
  <1>2. HandlerOK(p) /\ CallFrom(p)
    BY DEF EMSInv, HandlersInv, RefInv
  <1>3. /\ id \in OrderIds /\ call[p].total \in Totals
        /\ \A i \in DOMAIN wal : wal[i].id # id
    BY <1>1, <1>2 DEF HandlerOK, CallFrom, Call
  <1>4. /\ line \in Line /\ line.ok /\ line.state \notin Fills /\ line.id = id
        /\ line.state = "PENDING" /\ line.total = call[p].total
    BY <1>1 DEF Call, Event, Line, OrderStatus, Fills
  <1>5. WalAppend(p, line, "load", "appendFailed")
    BY DEF SubmitAppend
  <1>6. LastRead(id) = NoRuntime /\ LoggedBook[id] = NoRuntime
    <2>1. LogOK
      BY DEF EMSInv, TypeOK
    <2>2. QED BY <1>3, <2>1, ReadingNone, BookedNone DEF LastRead, LogOK, EventsOf, LoggedBook
  <1> HIDE DEF line
  <1>7. LoggedBook' = [LoggedBook EXCEPT ![id] = ReadLine(LastRead(id), line)]
    BY <1>4, <1>5, BookChange
  <1>8. ReadLine(LastRead(id), line) = [state |-> "PENDING", total |-> call[p].total, cum |-> 0]
    BY <1>4, <1>6 DEF ReadLine, NoRuntime, Fills
  <1>9. Abstract!Register(id, call[p].total)
    BY <1>6, <1>7, <1>8 DEF Abstract!Register, Abstract!NoOrder, NoRuntime
  <1>10. QED BY <1>3, <1>9 DEF Abstract!Next

\* The event of TransitionState moves or fills the order in the book.
LEMMA TransitionStep ==
    ASSUME EMSInv, BookInv, RefInv, NEW p \in Procs, TransitionAppend(p)
    PROVE  Abstract!Next
  <1> DEFINE id == call[p].id
             r == call[p].ref
             line == Event(id, call[p].next, call[p].delta, 0)
  <1>1. pc[p] = "wal" /\ pc[p] \in Locked /\ call[p] \in Call /\ ProperTarget(call[p])
    BY DEF TransitionAppend, EMSInv, TypeOK, CallsOK, Locked
  <1>2. HandlerOK(p) /\ CallFrom(p) /\ OpenRest(p)
    BY DEF EMSInv, HandlersInv, RefInv
  <1>3. id \in OrderIds /\ call[p].delta \in Nat /\ call[p].next \in OrderStatus
    BY <1>1 DEF Call
  <1>4. /\ line \in Line /\ line.ok /\ line.id = id /\ line.state = call[p].next
        /\ line.delta = call[p].delta
    BY <1>1 DEF Call, Event, Line
  <1>5. WalAppend(p, line, "set", "walFailed")
    BY DEF TransitionAppend
  <1>6. LogOK /\ Readable /\ HandlerExact(p)
    BY DEF EMSInv, TypeOK, ExactInv, RefInv
  <1>7. /\ LastRead(id).state # "NONE" /\ LastRead(id).total = heap[r].total
        /\ LastRead(id) \in Runtime /\ LoggedBook[id] = LastRead(id)
    BY <1>1, <1>3, <1>6, LockedRead, LastReadType DEF BookInv, LoggedBook
  <1>8. LastRead(id).state = heap[r].state /\ LastRead(id).cum + Added(p) = heap[r].cum
    BY <1>1, <1>6 DEF HandlerExact
  <1>9. isValidTransition(LastRead(id).state, call[p].next)
    BY <1>1, <1>8 DEF EMSInv, LifecycleInv
  <1>10. /\ heap[r].cum <= heap[r].total
    BY <1>1 DEF EMSInv, TypeOK, CallsOK, Locked, Dereferences, ReadInv
  <1> HIDE DEF line
  <1>11. LoggedBook' = [LoggedBook EXCEPT ![id] = ReadLine(LastRead(id), line)]
    BY <1>4, <1>5, <1>7, BookChange
  <1>12. PICK u : u = LastRead(id)
    OBVIOUS
  <1>13. PICK new : new = ReadLine(u, line)
    OBVIOUS
  <1>14. new = [state |-> call[p].next, total |-> u.total, cum |-> u.cum + Added(p)]
    BY <1>4, <1>7, <1>12, <1>13 DEF ReadLine, Added, Runtime
  <1>15. /\ u.state \in DOMAIN Abstract!ValidTransitions
         /\ call[p].next \in Abstract!ValidTransitions[u.state]
    BY <1>9, <1>12, TransitionTable
  <1>16. CASE call[p].next \in Fills
    <2>1. call[p].delta \in Deltas
      BY <1>1, <1>2, <1>16 DEF HandlerOK, CallFrom, ProperTarget, Call, Ops, Fills
    <2>2. Added(p) = call[p].delta
      BY <1>16 DEF Added
    <2>3. new = [u EXCEPT !.state = call[p].next, !.cum = @ + call[p].delta]
      <3>1. PICK c : c = u.cum + call[p].delta
        OBVIOUS
      <3>2. new = [state |-> call[p].next, total |-> u.total, cum |-> c]
        BY <1>14, <2>2, <3>1
      <3>3. new = [u EXCEPT !.state = call[p].next, !.cum = c]
        BY <1>7, <1>12, <3>2, FillUpdate
      <3>4. QED BY <3>1, <3>3
    <2>4. /\ u.cum + call[p].delta <= u.total
          /\ call[p].next = "PARTIALLY_FILLED" => u.cum + call[p].delta < u.total
      BY <1>1, <1>2, <1>7, <1>8, <1>10, <1>12, <2>2 DEF OpenRest
    <2>5. Abstract!Fill(id, call[p].next, call[p].delta)
      BY <1>7, <1>11, <1>12, <1>13, <1>15, <1>16, <2>3, <2>4
         DEF Abstract!Fill, Abstract!Fills, Fills
    <2>6. QED BY <1>3, <1>16, <2>1, <2>5 DEF Abstract!Next, Abstract!Fills, Fills
  <1>17. CASE call[p].next \notin Fills
    <2>1. call[p].next \in {"SUBMITTED", "REJECTED", "PENDING_CANCEL", "CANCELED"}
      BY <1>9, <1>17 DEF isValidTransition, Fills
    <2>2. Added(p) = 0
      BY <1>17 DEF Added
    <2>3. new = [u EXCEPT !.state = call[p].next]
      <3>1. u.cum + 0 = u.cum
        BY <1>7, <1>12 DEF Runtime
      <3>2. new = [state |-> call[p].next, total |-> u.total, cum |-> u.cum]
        BY <1>14, <2>2, <3>1
      <3>3. QED BY <1>7, <1>12, <3>2 DEF Runtime
    <2>4. Abstract!Move(id, call[p].next)
      BY <1>7, <1>11, <1>12, <1>13, <1>15, <1>17, <2>3 DEF Abstract!Move, Abstract!Fills, Fills
    <2>5. QED BY <1>3, <2>1, <2>4 DEF Abstract!Next
  <1>18. QED BY <1>16, <1>17

-----------------------------------------------------------------------------
\* A step of p that begins nothing and locks nothing.
LEMMA RefQuiet ==
    ASSUME EMSInv, RefInv, UNCHANGED walFailures,
           \A q \in Procs : pc'[q] # "idle" => /\ pc[q] # "idle" /\ call'[q].op = call[q].op
                                               /\ call'[q].total = call[q].total
                                               /\ call'[q].delta = call[q].delta,
           \A q \in Procs : pc'[q] = "wal" =>
                /\ pc[q] = "wal" /\ call'[q] = call[q]
                /\ heap'[call[q].ref].cum = heap[call[q].ref].cum
                /\ heap'[call[q].ref].total = heap[call[q].ref].total
    PROVE  RefInv'
  <1>1. ASSUME NEW q \in Procs PROVE CallFrom(q)'
    BY DEF RefInv, CallFrom
  <1>2. ASSUME NEW q \in Procs PROVE OpenRest(q)'
    BY DEF RefInv, OpenRest
  <1>3. QED BY <1>1, <1>2 DEF RefInv

\* A new call carries quantities of its inputs.
LEMMA RefBegin ==
    ASSUME EMSInv, RefInv, NEW p \in Procs, Begin(p)
    PROVE  RefInv'
  <1>0. /\ call \in [Procs -> Call \cup {NoCall}] /\ pc \in [Procs -> ControlState]
        /\ \A q \in Procs : CallFrom(q) /\ OpenRest(q)
    BY DEF EMSInv, TypeOK, CallsOK, RefInv
  <1>1. /\ UNCHANGED <<walFailures, heap>> /\ pc'[p] # "wal"
        /\ \A q \in Procs : q # p => pc'[q] = pc[q] /\ call'[q] = call[q]
    BY <1>0 DEF Begin, SubmitBegin, CancelBegin, ReportBegin, Goto, Answer, memory, log
  <1>2. /\ call'[p].op = "submit" => call'[p].total \in Totals
        /\ call'[p].op = "report" => call'[p].delta \in Deltas
    <2>1. ASSUME NEW id \in OrderIds, NEW quantity \in Quantities, SubmitBegin(p, id, quantity)
          PROVE  call'[p].op = "submit" /\ call'[p].total \in Totals
      <3>1. PICK total : total = ToInt32(quantity)
        OBVIOUS
      <3>2. call'[p] = [NewCall("submit", id, total, "SUBMITTED", 0) EXCEPT !.ref = orders[id]]
        BY <1>0, <2>1, <3>1 DEF SubmitBegin
      <3>3. call'[p].op = "submit" /\ call'[p].total = total
        BY <3>2 DEF NewCall
      <3>4. QED BY <3>1, <3>3 DEF Totals
    <2>2. ASSUME NEW id \in OrderIds, CancelBegin(p, id) PROVE call'[p].op = "cancel"
      BY <1>0, <2>2 DEF CancelBegin, NewCall
    <2>3. ASSUME NEW id \in OrderIds, NEW target, NEW delta \in Deltas,
                 ReportBegin(p, id, target, delta)
          PROVE  call'[p].op = "report" /\ call'[p].delta = delta
      BY <1>0, <2>3 DEF ReportBegin, NewCall
    <2>4. QED BY <2>1, <2>2, <2>3 DEF Begin
  <1>3. ASSUME NEW q \in Procs PROVE CallFrom(q)' /\ OpenRest(q)'
    BY <1>0, <1>1, <1>2, <1>3 DEF CallFrom, OpenRest
  <1>4. QED BY <1>1, <1>3 DEF RefInv

\* TransitionState takes the lock and adds the fill.
LEMMA RefLock ==
    ASSUME EMSInv, RefInv, NEW p \in Procs, TransitionLock(p)
    PROVE  RefInv'
  <1> DEFINE r == call[p].ref
  <1>0. /\ call \in [Procs -> Call \cup {NoCall}] /\ pc \in [Procs -> ControlState]
        /\ pc[p] = "lock" /\ r \in Refs /\ heap \in [Refs -> Runtime] /\ call[p] \in Call
        /\ lock[r] = NoProc
        /\ \A q \in Procs : CallFrom(q) /\ OpenRest(q)
    BY DEF EMSInv, TypeOK, CallsOK, MemoryOK, Dereferences, RefInv, TransitionLock
  <1>1. UNCHANGED walFailures
    BY DEF TransitionLock, log
  <1>2. /\ call' = [call EXCEPT ![p].next = NextState(p)]
        /\ heap' = [heap EXCEPT ![r].cum = CumQty(p)]
        /\ pc' = [pc EXCEPT ![p] = "wal"] /\ ~Overfill(p)
    BY DEF TransitionLock, Goto
  <1>3. CallFrom(p)' /\ OpenRest(p)'
    <2>1. /\ call'[p].op = call[p].op /\ call'[p].total = call[p].total
          /\ call'[p].delta = call[p].delta /\ call'[p].ref = r /\ call'[p].next = NextState(p)
      BY <1>0, <1>2 DEF Call
    <2>2. CallFrom(p)'
      BY <1>0, <2>1 DEF CallFrom
    <2>3. heap'[r].cum = CumQty(p) /\ heap'[r].total = heap[r].total
      BY <1>0, <1>2 DEF Runtime
    <2>4. CumQty(p) \in Nat /\ heap[r].total \in Nat
      BY <1>0 DEF CumQty, Runtime, Call
    <2>5. NextState(p) = "PARTIALLY_FILLED" => CumQty(p) < heap[r].total
      BY <1>2, <2>4 DEF NextState, Overfill, Fills
    <2>6. OpenRest(p)'
      BY <2>1, <2>3, <2>5 DEF OpenRest
    <2>7. QED BY <2>2, <2>6
  <1>4. ASSUME NEW q \in Procs, q # p PROVE CallFrom(q)' /\ OpenRest(q)'
    <2>1. pc'[q] = pc[q] /\ call'[q] = call[q]
      BY <1>0, <1>2, <1>4
    <2>2. pc[q] = "wal" => call[q].ref # r /\ call[q].ref \in Refs
      BY <1>0 DEF EMSInv, LifecycleInv, Locked, TypeOK, CallsOK, Dereferences
    <2>3. pc[q] = "wal" => heap'[call[q].ref] = heap[call[q].ref]
      BY <1>0, <1>2, <2>2
    <2>4. QED BY <1>0, <2>1, <2>3 DEF CallFrom, OpenRest
  <1>5. QED BY <1>1, <1>3, <1>4 DEF RefInv

\* Every step keeps it.
LEMMA RefStep == EMSInv /\ RefInv /\ [Next]_vars => RefInv'
  <1> SUFFICES ASSUME EMSInv, RefInv, [Next]_vars PROVE RefInv'
    OBVIOUS
  <1>0. /\ call \in [Procs -> Call \cup {NoCall}] /\ pc \in [Procs -> ControlState]
        /\ heap \in [Refs -> Runtime]
        /\ \A q \in Procs : pc[q] # "idle" => call[q] \in Call
        /\ \A q \in Procs : pc[q] \in Locked => call[q].ref \in Refs /\ lock[call[q].ref] = q
        /\ phase # "serving" => \A q \in Procs : ~InFlight(q)
    BY DEF EMSInv, TypeOK, CallsOK, MemoryOK, LifecycleInv, Locked, Dereferences
  <1>1. ASSUME NEW p \in Procs, SubmitRetry(p) \/ SubmitCheck(p) \/ CancelState(p)
                                \/ TransitionLoad(p) \/ TransitionBlocked(p)
        PROVE  RefInv'
    <2>1. /\ UNCHANGED <<walFailures, heap>> /\ pc[p] # "idle" /\ pc'[p] # "wal"
          /\ \A q \in Procs : q # p => pc'[q] = pc[q] /\ call'[q] = call[q]
      BY <1>0, <1>1 DEF SubmitRetry, SubmitCheck, CancelState, TransitionLoad,
         TransitionBlocked, ReturnError, Answer, Goto, memory, log
    <2>2. /\ call'[p].op = call[p].op /\ call'[p].total = call[p].total
          /\ call'[p].delta = call[p].delta
      BY <1>0, <1>1, <2>1 DEF SubmitRetry, SubmitCheck, CancelState, TransitionLoad,
         TransitionBlocked, ReturnError, Call
    <2>3. QED BY <2>1, <2>2, RefQuiet
  <1>2. ASSUME NEW p \in Procs, SubmitAppend(p) \/ TransitionAppend(p)
        PROVE  RefInv'
    <2>1. /\ UNCHANGED <<walFailures, heap, call>> /\ pc[p] # "idle" /\ pc'[p] # "wal"
          /\ \A q \in Procs : q # p => pc'[q] = pc[q]
      BY <1>0, <1>2 DEF SubmitAppend, TransitionAppend, WalAppend, AppendOk, AppendFails,
         RefInv, Goto, memory
    <2>2. QED BY <2>1, RefQuiet
  <1>3. ASSUME NEW p \in Procs, SubmitStore(p) \/ SubmitAppendFailed(p)
        PROVE  RefInv'
    <2>1. /\ UNCHANGED <<walFailures, call>> /\ pc[p] # "idle" /\ pc'[p] # "wal"
          /\ \A q \in Procs : q # p => pc'[q] = pc[q]
          /\ \A r \in Refs : (r # p \/ pc[p] # "store") => heap'[r] = heap[r]
      BY <1>0, <1>3 DEF SubmitStore, SubmitAppendFailed, Answer, Goto, log
    <2>2. ASSUME NEW q \in Procs, pc[q] = "wal", pc[p] = "store" PROVE call[q].ref # p
      <3>1. HandlerOK(q)
        BY DEF EMSInv, HandlersInv
      <3>2. heap[call[q].ref].state # "NONE"
        BY <2>2, <3>1 DEF HandlerOK, Belongs, Dereferences
      <3>3. heap[p].state = "NONE"
        BY <2>2 DEF EMSInv, LifecycleInv
      <3>4. QED BY <3>2, <3>3
    <2>3. \A q \in Procs : pc[q] = "wal" => heap'[call[q].ref] = heap[call[q].ref]
      BY <1>0, <2>1, <2>2 DEF Locked
    <2>4. QED BY <2>1, <2>3, RefQuiet
  <1>4. ASSUME NEW p \in Procs, TransitionSet(p) \/ TransitionWalFailed(p)
        PROVE  RefInv'
    <2>1. pc[p] \in Locked /\ pc[p] # "wal" /\ call[p].ref \in Refs /\ call[p] \in Call
      BY <1>0, <1>4 DEF TransitionSet, TransitionWalFailed, Locked
    <2>2. /\ UNCHANGED walFailures /\ pc'[p] # "wal"
          /\ \A q \in Procs : q # p => pc'[q] = pc[q] /\ call'[q] = call[q]
      BY <1>0, <1>4 DEF TransitionSet, TransitionWalFailed, ReturnOk, ReturnError, Answer, Goto, log
    <2>3. /\ call'[p].op = call[p].op /\ call'[p].total = call[p].total
          /\ call'[p].delta = call[p].delta
      BY <1>0, <1>4, <2>1 DEF TransitionSet, TransitionWalFailed, ReturnOk, ReturnError, Call
    <2>4. \A r \in Refs : r # call[p].ref => heap'[r] = heap[r]
      BY <1>0, <1>4 DEF TransitionSet, TransitionWalFailed, SetState
    <2>5. \A q \in Procs : pc[q] = "wal" => call[q].ref # call[p].ref /\ call[q].ref \in Refs
      BY <1>0, <2>1 DEF Locked
    <2>6. QED BY <2>1, <2>2, <2>3, <2>4, <2>5, RefQuiet DEF Locked
  <1>5. CASE Crash \/ \E p \in Procs : TransitionPanic(p)
    <2>1. /\ UNCHANGED <<walFailures, call>>
          /\ pc' = [p \in Procs |-> IF pc[p] = "idle" THEN "idle" ELSE "done"]
      BY <1>5 DEF Crash, TransitionPanic, Die
    <2>2. QED BY <2>1, RefQuiet
  <1>6. CASE Startup
    <2>1. UNCHANGED <<walFailures, pc, call>> /\ phase # "serving"
      BY <1>6 DEF Startup, Restart, Replay, Serve, log
    <2>2. \A q \in Procs : pc[q] # "wal"
      BY <1>0, <2>1 DEF InFlight
    <2>3. QED BY <2>1, <2>2, RefQuiet
  <1>7. CASE ForcePause \/ UNCHANGED vars
    <2>1. UNCHANGED <<walFailures, pc, call, heap>>
      BY <1>7 DEF ForcePause, vars, log
    <2>2. QED BY <2>1, RefQuiet
  <1>8. QED BY <1>1, <1>2, <1>3, <1>4, <1>5, <1>6, <1>7, RefBegin, RefLock
     DEF Next, Step, Submit, TransitionState

\* For any number of goroutines, orders and crashes: when no append fails and
\* clients retry one after the other, the log of the EMS is an execution of
\* OrderLifecycle.
THEOREM RefinementTheorem ==
    ~ConcurrentRetries /\ MaxWalFailures = 0 => (Spec => ImplementsOrderLifecycle)
  <1>1. EMSInv /\ BookInv /\ RefInv /\ [Next]_vars => [Abstract!Next]_LoggedBook
    <2> SUFFICES ASSUME EMSInv, BookInv, RefInv, [Next]_vars
                 PROVE  [Abstract!Next]_LoggedBook
      OBVIOUS
    <2>1. (\E p \in Procs : SubmitAppend(p) \/ TransitionAppend(p)) \/ UNCHANGED wal
      BY LogWriters
    <2>2. CASE UNCHANGED wal
      BY <2>2 DEF LoggedBook
    <2>3. QED BY <2>1, <2>2, RegisterStep, TransitionStep
  <1>2. QED
    BY <1>1, EMSInvInit, EMSInvStep, BookInit, BookStep, RefInit, RefStep, AbstractInit, PTL
       DEF Spec, ImplementsOrderLifecycle, Abstract!Spec
=============================================================================
