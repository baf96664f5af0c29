---------------------------- MODULE EMSRefinement ---------------------------
(***************************************************************************)
(* The log of the EMS is an execution of OrderLifecycle: reading the log   *)
(* up to any point gives the abstract book.  A crash, a restart and every  *)
(* step in memory map to stuttering.                                       *)
(***************************************************************************)
EXTENDS EMS, FiniteSetsExt

\* The fills of the order up to each line.
Filled(lines, id) ==
    LET sum[n \in 0..Len(lines)] ==
            IF n = 0 THEN 0
            ELSE sum[n - 1] + (IF lines[n].id = id /\ lines[n].state \in Fills
                               THEN lines[n].delta ELSE 0)
    IN  sum

\* The order a reader of the whole log sees: quantity of its first event, state
\* of its last, and the sum of its fills.
BookedOrder(lines, id) ==
    LET events == {i \in DOMAIN lines : lines[i].id = id}
    IN  IF events = {} THEN NoRuntime
        ELSE [state |-> lines[Max(events)].state,
              total |-> lines[Min(events)].total,
              cum   |-> Filled(lines, id)[Len(lines)]]

LoggedBook == [id \in OrderIds |-> BookedOrder(wal, id)]

Totals == {ToInt32(q) : q \in Quantities}

Abstract == INSTANCE OrderLifecycle
    WITH book <- LoggedBook

\* As long as appends succeed and clients retry one after the other, the log
\* records exactly a behaviour of OrderLifecycle, whatever the goroutines and
\* crashes do: PENDING first and once, then valid transitions, no over-fill.
ImplementsOrderLifecycle == Abstract!Spec

\* What RecoverFromWAL rebuilds event by event is that book.
ReplayReadsBook ==
    phase = "replaying" /\ replayed = Len(wal) =>
        \A id \in OrderIds : View(id) = LoggedBook[id]

\* Replay rebuilds the book of the log, torn lines included, and, as long as no
\* append fails, the orders as they were in memory.
ReplayExact == ReplayReadsBook /\ RecoveryExact
=============================================================================
