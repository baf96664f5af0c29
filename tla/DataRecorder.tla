---------------------------- MODULE DataRecorder ----------------------------
(***************************************************************************)
(* The data recorder (cmd/data_recorder): a receiver goroutine puts ticks  *)
(* and bars from ZeroMQ into a bounded channel, a flush worker collects    *)
(* them into batches and inserts each batch in one transaction, and        *)
(* SIGUSR1 makes a third goroutine archive the stored bars to a file.      *)
(*                                                                         *)
(* A record is the number of the message that brought it.                  *)
(***************************************************************************)
EXTENDS Integers, Sequences

CONSTANTS MaxRecords,       \* bound: messages received
          Bars,             \* those of them that are bars, of one symbol and day
          Capacity,         \* of the records channel (10000)
          batchSize,
          MaxFlushFailures, \* bound: batches the database refuses
          MaxSignals        \* bound: SIGUSR1

Records == 1..MaxRecords

ASSUME RecorderAssumption ==
    /\ MaxRecords \in Nat
    /\ Bars \subseteq Records
    /\ Capacity \in Nat \ {0}
    /\ batchSize \in Nat \ {0}
    /\ MaxFlushFailures \in Nat
    /\ MaxSignals \in Nat

VARIABLES cancelled,      \* the context is done
          receiver,       \* "top", "recv", "send", "gone"
          arrived,        \* messages received; the last one is in the hands of
                          \* a receiver at "send"
          records,        \* the channel
          worker,         \* "run", "drain", "gone", or a flush in either of them
          batch,
          db,             \* committed rows
          archiver,       \* "idle", "open", "write", "gone"
          signalled,      \* sigChan, of capacity 1
          rows,           \* the bars the archiver has read
          file,           \* the archive: absent, partial, or whole with its rows
          dropped,        \* history: records of refused batches
          flushFailures, signals

receiving == <<receiver, arrived>>
archiving == <<archiver, signalled, rows, file, signals>>
storing == <<db, dropped, flushFailures>>
recorderVars == <<cancelled, records, worker, batch, receiving, storing, archiving>>

NoFile == [state |-> "none", rows |-> {}]
PartialFile == [state |-> "partial", rows |-> {}]
WholeFile(r) == [state |-> "whole", rows |-> r]

RangeOf(seq) == {seq[i] : i \in DOMAIN seq}

-----------------------------------------------------------------------------
(***************************************************************************)
(* runReceiverLoop                                                         *)
(***************************************************************************)
\* MUTANT: the loop does not look at the context between messages.
LoopTop_NoCheck ==
    /\ receiver = "top"
    /\ receiver' = "recv"
    /\ UNCHANGED <<cancelled, arrived, records, worker, batch, storing, archiving>>

LoopTop ==
    /\ receiver = "top"
    /\ receiver' = IF cancelled THEN "gone" ELSE "recv"
    /\ UNCHANGED <<cancelled, arrived, records, worker, batch, storing, archiving>>

\* Recv may still return a message after the context has ended.
Receive ==
    /\ receiver = "recv"
    /\ arrived < MaxRecords
    /\ arrived' = arrived + 1
    /\ receiver' = "send"
    /\ UNCHANGED <<cancelled, records, worker, batch, storing, archiving>>

\* An error, or a message that is neither a tick nor a bar.
ReceiveNothing ==
    /\ receiver = "recv"
    /\ receiver' = IF cancelled THEN "gone" ELSE "top"
    /\ UNCHANGED <<cancelled, arrived, records, worker, batch, storing, archiving>>

\* A full channel holds the receiver back.
Send ==
    /\ receiver = "send"
    /\ Len(records) < Capacity
    /\ records' = Append(records, arrived)
    /\ receiver' = "top"
    /\ UNCHANGED <<cancelled, arrived, worker, batch, storing, archiving>>

\* The other branch of the select around the send; with room in the channel and
\* the context ended, either may be taken.
GiveUpSend ==
    /\ receiver = "send"
    /\ cancelled
    /\ receiver' = "gone"
    /\ UNCHANGED <<cancelled, arrived, records, worker, batch, storing, archiving>>

-----------------------------------------------------------------------------
(***************************************************************************)
(* runFlushWorker                                                          *)
(***************************************************************************)
Flushing(w) == CASE w = "run" -> "flushRun" [] w = "drain" -> "flushDrain"
Resume(w) == CASE w = "flushRun" -> "run" [] w = "flushDrain" -> "drain"
               [] w = "flushLast" -> "gone"

\* Take a record, in the main loop or while draining.
Take ==
    /\ worker \in {"run", "drain"}
    /\ records # <<>>
    /\ batch' = Append(batch, Head(records))
    /\ records' = Tail(records)
    /\ worker' = IF Len(batch) + 1 >= batchSize THEN Flushing(worker) ELSE worker
    /\ UNCHANGED <<cancelled, receiving, storing, archiving>>

TickerFires ==
    /\ worker = "run"
    /\ batch # <<>>
    /\ worker' = "flushRun"
    /\ UNCHANGED <<cancelled, records, batch, receiving, storing, archiving>>

StartDrain ==
    /\ worker = "run"
    /\ cancelled
    /\ worker' = "drain"
    /\ UNCHANGED <<cancelled, records, batch, receiving, storing, archiving>>

\* MUTANT: the drain ranges over the channel, which nobody closes.
EndDrain_AwaitsClose == FALSE

\* The channel is empty: flush what is left and return.
EndDrain ==
    /\ worker = "drain"
    /\ records = <<>>
    /\ worker' = IF batch = <<>> THEN "gone" ELSE "flushLast"
    /\ UNCHANGED <<cancelled, records, batch, receiving, storing, archiving>>

InFlush == worker \in {"flushRun", "flushDrain", "flushLast"}

\* MUTANT: the batch is kept after the commit.
FlushCommits_KeepsBatch ==
    /\ InFlush
    /\ db' = db \o batch
    /\ worker' = Resume(worker)
    /\ UNCHANGED <<cancelled, records, batch, dropped, flushFailures, receiving, archiving>>

\* flushBatch inserts the batch in one transaction ...
FlushCommits ==
    /\ InFlush
    /\ db' = db \o batch
    /\ batch' = <<>>
    /\ worker' = Resume(worker)
    /\ UNCHANGED <<cancelled, records, dropped, flushFailures, receiving, archiving>>

\* ... or fails and is rolled back; the batch is dropped all the same.
FlushFails ==
    /\ InFlush
    /\ flushFailures < MaxFlushFailures
    /\ flushFailures' = flushFailures + 1
    /\ dropped' = dropped \cup RangeOf(batch)
    /\ batch' = <<>>
    /\ worker' = Resume(worker)
    /\ UNCHANGED <<cancelled, records, db, receiving, archiving>>

-----------------------------------------------------------------------------
(***************************************************************************)
(* ArchiveDay, on SIGUSR1                                                  *)
(***************************************************************************)
Exited == worker = "gone" /\ receiver = "gone"

Sigusr1 ==
    /\ ~Exited
    /\ signals < MaxSignals
    /\ signals' = signals + 1
    /\ signalled' = TRUE
    /\ UNCHANGED <<cancelled, records, worker, batch, receiving, storing, archiver, rows, file>>

\* The query reads the committed bars, or fails; without bars there is no file.
ArchiveQuery ==
    /\ ~Exited
    /\ archiver = "idle"
    /\ signalled
    /\ signalled' = FALSE
    /\ rows' = RangeOf(db) \cap Bars
    /\ archiver' \in IF rows' = {} \/ cancelled THEN {"idle"} ELSE {"idle", "open"}
    /\ UNCHANGED <<cancelled, records, worker, batch, receiving, storing, file, signals>>

\* The file is truncated first ...
ArchiveOpen ==
    /\ ~Exited
    /\ archiver = "open"
    /\ file' = PartialFile
    /\ archiver' = "write"
    /\ UNCHANGED <<cancelled, records, worker, batch, receiving, storing, signalled, rows, signals>>

\* ... and then written; an error leaves it as it is.
ArchiveWrite ==
    /\ ~Exited
    /\ archiver = "write"
    /\ file' \in {file, WholeFile(rows)}
    /\ archiver' = "idle"
    /\ UNCHANGED <<cancelled, records, worker, batch, receiving, storing, signalled, rows, signals>>

ArchiverStops ==
    /\ cancelled
    /\ archiver = "idle"
    /\ archiver' = "gone"
    /\ UNCHANGED <<cancelled, records, worker, batch, receiving, storing, signalled, rows, file,
                   signals>>

\* main's context ends, and Stop waits for the worker and the receiver.
Cancel ==
    /\ ~cancelled
    /\ cancelled' = TRUE
    /\ UNCHANGED <<records, worker, batch, receiving, storing, archiving>>

-----------------------------------------------------------------------------
RecorderInit ==
    /\ cancelled = FALSE
    /\ receiver = "top"
    /\ arrived = 0
    /\ records = <<>>
    /\ worker = "run"
    /\ batch = <<>>
    /\ db = <<>>
    /\ archiver = "idle"
    /\ signalled = FALSE
    /\ rows = {}
    /\ file = NoFile
    /\ dropped = {}
    /\ flushFailures = 0
    /\ signals = 0

Receiver == LoopTop \/ Receive \/ ReceiveNothing \/ Send \/ GiveUpSend
Worker == Take \/ TickerFires \/ StartDrain \/ EndDrain \/ FlushCommits \/ FlushFails
Archive == ArchiveQuery \/ ArchiveOpen \/ ArchiveWrite \/ ArchiverStops

RecorderNext == Receiver \/ Worker \/ Sigusr1 \/ Archive \/ Cancel

RecorderSpec == RecorderInit /\ [][RecorderNext]_recorderVars

\* The scheduler runs both goroutines, the ticker ticks, a flush ends within its
\* timeout, and Recv returns once its context has ended.  A select that is reached
\* over and over with the context done takes that branch in the end.
RecorderFairSpec ==
    /\ RecorderSpec
    /\ WF_recorderVars(LoopTop) /\ WF_recorderVars(cancelled /\ ReceiveNothing)
    /\ WF_recorderVars(Send \/ GiveUpSend)
    /\ WF_recorderVars(Take) /\ WF_recorderVars(TickerFires) /\ SF_recorderVars(StartDrain)
    /\ WF_recorderVars(EndDrain) /\ WF_recorderVars(FlushCommits \/ FlushFails)

-----------------------------------------------------------------------------
(***************************************************************************)
(* Properties                                                              *)
(***************************************************************************)
\* Type invariant; the channel and the batch respect their bounds.
RecorderTypeOK ==
    /\ cancelled \in BOOLEAN
    /\ receiver \in {"top", "recv", "send", "gone"}
    /\ arrived \in Nat
    /\ records \in Seq(Nat) /\ Len(records) <= Capacity
    /\ worker \in {"run", "drain", "gone", "flushRun", "flushDrain", "flushLast"}
    /\ batch \in Seq(Nat) /\ Len(batch) <= batchSize
    /\ db \in Seq(Nat)
    /\ archiver \in {"idle", "open", "write", "gone"}
    /\ signalled \in BOOLEAN
    /\ rows \subseteq Nat
    /\ file \in [state : {"none", "partial", "whole"}, rows : SUBSET Nat]
    /\ dropped \subseteq Nat
    /\ flushFailures \in Nat /\ signals \in Nat

\* What is inside the recorder, oldest first, and what was put there.
Pipeline == db \o batch \o records
Enqueued == IF receiver \in {"send", "gone"} /\ arrived \notin RangeOf(Pipeline)
            THEN arrived - 1 ELSE arrived

\* As long as no flush fails, the database, the batch and the channel together
\* hold exactly the records that were enqueued, once each and in order: records
\* taken while the worker drains or a flush is running are neither repeated,
\* reordered nor skipped.
NothingLostOrRepeated == dropped = {} => Pipeline = [i \in 1..Enqueued |-> i]

\* When the recorder has shut down, every record that was received is in the
\* database, except those of refused batches, the one the receiver gave up on,
\* and at most one that it sent after the worker had found the channel empty.
ShutdownLosesLittle ==
    Exited =>
        /\ Len(records) <= 1
        /\ 1..arrived \subseteq RangeOf(db) \cup dropped \cup RangeOf(records) \cup {arrived}

\* A whole archive holds nothing but bars that are in the database, although the
\* worker goes on flushing, and failing, while the archive is written.
ArchivedAreStored == file.state = "whole" => file.rows \subseteq RangeOf(db) \cap Bars

\* Rows exist once, in order, and the archive has no others.
StoredOnce == NothingLostOrRepeated /\ ArchivedAreStored

\* What keeps StoredOnce and ShutdownLosesLittle.  The pipeline ends with the last
\* record received, or the one before while the receiver holds it.  The worker
\* leaves with an empty batch, and after it found the channel empty only the
\* record in the hands of the receiver can follow.
PipelineExact(n) == Pipeline = [i \in 1..n |-> i]

RecorderInv ==
    /\ RecorderTypeOK
    /\ worker \in {"run", "drain"} => Len(batch) < batchSize
    /\ worker = "gone" => batch = <<>>
    /\ worker \notin {"run", "flushRun"} => cancelled
    /\ worker \in {"flushLast", "gone"} =>
          Len(records) + (IF receiver \in {"recv", "send"} THEN 1 ELSE 0) <= 1
    /\ receiver = "send" => arrived > 0
    /\ dropped = {} => \/ receiver # "send" /\ PipelineExact(arrived)
                       \/ /\ receiver \in {"send", "gone"} /\ arrived > 0
                          /\ PipelineExact(arrived - 1)
    /\ \A r \in 1..arrived : \/ r \in RangeOf(Pipeline) \cup dropped
                             \/ r = arrived /\ receiver \in {"send", "gone"}
    /\ rows \subseteq RangeOf(db) \cap Bars
    /\ ArchivedAreStored

\* A record that reached the channel is flushed by the ticker, unless the
\* recorder is shut down.
RecordsFlushed ==
    \A rec \in Records :
        rec \in RangeOf(records) \cup RangeOf(batch) ~>
            \/ rec \notin RangeOf(records) \cup RangeOf(batch)
            \/ cancelled

\* Stop returns: neither goroutine waits for the other for good, wherever the
\* end of the context finds the two of them.
StopReturns == cancelled ~> Exited

\* Records do not wait for good, neither for the ticker nor for the shutdown.
RecorderProceeds == RecordsFlushed /\ StopReturns
=============================================================================
