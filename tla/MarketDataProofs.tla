-------------------------- MODULE MarketDataProofs --------------------------
(***************************************************************************)
(* The market data path, for every value of the constants.  The gateway    *)
(* (MDG): no control command is forgotten, unless a watcher that first     *)
(* runs after its connection has ended takes its signal.  The recorder     *)
(* (DataRecorder): rows are stored once and in order, and a shutdown loses *)
(* next to nothing.                                                        *)
(***************************************************************************)
EXTENDS MDG, DataRecorder, SequenceTheorems, TLAPS

\* The initial state is well typed and nothing is on its way.
LEMMA InitInvariant == Init => TypeOK /\ SignalInv
<1> SUFFICES ASSUME Init PROVE TypeOK /\ SignalInv
    OBVIOUS
<1>1. /\ token \in BOOLEAN /\ ingestDone \in BOOLEAN
      /\ stolen \in BOOLEAN /\ stopped \in BOOLEAN
    BY DEF Init
<1>2. TypeOK
    BY <1>1 DEF Init, TypeOK
<1>3. SignalInv
    BY DEF Init, SignalInv, SignalOnItsWay
<1> QED
    BY <1>2, <1>3

\* Every step keeps the types.
LEMMA TypeStep == TypeOK /\ [Next]_vars => TypeOK'
<1> SUFFICES ASSUME TypeOK, [Next]_vars PROVE TypeOK'
    OBVIOUS
<1> USE GatewayAssumption DEF TypeOK, configuring, connection
<1>0. /\ token \in BOOLEAN /\ ingestDone \in BOOLEAN
      /\ stolen \in BOOLEAN /\ stopped \in BOOLEAN
    OBVIOUS
<1>1. CASE \E c \in Config : Command(c)
    BY <1>1 DEF Command
<1>2. CASE Signal
  <2>1. token' \in BOOLEAN
      BY <1>0, <1>2 DEF Signal
  <2> QED
      BY <1>2, <2>1 DEF Signal
<1>3. CASE ReadConfig
  <2>1. ingestDone' \in BOOLEAN
      BY <1>0, <1>3 DEF ReadConfig
  <2> QED
      BY <1>3, <2>1 DEF ReadConfig
<1>4. CASE Wait
  <2>1. token' \in BOOLEAN
      BY <1>0, <1>4 DEF Wait
  <2>2. loop' \in {"read", "pausedParked", "backoffParked"}
      BY <1>4 DEF Wait, Parked
  <2> QED
      BY <1>4, <2>1, <2>2 DEF Wait
<1>5. CASE BackoffElapses \/ LoopStops \/ Connected
    BY <1>5 DEF BackoffElapses, LoopStops, Connected
<1>6. CASE ConnectionEnds
  <2>1. ingestDone' \in BOOLEAN /\ stolen' \in BOOLEAN
      BY <1>0, <1>6 DEF ConnectionEnds, CancelIngest
  <2>2. loop' \in {"read", "backoff"} /\ stale' \in Nat
      BY <1>6 DEF ConnectionEnds, CancelIngest
  <2> QED
      BY <1>6, <2>1, <2>2 DEF ConnectionEnds, CancelIngest
<1>7. CASE WatcherStarts
    BY <1>7 DEF WatcherStarts
<1>8. CASE WatcherCancels \/ StaleStarts
  <2>1. token' \in BOOLEAN /\ ingestDone' \in BOOLEAN /\ stolen' \in BOOLEAN
      BY <1>0, <1>8 DEF WatcherCancels, StaleStarts
  <2> QED
      BY <1>8, <2>1 DEF WatcherCancels, StaleStarts
<1>9. CASE Stop
    BY <1>9 DEF Stop
<1>10. CASE UNCHANGED vars
    BY <1>10 DEF vars
<1> QED
    BY <1>1, <1>2, <1>3, <1>4, <1>5, <1>6, <1>7, <1>8, <1>9, <1>10 DEF Next, Loop, Watcher

\* Type correctness of the gateway.
THEOREM TypeCorrect == Spec => []TypeOK
<1>1. Init => TypeOK
    BY InitInvariant
<1> QED
    BY <1>1, TypeStep, PTL DEF Spec

\* Every step keeps the signal of an unread configuration on its way.
LEMMA SignalStep == TypeOK /\ SignalInv /\ [Next]_vars => SignalInv'
<1> SUFFICES ASSUME TypeOK, SignalInv, [Next]_vars PROVE SignalInv'
    OBVIOUS
<1> USE DEF TypeOK, SignalInv, SignalOnItsWay, configuring, connection
\* A command leaves its signal to be sent.
<1>1. CASE \E c \in Config : Command(c)
    BY <1>1 DEF Command
\* The signal goes to the one that is parked, or into the buffer.
<1>2. CASE Signal
    BY <1>2 DEF Signal
<1>3. CASE ReadConfig
    BY <1>3 DEF ReadConfig
<1>4. CASE Wait
    BY <1>4 DEF Wait, Parked
<1>5. CASE BackoffElapses \/ LoopStops \/ Connected
    BY <1>5 DEF BackoffElapses, LoopStops, Connected
\* A connection that ends leads to a new reading of the configuration.
<1>6. CASE ConnectionEnds
    BY <1>6 DEF ConnectionEnds, CancelIngest
<1>7. CASE WatcherStarts
    BY <1>7 DEF WatcherStarts
<1>8. CASE WatcherCancels
    BY <1>8 DEF WatcherCancels
<1>9. CASE StaleStarts
    BY <1>9 DEF StaleStarts
<1>10. CASE Stop
    BY <1>10 DEF Stop
<1>11. CASE UNCHANGED vars
    BY <1>11 DEF vars
<1> QED
    BY <1>1, <1>2, <1>3, <1>4, <1>5, <1>6, <1>7, <1>8, <1>9, <1>10, <1>11
    DEF Next, Loop, Watcher

\* No command is forgotten: SignalInv is inductive and implies SignalOnItsWay.
THEOREM SignalsKept == Spec => []SignalOnItsWay
<1>1. Init => SignalInv
    BY InitInvariant
<1>2. SignalInv => SignalOnItsWay
    BY DEF SignalInv
<1> QED
    BY <1>1, <1>2, TypeCorrect, SignalStep, PTL DEF Spec

-----------------------------------------------------------------------------
(***************************************************************************)
(* The recorder                                                            *)
(***************************************************************************)
LEMMA SameRange ==
    ASSUME NEW s \in Seq(Nat), NEW t \in Seq(Nat)
    PROVE  /\ RangeOf(s \o t) = RangeOf(s) \cup RangeOf(t)
           /\ RangeOf(<<>>) = {}
           /\ \A x \in Nat : RangeOf(Append(s, x)) = RangeOf(s) \cup {x}
<1>1. RangeOf(s \o t) \subseteq RangeOf(s) \cup RangeOf(t)
    BY DEF RangeOf
<1>2. RangeOf(s) \subseteq RangeOf(s \o t)
    BY DEF RangeOf
<1>3. ASSUME NEW i \in DOMAIN t PROVE t[i] \in RangeOf(s \o t)
  <2>1. Len(s) + i \in DOMAIN (s \o t) /\ (s \o t)[Len(s) + i] = t[i]
      OBVIOUS
  <2> QED BY <2>1 DEF RangeOf
<1>4. RangeOf(<<>>) = {}
    BY DEF RangeOf
<1>5. ASSUME NEW x \in Nat PROVE RangeOf(Append(s, x)) = RangeOf(s) \cup {x}
  <2> DEFINE u == Append(s, x)
  <2>1. /\ DOMAIN u = 1..(Len(s) + 1) /\ u[Len(s) + 1] = x /\ DOMAIN s = 1..Len(s)
        /\ Len(s) \in Nat /\ \A i \in 1..Len(s) : u[i] = s[i]
      OBVIOUS
  <2> HIDE DEF u
  <2>2. RangeOf(u) \subseteq RangeOf(s) \cup {x}
      BY <2>1 DEF RangeOf
  <2>3. RangeOf(s) \cup {x} \subseteq RangeOf(u)
      BY <2>1, SMTT(30) DEF RangeOf
  <2> QED BY <2>2, <2>3 DEF u
<1>6. RangeOf(t) \subseteq RangeOf(s \o t)
    BY <1>3 DEF RangeOf
<1> QED BY <1>1, <1>2, <1>4, <1>5, <1>6

\* Joining sequences of record numbers is associative.
LEMMA ConcatNat ==
    \A x, y, z \in Seq(Nat) : (x \o y) \o z = x \o (y \o z)
BY ConcatAssociative, SMTT(30)

\* What moves from the head of the channel to the end of the batch stays in place.
LEMMA ShiftBoundary ==
    ASSUME NEW d \in Seq(Nat), NEW b \in Seq(Nat), NEW h \in Seq(Nat), NEW t \in Seq(Nat)
    PROVE  (d \o (b \o h)) \o t = (d \o b) \o (h \o t)
<1>1. b \o h \in Seq(Nat) /\ h \o t \in Seq(Nat)
    OBVIOUS
<1>2. (b \o h) \o t = b \o (h \o t)
    BY ONLY b \in Seq(Nat), h \in Seq(Nat), t \in Seq(Nat), ConcatNat
<1>3. (d \o (b \o h)) \o t = d \o ((b \o h) \o t)
    BY ONLY <1>1, d \in Seq(Nat), t \in Seq(Nat), ConcatNat, ZenonT(60)
<1>4. (d \o b) \o (h \o t) = d \o (b \o (h \o t))
    BY ONLY <1>1, d \in Seq(Nat), b \in Seq(Nat), ConcatNat, ZenonT(60)
<1> QED BY <1>1, <1>2, <1>3, <1>4, Zenon

\* A sequence is its first element followed by the others.
LEMMA HeadThenTail ==
    ASSUME NEW r \in Seq(Nat), r # <<>>
    PROVE  r = <<Head(r)>> \o Tail(r)
<1>1. Head(r) = r[1] /\ Len(r) \in Nat \ {0} /\ r[1] \in Nat
    OBVIOUS
<1>2. PICK h \in Seq(Nat) : h = <<Head(r)>> /\ Len(h) = 1 /\ h[1] = r[1]
  <2>1. <<Head(r)>> \in Seq(Nat)
      BY <1>1
  <2> QED BY <1>1, <2>1
<1>3. PICK t \in Seq(Nat) : /\ t = Tail(r) /\ Len(t) = Len(r) - 1
                            /\ \A i \in 1..Len(t) : t[i] = r[i + 1]
    BY HeadTailProperties
<1>4. PICK u \in Seq(Nat) :
          /\ u = h \o t /\ Len(u) = Len(r)
          /\ \A i \in 1..Len(r) : u[i] = IF i <= 1 THEN h[i] ELSE t[i - 1]
    BY <1>1, <1>2, <1>3, SMTT(30)
<1>5. \A i \in 1..Len(r) : u[i] = r[i]
    BY <1>1, <1>2, <1>3, <1>4
<1>6. u = r
    BY <1>4, <1>5, SeqEqual
<1> QED BY <1>2, <1>3, <1>4, <1>6

\* A record that is taken from the channel into the batch keeps its place.
LEMMA TakeKeepsOrder ==
    ASSUME NEW b \in Seq(Nat), NEW r \in Seq(Nat), r # <<>>, NEW d \in Seq(Nat)
    PROVE  /\ Head(r) \in Nat /\ Tail(r) \in Seq(Nat) /\ Len(Tail(r)) = Len(r) - 1
           /\ d \o Append(b, Head(r)) \o Tail(r) = d \o b \o r
<1>1. Head(r) \in Nat /\ Tail(r) \in Seq(Nat) /\ Len(Tail(r)) = Len(r) - 1
    OBVIOUS
<1>2. <<Head(r)>> \in Seq(Nat) /\ Append(b, Head(r)) = b \o <<Head(r)>>
    BY <1>1
<1>3. \A h, t \in Seq(Nat) : d \o (b \o h) \o t = (d \o b) \o (h \o t)
    BY ShiftBoundary
<1>4. d \o (b \o <<Head(r)>>) \o Tail(r) = (d \o b) \o (<<Head(r)>> \o Tail(r))
    BY <1>1, <1>2, <1>3, Zenon
<1> QED BY <1>1, <1>2, <1>4, HeadThenTail, Zenon

\* A record sent into the channel comes last in the pipeline.
LEMMA SendEnds ==
    ASSUME NEW d \in Seq(Nat), NEW b \in Seq(Nat), NEW r \in Seq(Nat), NEW x \in Nat
    PROVE  d \o b \o Append(r, x) = Append(d \o b \o r, x)
<1>1. d \o b \in Seq(Nat)
    OBVIOUS
<1> DEFINE p == d \o b
<1>2. p \o Append(r, x) = Append(p \o r, x)
  <2>1. p \in Seq(Nat)
      BY <1>1
  <2> HIDE DEF p
  <2>2. Append(r, x) = r \o <<x>> /\ Append(p \o r, x) = (p \o r) \o <<x>>
      BY <2>1, AppendIsConcat
  <2> QED BY <2>1, <2>2, ConcatNat
<1> QED BY <1>2

\* The numbers up to n, and n + 1, are the numbers up to n + 1.
LEMMA NumbersAppend ==
    ASSUME NEW n \in Nat
    PROVE  Append([i \in 1..n |-> i], n + 1) = [i \in 1..(n + 1) |-> i]
OBVIOUS

\* A recorder that has just started satisfies the invariant.
LEMMA RecorderInvInit == RecorderInit => RecorderInv
<1> SUFFICES ASSUME RecorderInit PROVE RecorderInv
    OBVIOUS
<1>1. RecorderTypeOK
  <2>1. cancelled \in BOOLEAN /\ signalled \in BOOLEAN
      BY Zenon DEF RecorderInit
  <2> QED BY <2>1, RecorderAssumption DEF RecorderInit, RecorderTypeOK, NoFile
<1>2. Pipeline = <<>>
    BY DEF RecorderInit, Pipeline
<1>3. PipelineExact(arrived)
    BY <1>2 DEF PipelineExact, RecorderInit
<1> QED BY <1>1, <1>3, RecorderAssumption
        DEF RecorderInit, RecorderInv, ArchivedAreStored, NoFile

\* Steps that leave the pipeline alone, and the receiver unless it leaves the loop.
LEMMA ArchiveStep ==
    ASSUME RecorderInv, Sigusr1 \/ Archive
    PROVE  RecorderInv'
<1> USE DEF RecorderInv
<1>0. cancelled \in BOOLEAN /\ signalled \in BOOLEAN /\ RangeOf(db) \subseteq Nat
    BY DEF RecorderTypeOK, RangeOf
<1>1. /\ UNCHANGED <<cancelled, records, worker, batch, receiving, storing>>
      /\ Pipeline' = Pipeline
    BY DEF Sigusr1, Archive, ArchiveQuery, ArchiveOpen, ArchiveWrite, ArchiverStops,
           storing, Pipeline
<1>2. signalled' \in BOOLEAN
    BY <1>0, Zenon DEF Sigusr1, Archive, ArchiveQuery, ArchiveOpen, ArchiveWrite, ArchiverStops
<1>3. archiver' \in {"idle", "open", "write", "gone"} /\ signals' \in Nat
    BY RecorderAssumption DEF Sigusr1, Archive, ArchiveQuery, ArchiveOpen, ArchiveWrite,
           ArchiverStops, RecorderTypeOK
<1>4. rows' \subseteq RangeOf(db) \cap Bars
    BY <1>1 DEF Sigusr1, Archive, ArchiveQuery, ArchiveOpen, ArchiveWrite, ArchiverStops
<1>5. /\ file' \in [state : {"none", "partial", "whole"}, rows : SUBSET Nat]
      /\ file'.state = "whole" => file'.rows \subseteq RangeOf(db) \cap Bars
  <2>1. file' = file \/ file' = PartialFile \/ file' = WholeFile(rows)
      BY DEF Sigusr1, Archive, ArchiveQuery, ArchiveOpen, ArchiveWrite, ArchiverStops
  <2>2. CASE file' = file
      BY <2>2 DEF RecorderTypeOK, ArchivedAreStored
  <2>3. CASE file' = PartialFile
      BY <2>3 DEF PartialFile
  <2>4. CASE file' = WholeFile(rows)
      BY <1>0, <2>4 DEF WholeFile
  <2> QED BY <2>1, <2>2, <2>3, <2>4
<1>6. RecorderTypeOK'
    BY <1>0, <1>1, <1>2, <1>3, <1>4, <1>5 DEF RecorderTypeOK, storing, receiving
<1> QED BY <1>1, <1>4, <1>5, <1>6
        DEF storing, receiving, PipelineExact, ArchivedAreStored

\* Every step of the receiver keeps the invariant.
LEMMA ReceiverStep == RecorderInv /\ Receiver => RecorderInv'
<1> SUFFICES ASSUME RecorderInv, Receiver PROVE RecorderInv'
    OBVIOUS
<1> USE RecorderAssumption DEF RecorderInv
<1>0. /\ RecorderTypeOK /\ cancelled \in BOOLEAN /\ signalled \in BOOLEAN
      /\ db \in Seq(Nat) /\ batch \in Seq(Nat) /\ records \in Seq(Nat) /\ arrived \in Nat
    BY DEF RecorderTypeOK
<1>1. UNCHANGED <<cancelled, worker, batch, storing, archiving>>
    BY DEF Receiver, LoopTop, Receive, ReceiveNothing, Send, GiveUpSend
<1>2. ArchivedAreStored' /\ rows' \subseteq RangeOf(db') \cap Bars
    BY <1>1 DEF storing, archiving, ArchivedAreStored
<1>3. CASE Send
  <2>1. /\ records' = Append(records, arrived) /\ Len(records) < Capacity
        /\ receiver = "send" /\ receiver' = "top" /\ arrived' = arrived
      BY <1>3 DEF Send
  <2>2. Pipeline' = Append(Pipeline, arrived) /\ Pipeline \in Seq(Nat)
    <3>1. Pipeline' = (db \o batch) \o Append(records, arrived)
        BY <1>1, <2>1 DEF Pipeline, storing
    <3>2. (db \o batch) \o Append(records, arrived) = Append((db \o batch) \o records, arrived)
        BY ONLY <1>0, SendEnds, Zenon
    <3>3. (db \o batch) \o records \in Seq(Nat)
        BY <1>0
    <3> QED BY <3>1, <3>2, <3>3 DEF Pipeline
  <2>3. RangeOf(Pipeline') = RangeOf(Pipeline) \cup {arrived}
      BY <1>0, <2>2, SameRange
  <2>4. PipelineExact(arrived - 1) => PipelineExact(arrived)'
    <3>1. arrived - 1 \in Nat /\ (arrived - 1) + 1 = arrived
        BY <1>0, <2>1
    <3>2. Append([i \in 1..(arrived - 1) |-> i], arrived) = [i \in 1..arrived |-> i]
        BY <3>1, NumbersAppend
    <3> QED BY <2>1, <2>2, <3>2 DEF PipelineExact
  <2>5. RecorderTypeOK' /\ Len(records') = Len(records) + 1
      BY <1>0, <1>1, <2>1 DEF RecorderTypeOK, storing, archiving
  <2> QED BY <1>0, <1>1, <1>2, <2>1, <2>3, <2>4, <2>5 DEF storing
<1>4. CASE ~Send
  <2>1. records' = records /\ Pipeline' = Pipeline
      BY <1>1, <1>4 DEF Receiver, LoopTop, Receive, ReceiveNothing, GiveUpSend, Pipeline, storing
  <2>2. \/ receiver = "top" /\ receiver' = "recv" /\ ~cancelled /\ arrived' = arrived
        \/ receiver \in {"top", "recv"} /\ receiver' = "gone" /\ arrived' = arrived
        \/ receiver = "recv" /\ receiver' = "top" /\ arrived' = arrived
        \/ receiver = "recv" /\ receiver' = "send" /\ arrived' = arrived + 1
        \/ receiver = "send" /\ receiver' = "gone" /\ arrived' = arrived
      BY <1>4 DEF Receiver, LoopTop, Receive, ReceiveNothing, GiveUpSend
  <2>3. RecorderTypeOK'
      BY <1>0, <1>1, <2>1, <2>2 DEF RecorderTypeOK, storing, archiving
  <2>5. \A r \in 1..arrived' : \/ r \in RangeOf(Pipeline') \cup dropped'
                               \/ r = arrived' /\ receiver' \in {"send", "gone"}
      BY <1>0, <1>1, <2>1, <2>2 DEF storing
  <2>6. Len(records) \in Nat
      BY <1>0
  <2>7. /\ worker' \in {"run", "drain"} => Len(batch') < batchSize
        /\ worker' = "gone" => batch' = <<>>
        /\ worker' \notin {"run", "flushRun"} => cancelled'
        /\ worker' \in {"flushLast", "gone"} =>
              Len(records') + (IF receiver' \in {"recv", "send"} THEN 1 ELSE 0) <= 1
        /\ receiver' = "send" => arrived' > 0
    <3>1. UNCHANGED <<cancelled, worker, batch, records>>
        BY <1>1, <2>1
    <3>2. worker \in {"flushLast", "gone"} =>
              Len(records) + (IF receiver' \in {"recv", "send"} THEN 1 ELSE 0) <= 1
        BY <2>2, <2>6
    <3>3. receiver' = "send" => arrived' > 0
        BY <1>0, <2>2
    <3> QED BY <3>1, <3>2, <3>3
  <2>8. dropped' = {} => \/ receiver' # "send" /\ PipelineExact(arrived)'
                         \/ /\ receiver' \in {"send", "gone"} /\ arrived' > 0
                            /\ PipelineExact(arrived - 1)'
    <3>1. dropped' = dropped
        BY <1>1 DEF storing
    <3>2. (arrived + 1) - 1 = arrived /\ arrived + 1 > 0
        BY <1>0
    <3>4. CASE dropped = {} /\ receiver # "send" /\ PipelineExact(arrived)
        BY <2>1, <2>2, <3>2, <3>4 DEF PipelineExact
    <3>5. CASE dropped = {} /\ receiver \in {"send", "gone"} /\ arrived > 0
               /\ PipelineExact(arrived - 1)
        BY <2>1, <2>2, <3>5 DEF PipelineExact
    <3> QED BY <3>1, <3>4, <3>5
  <2> QED BY <1>2, <2>3, <2>5, <2>7, <2>8
<1> QED BY <1>3, <1>4

\* Every step of the flush worker keeps the invariant.
LEMMA WorkerStep == RecorderInv /\ Worker => RecorderInv'
<1> SUFFICES ASSUME RecorderInv, Worker PROVE RecorderInv'
    OBVIOUS
<1>0. /\ RecorderTypeOK /\ cancelled \in BOOLEAN /\ signalled \in BOOLEAN
      /\ db \in Seq(Nat) /\ batch \in Seq(Nat) /\ records \in Seq(Nat) /\ arrived \in Nat
      /\ Len(records) \in Nat /\ Len(batch) \in Nat
    BY DEF RecorderInv, RecorderTypeOK
<1>1. UNCHANGED <<cancelled, receiving, archiving>>
    BY DEF Worker, Take, TickerFires, StartDrain, EndDrain, FlushCommits, FlushFails
\* Nothing is refused, and what is in the pipeline stays where it is.
<1>2. ASSUME Pipeline' = Pipeline, dropped' = dropped, RangeOf(db) \subseteq RangeOf(db'),
             RecorderTypeOK',
             /\ worker' \in {"run", "drain"} => Len(batch') < batchSize
             /\ worker' = "gone" => batch' = <<>>
             /\ worker' \notin {"run", "flushRun"} => cancelled'
             /\ worker' \in {"flushLast", "gone"} =>
                   Len(records') + (IF receiver' \in {"recv", "send"} THEN 1 ELSE 0) <= 1
      PROVE  RecorderInv'
  <2>1. ArchivedAreStored' /\ rows' \subseteq RangeOf(db') \cap Bars
      BY <1>1, <1>2 DEF RecorderInv, archiving, ArchivedAreStored
  <2>2. /\ UNCHANGED <<receiver, arrived>>
        /\ PipelineExact(arrived)' <=> PipelineExact(arrived)
        /\ PipelineExact(arrived - 1)' <=> PipelineExact(arrived - 1)
      BY <1>1, <1>2 DEF receiving, PipelineExact
  <2> QED BY <1>2, <2>1, <2>2 DEF RecorderInv
<1>3. CASE Take
  <2>1. /\ worker \in {"run", "drain"} /\ records # <<>>
        /\ batch' = Append(batch, Head(records)) /\ records' = Tail(records)
        /\ worker' = IF Len(batch) + 1 >= batchSize THEN Flushing(worker) ELSE worker
        /\ UNCHANGED storing
      BY <1>3 DEF Take
  <2>2. /\ Head(records) \in Nat /\ Tail(records) \in Seq(Nat)
        /\ Len(Tail(records)) = Len(records) - 1
        /\ db \o Append(batch, Head(records)) \o Tail(records) = db \o batch \o records
      BY <1>0, <2>1, TakeKeepsOrder
  <2>3. Pipeline' = Pipeline
      BY <2>1, <2>2 DEF Pipeline, storing
  <2>4. /\ batch' \in Seq(Nat) /\ Len(batch') = Len(batch) + 1
        /\ records' \in Seq(Nat) /\ Len(records') = Len(records) - 1
      BY <1>0, <2>1, <2>2
  <2>5. Len(batch) < batchSize
      BY <2>1 DEF RecorderInv
  <2>6. /\ worker' \in {"run", "drain", "flushRun", "flushDrain"}
        /\ worker' \in {"run", "drain"} => Len(batch) + 1 < batchSize
        /\ worker' \in {"drain", "flushDrain"} => worker = "drain"
      BY <1>0, <2>1, RecorderAssumption DEF Flushing
  <2>7. RecorderTypeOK'
      BY <1>0, <1>1, <2>1, <2>4, <2>5, <2>6, RecorderAssumption
      DEF RecorderTypeOK, receiving, archiving, storing
  <2>8. worker' \notin {"run", "flushRun"} => cancelled'
      BY <1>1, <2>6 DEF RecorderInv
  <2> QED BY <1>2, <2>1, <2>3, <2>4, <2>6, <2>7, <2>8 DEF storing
<1>4. CASE TickerFires \/ StartDrain \/ EndDrain
  <2>1. /\ UNCHANGED <<records, batch, storing>> /\ worker \in {"run", "drain"}
        /\ \/ worker' = "flushRun"
           \/ worker' = "drain" /\ cancelled
           \/ worker = "drain" /\ worker' = "gone" /\ records = <<>> /\ batch = <<>>
           \/ worker = "drain" /\ worker' = "flushLast" /\ records = <<>>
      BY <1>4 DEF TickerFires, StartDrain, EndDrain
  <2>2. Pipeline' = Pipeline
      BY <2>1 DEF Pipeline, storing
  <2>3. RecorderTypeOK'
      BY <1>0, <1>1, <2>1 DEF RecorderTypeOK, receiving, archiving, storing
  <2>4. worker' \notin {"run", "flushRun"} => cancelled'
      BY <1>1, <2>1 DEF RecorderInv
  <2>5. worker' \in {"flushLast", "gone"} =>
           Len(records') + (IF receiver' \in {"recv", "send"} THEN 1 ELSE 0) <= 1
      BY <2>1
  <2>6. /\ worker' \in {"run", "drain"} => Len(batch') < batchSize
        /\ worker' = "gone" => batch' = <<>>
      BY <2>1 DEF RecorderInv
  <2> QED BY <1>2, <2>1, <2>2, <2>3, <2>4, <2>5, <2>6 DEF storing
<1>5. ASSUME InFlush, worker' = Resume(worker), batch' = <<>>, records' = records
      PROVE  /\ worker' \in {"run", "drain", "gone"}
             /\ worker' \in {"run", "drain"} => Len(batch') < batchSize
             /\ worker' \notin {"run", "flushRun"} => cancelled'
             /\ worker' \in {"flushLast", "gone"} =>
                   Len(records') + (IF receiver' \in {"recv", "send"} THEN 1 ELSE 0) <= 1
  <2>1. \/ worker = "flushRun" /\ worker' = "run"
        \/ worker = "flushDrain" /\ worker' = "drain"
        \/ worker = "flushLast" /\ worker' = "gone"
      BY <1>5 DEF InFlush, Resume
  <2>2. UNCHANGED <<cancelled, receiver>>
      BY <1>1 DEF receiving
  <2> QED BY <1>5, <2>1, <2>2, RecorderAssumption DEF RecorderInv
<1>6. CASE FlushCommits
  <2>1. /\ InFlush /\ worker' = Resume(worker) /\ batch' = <<>> /\ records' = records
        /\ db' = db \o batch /\ UNCHANGED <<dropped, flushFailures>>
      BY <1>6 DEF FlushCommits
  <2>2. Pipeline' = Pipeline
    <3>1. db \o batch \in Seq(Nat)
        BY <1>0
    <3>2. (db \o batch) \o <<>> = db \o batch
        BY <3>1, ConcatEmptySeq
    <3> QED BY <2>1, <3>2 DEF Pipeline
  <2>3. db' \in Seq(Nat) /\ RangeOf(db) \subseteq RangeOf(db')
      BY <1>0, <2>1, SameRange
  <2>4. RecorderTypeOK'
      BY <1>0, <1>1, <1>5, <2>1, <2>3, RecorderAssumption
      DEF RecorderTypeOK, receiving, archiving
  <2> QED BY <1>2, <1>5, <2>1, <2>2, <2>3, <2>4
\* A refused batch leaves the pipeline, and is counted.
<1>7. CASE FlushFails
  <2>1. /\ InFlush /\ worker' = Resume(worker) /\ batch' = <<>> /\ records' = records
        /\ db' = db /\ dropped' = dropped \cup RangeOf(batch)
        /\ flushFailures' = flushFailures + 1
      BY <1>7 DEF FlushFails
  <2>2. RangeOf(batch) \subseteq Nat
      BY <1>0 DEF RangeOf
  <2>a. dropped' \subseteq Nat /\ flushFailures' \in Nat
    <3>1. dropped \subseteq Nat /\ flushFailures \in Nat
        BY <1>0 DEF RecorderTypeOK
    <3>2. dropped' \subseteq Nat
        BY <2>1, <2>2, <3>1, Zenon
    <3> QED BY <2>1, <3>1, <3>2
  <2>b. worker' \in {"run", "drain", "gone"} /\ batch' \in Seq(Nat) /\ Len(batch') <= batchSize
      BY <1>5, <2>1, RecorderAssumption
  <2>3. RecorderTypeOK'
      BY <1>0, <1>1, <2>1, <2>a, <2>b DEF RecorderTypeOK, receiving, archiving
  <2>4. CASE batch = <<>>
    <3>1. Pipeline' = Pipeline
        BY <2>1, <2>4 DEF Pipeline
    <3>2. dropped' = dropped
        BY <2>1, <2>4 DEF RangeOf
    <3> QED BY <1>2, <1>5, <2>1, <2>3, <3>1, <3>2
  <2>5. CASE batch # <<>>
    <3>1. dropped' # {}
      <4>1. 1 \in DOMAIN batch
          BY <1>0, <2>5
      <4> QED BY <2>1, <4>1 DEF RangeOf
    <3>2. /\ RangeOf(Pipeline) = RangeOf(db) \cup RangeOf(batch) \cup RangeOf(records)
          /\ RangeOf(Pipeline') = RangeOf(db) \cup RangeOf(records)
      <4>1. db \o batch \in Seq(Nat)
          BY <1>0
      <4>2. Pipeline' = db \o records
        <5>1. db \o <<>> = db
            BY <1>0, ConcatEmptySeq
        <5> QED BY <2>1, <5>1 DEF Pipeline
      <4>3. RangeOf(Pipeline) = RangeOf(db \o batch) \cup RangeOf(records)
          BY <1>0, <4>1, SameRange DEF Pipeline
      <4> QED BY <1>0, <4>2, <4>3, SameRange
    <3>3. \A r \in 1..arrived' : \/ r \in RangeOf(Pipeline') \cup dropped'
                                 \/ r = arrived' /\ receiver' \in {"send", "gone"}
        BY <1>1, <2>1, <3>2 DEF RecorderInv, receiving
    <3>4. ArchivedAreStored' /\ rows' \subseteq RangeOf(db') \cap Bars
        BY <1>1, <2>1 DEF RecorderInv, archiving, ArchivedAreStored
    <3>5. receiver' = "send" => arrived' > 0
        BY <1>1 DEF RecorderInv, receiving
    <3> QED BY <1>5, <2>1, <2>3, <3>1, <3>3, <3>4, <3>5 DEF RecorderInv
  <2> QED BY <2>4, <2>5
<1> QED BY <1>3, <1>4, <1>6, <1>7 DEF Worker

\* Every step of the recorder keeps the invariant.
LEMMA RecorderInvStep == RecorderInv /\ [RecorderNext]_recorderVars => RecorderInv'
<1> SUFFICES ASSUME RecorderInv, [RecorderNext]_recorderVars PROVE RecorderInv'
    OBVIOUS
<1>1. CASE Cancel
  <2>1. /\ cancelled' = TRUE /\ UNCHANGED <<records, worker, batch, receiving, storing, archiving>>
        /\ Pipeline' = Pipeline
      BY <1>1 DEF Cancel, Pipeline, storing
  <2>2. cancelled' \in BOOLEAN /\ cancelled'
      BY <2>1, Zenon
  <2>3. RecorderTypeOK'
      BY <2>1, <2>2 DEF RecorderInv, RecorderTypeOK, receiving, storing, archiving
  <2> QED BY <2>1, <2>2, <2>3
          DEF RecorderInv, receiving, storing, archiving, PipelineExact, ArchivedAreStored
<1>2. CASE UNCHANGED recorderVars
    BY <1>2 DEF recorderVars, receiving, storing, archiving, RecorderInv, RecorderTypeOK,
        PipelineExact, Pipeline, ArchivedAreStored
<1> QED BY <1>1, <1>2, ReceiverStep, WorkerStep, ArchiveStep DEF RecorderNext

\* For every number of records, batch size, channel capacity and failure: as long
\* as no batch is refused, rows are stored once and in order, and an archive holds
\* nothing but bars that are stored (runFlushWorker, flushBatch, ArchiveDay).
THEOREM StoredOnceTheorem == RecorderSpec => []StoredOnce
<1>1. RecorderInv => StoredOnce
  <2> SUFFICES ASSUME RecorderInv PROVE NothingLostOrRepeated
      BY DEF StoredOnce, RecorderInv
  <2> SUFFICES ASSUME dropped = {} PROVE Pipeline = [i \in 1..Enqueued |-> i]
      BY DEF NothingLostOrRepeated
  <2>0. arrived \in Nat /\ receiver \in {"top", "recv", "send", "gone"}
      BY DEF RecorderInv, RecorderTypeOK
  <2>1. CASE receiver # "send" /\ PipelineExact(arrived)
    <3>1. CASE arrived = 0
      <4>1. Enqueued \in {0, 0 - 1}
          BY <3>1 DEF Enqueued
      <4>2. 1..Enqueued = 1..arrived
          BY <3>1, <4>1
      <4> QED BY <2>1, <4>2 DEF PipelineExact
    <3>2. CASE arrived # 0
      <4>1. arrived \in DOMAIN Pipeline /\ Pipeline[arrived] = arrived
          BY <2>0, <2>1, <3>2 DEF PipelineExact
      <4>2. Enqueued = arrived
          BY <4>1 DEF Enqueued, RangeOf
      <4> QED BY <2>1, <4>2 DEF PipelineExact
    <3> QED BY <3>1, <3>2
  <2>2. CASE receiver \in {"send", "gone"} /\ arrived > 0 /\ PipelineExact(arrived - 1)
    <3>1. \A i \in DOMAIN Pipeline : Pipeline[i] # arrived
        BY <2>0, <2>2 DEF PipelineExact
    <3>2. Enqueued = arrived - 1
        BY <2>2, <3>1 DEF Enqueued, RangeOf
    <3> QED BY <2>2, <3>2 DEF PipelineExact
  <2> QED BY <2>1, <2>2 DEF RecorderInv
<1> QED BY <1>1, RecorderInvInit, RecorderInvStep, PTL DEF RecorderSpec

\* A shutdown loses no more than the record the receiver gave up on and one that
\* it sent after the worker had found the channel empty (Stop, runReceiverLoop).
THEOREM ShutdownTheorem == RecorderSpec => []ShutdownLosesLittle
<1>1. RecorderInv => ShutdownLosesLittle
  <2> SUFFICES ASSUME RecorderInv, Exited
               PROVE  /\ Len(records) <= 1
                      /\ 1..arrived \subseteq
                            RangeOf(db) \cup dropped \cup RangeOf(records) \cup {arrived}
      BY DEF ShutdownLosesLittle
  <2>0. db \in Seq(Nat) /\ records \in Seq(Nat) /\ batch = <<>> /\ Len(records) \in Nat
      BY DEF RecorderInv, RecorderTypeOK, Exited
  <2>1. Len(records) <= 1
      BY <2>0 DEF RecorderInv, Exited
  <2>2. RangeOf(Pipeline) = RangeOf(db) \cup RangeOf(records)
    <3>1. Pipeline = db \o records
      <4>1. db \o <<>> = db
          BY <2>0, ConcatEmptySeq
      <4> QED BY <2>0, <4>1 DEF Pipeline
    <3> QED BY <2>0, <3>1, SameRange
  <2> QED BY <2>1, <2>2 DEF RecorderInv
<1> QED BY <1>1, RecorderInvInit, RecorderInvStep, PTL DEF RecorderSpec
=============================================================================
