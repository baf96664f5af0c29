--------------------------- MODULE RiskNodeProofs ---------------------------
(***************************************************************************)
(* Proofs about RiskNode, for any number of requests, symbols, order       *)
(* values, blacklist edits and Redis restarts.                             *)
(***************************************************************************)
EXTENDS RiskNode, SumTheorems, SequenceTheorems, TLAPS

BreakerOK ==
    /\ cbState \in {"closed", "open", "halfOpen"}
    /\ failures \in Nat
    /\ cooled \in BOOLEAN

-----------------------------------------------------------------------------
(***************************************************************************)
(* The circuit breaker: every step of the node is a step of the breaker    *)
(***************************************************************************)
BreakerStep ==
    \/ RecordSuccess \/ RecordFailure \/ Attempt \/ Cooldown
    \/ UNCHANGED breaker

\* A step of the node does to the breaker what one of the breaker's methods does.
LEMMA NextIsBreakerStep == [Next]_vars => BreakerStep
<1> SUFFICES ASSUME [Next]_vars PROVE BreakerStep
  OBVIOUS
<1>1. CASE \E r \in Requests, s \in Symbols, v \in OrderValues : Begin(r, s, v)
  BY <1>1 DEF Begin, BreakerStep, Refuse
<1>2. ASSUME NEW r \in Requests, Step(r) PROVE BreakerStep
  BY <1>2 DEF Step, CacheGet, Query, SetCache, RejectBlacklisted, EvalSha, Eval,
       CallFails, RejectFailClosed, Decide, BreakerStep
<1>3. ASSUME NEW r \in Requests, RunScript(r) \/ NoScript(r) PROVE BreakerStep
  BY <1>3 DEF RunScript, NoScript, BreakerStep
<1>4. CASE Blacklisting
  BY <1>4 DEF Blacklisting, BlacklistAdd, BlacklistRemove, Publish, Expire, Listen,
       LoseUpdate, BreakerStep
<1>5. CASE FlushScripts \/ CoolDown
  BY <1>5 DEF FlushScripts, CoolDown, BreakerStep
<1>6. CASE UNCHANGED vars
  BY <1>6 DEF vars, BreakerStep
<1> QED
  BY <1>1, <1>2, <1>3, <1>4, <1>5, <1>6 DEF Next

\* A new breaker is closed and has seen no failure.
LEMMA InitBreakerOK == Init => BreakerOK /\ ClosedBelowThreshold
<1> SUFFICES ASSUME Init PROVE BreakerOK /\ ClosedBelowThreshold
  OBVIOUS
<1>1. cooled \in BOOLEAN BY DEF Init, BreakerInit
<1>2. cbState = "closed" /\ failures = 0 BY DEF Init, BreakerInit
<1> QED BY <1>1, <1>2, ThresholdAssumption DEF BreakerOK, ClosedBelowThreshold

\* A breaker method keeps the breaker's types and keeps a closed breaker below
\* the threshold.
LEMMA BreakerStepKeeps ==
    ASSUME BreakerOK, ClosedBelowThreshold, BreakerStep
    PROVE  BreakerOK' /\ ClosedBelowThreshold'
<1> USE ThresholdAssumption DEF BreakerOK, ClosedBelowThreshold
<1>1. CASE RecordSuccess BY <1>1 DEF RecordSuccess
<1>2. CASE RecordFailure
  <2>1. cooled' \in BOOLEAN BY <1>2 DEF RecordFailure
  <2>2. cbState' = IF Trips THEN "open" ELSE cbState BY <1>2 DEF RecordFailure
  <2>3. failures' = failures + 1 BY <1>2 DEF RecordFailure
  <2> QED BY <2>1, <2>2, <2>3 DEF Trips
<1>3. CASE Attempt BY <1>3 DEF Attempt
<1>4. CASE Cooldown BY <1>4 DEF Cooldown
<1>5. CASE UNCHANGED breaker BY <1>5 DEF breaker
<1> QED BY <1>1, <1>2, <1>3, <1>4, <1>5 DEF BreakerStep

\* Three failures in a row always open the breaker: a closed one has seen fewer,
\* whatever outcomes of calls admitted earlier are recorded in between.
THEOREM TripsAtThreshold == Spec => []ClosedBelowThreshold
<1>1. Init => BreakerOK /\ ClosedBelowThreshold
  BY InitBreakerOK
<1>2. BreakerOK /\ ClosedBelowThreshold /\ [Next]_vars
         => BreakerOK' /\ ClosedBelowThreshold'
  BY NextIsBreakerStep, BreakerStepKeeps
<1> QED
  BY <1>1, <1>2, PTL DEF Spec

-----------------------------------------------------------------------------
(***************************************************************************)
(* Type correctness                                                        *)
(***************************************************************************)
\* Init establishes the types.
LEMMA InitTypeOK == Init => TypeOK
<1> SUFFICES ASSUME Init PROVE TypeOK
  OBVIOUS
<1>1. RequestsOK
  BY DEF Init, RequestsOK, Labels
<1>2. scriptLoaded \in BOOLEAN
  BY DEF Init
<1>3. channel \in Seq([op : {"ADD", "REMOVE"}, symbol : Symbols])
  BY DEF Init
<1>4. RedisOK
  BY <1>2, <1>3, RiskAssumption DEF Init, RedisOK
<1>5. CacheOK
  BY DEF Init, CacheOK
<1> QED
  BY <1>1, <1>4, <1>5, InitBreakerOK DEF TypeOK, BreakerOK

\* The steps of a request keep the types.
LEMMA StepTypeOK ==
    ASSUME TypeOK, NEW r \in Requests, Step(r)
    PROVE  CacheOK' /\ RedisOK' /\ RequestsOK'
<1> USE DEF TypeOK, CacheOK, RedisOK, RequestsOK, Labels, Goto, Answer, redis, wire
<1>1. CASE CacheGet(r) BY <1>1 DEF CacheGet
<1>2. CASE Query(r)
  <2>0. ASSUME NEW b \in BOOLEAN
        PROVE  [isBlacklisted EXCEPT ![r] = b] \in [Requests -> BOOLEAN]
    OBVIOUS
  <2> DEFINE member == symbol[r] \in blacklist
  <2>a. member \in BOOLEAN
    OBVIOUS
  <2>b. \/ isBlacklisted' = [isBlacklisted EXCEPT ![r] = member]
        \/ isBlacklisted' = isBlacklisted
    BY <1>2, Zenon DEF Query
  <2> HIDE DEF member
  <2>1. isBlacklisted' \in [Requests -> BOOLEAN] BY <2>0, <2>a, <2>b, Zenon
  <2>2. pc' \in [Requests -> Labels] /\ \A q \in Requests : pc'[q] # "idle" => pc[q] # "idle"
    BY <1>2 DEF Query
  <2> QED BY <1>2, <2>1, <2>2 DEF Query
<1>3. CASE SetCache(r) BY <1>3 DEF SetCache
<1>4. CASE RejectBlacklisted(r) BY <1>4 DEF RejectBlacklisted
<1>5. CASE EvalSha(r) BY <1>5 DEF EvalSha
<1>6. CASE Eval(r) BY <1>6 DEF Eval, request
<1>7. CASE CallFails(r) BY <1>7 DEF CallFails
<1>8. CASE RejectFailClosed(r) BY <1>8 DEF RejectFailClosed
<1>9. CASE Decide(r) BY <1>9 DEF Decide
<1> QED BY <1>1, <1>2, <1>3, <1>4, <1>5, <1>6, <1>7, <1>8, <1>9 DEF Step

\* Redis, the operator and the listener keep the types.
LEMMA EnvironmentTypeOK ==
    ASSUME TypeOK,
           \/ \E r \in Requests : RunScript(r) \/ NoScript(r)
           \/ Blacklisting \/ FlushScripts \/ CoolDown
    PROVE  CacheOK' /\ RedisOK' /\ RequestsOK'
<1> USE DEF TypeOK, CacheOK, RedisOK, RequestsOK, redis, wire, request
<1> DEFINE Update == [op : {"ADD", "REMOVE"}, symbol : Symbols]
<1>1. ASSUME NEW r \in Requests, RunScript(r)
      PROVE CacheOK' /\ RedisOK' /\ RequestsOK'
  <2>1. scriptLoaded' \in BOOLEAN BY <1>1 DEF RunScript
  <2>2. avail' \in Int /\ inflight' \in Int BY <1>1 DEF RunScript, Reserve
  <2>3. result' \in [Requests -> {"none", "NOSCRIPT", "APPROVED", "REJECTED"}]
    BY <1>1 DEF RunScript
  <2> QED BY <1>1, <2>1, <2>2, <2>3 DEF RunScript
<1>2. ASSUME NEW r \in Requests, NoScript(r)
      PROVE CacheOK' /\ RedisOK' /\ RequestsOK'
  BY <1>2 DEF NoScript
<1>3. ASSUME NEW s \in Symbols, BlacklistAdd(s)
      PROVE CacheOK' /\ RedisOK' /\ RequestsOK'
  <2>1. channel' \in Seq(Update)
    BY <1>3 DEF BlacklistAdd, Publish
  <2> QED BY <1>3, <2>1 DEF BlacklistAdd, Publish
<1>4. ASSUME NEW s \in Symbols, BlacklistRemove(s)
      PROVE CacheOK' /\ RedisOK' /\ RequestsOK'
  <2>1. channel' \in Seq(Update)
    BY <1>4 DEF BlacklistRemove, Publish
  <2>2. clear' \in [Requests -> BOOLEAN]
    BY <1>4 DEF BlacklistRemove
  <2> QED BY <1>4, <2>1, <2>2 DEF BlacklistRemove, Publish
<1>5. ASSUME NEW s \in Symbols, Expire(s)
      PROVE CacheOK' /\ RedisOK' /\ RequestsOK'
  BY <1>5 DEF Expire
<1>6. CASE Listen
  <2>1. channel \in Seq(Update) /\ channel # <<>> BY <1>6 DEF Listen
  <2>2. Tail(channel) \in Seq(Update) BY <2>1
  <2>3. Head(channel) \in Update BY <2>1, HeadTailProperties
  <2>4. cache' \in [Symbols -> {"miss", "yes", "no"}] BY <1>6, <2>3 DEF Listen
  <2> QED BY <1>6, <2>2, <2>4 DEF Listen
<1>7. CASE LoseUpdate
  <2>1. channel \in Seq(Update) /\ channel # <<>> BY <1>7 DEF LoseUpdate
  <2>2. Tail(channel) \in Seq(Update) BY <2>1
  <2>3. Head(channel) \in Update BY <2>1, HeadTailProperties
  <2> QED BY <1>7, <2>2, <2>3 DEF LoseUpdate
<1>8. CASE FlushScripts BY <1>8 DEF FlushScripts
<1>9. CASE CoolDown BY <1>9 DEF CoolDown
<1> QED
  BY <1>1, <1>2, <1>3, <1>4, <1>5, <1>6, <1>7, <1>8, <1>9 DEF Blacklisting

\* The node never leaves its types, for any number of requests and symbols.
THEOREM TypeCorrect == Spec => []TypeOK
<1> DEFINE Inv == TypeOK /\ ClosedBelowThreshold
<1>1. Init => Inv
  BY InitTypeOK, InitBreakerOK
<1>2. Inv /\ [Next]_vars => Inv'
  <2> SUFFICES ASSUME TypeOK, ClosedBelowThreshold, [Next]_vars PROVE Inv'
    OBVIOUS
  <2>1. BreakerOK' /\ ClosedBelowThreshold'
    BY NextIsBreakerStep, BreakerStepKeeps DEF TypeOK, BreakerOK
  <2>2. CacheOK' /\ RedisOK' /\ RequestsOK'
    <3>1. ASSUME NEW r \in Requests, NEW s \in Symbols, NEW v \in OrderValues,
                 Begin(r, s, v)
          PROVE CacheOK' /\ RedisOK' /\ RequestsOK'
      BY <3>1, RiskAssumption DEF Begin, Goto, Answer, TypeOK, CacheOK, RedisOK, RequestsOK,
           Labels, redis, wire
    <3>2. CASE UNCHANGED vars
      BY <3>2 DEF vars, redis, wire, request, TypeOK, CacheOK, RedisOK, RequestsOK
    <3> QED
      BY <3>1, <3>2, StepTypeOK, EnvironmentTypeOK DEF Next
  <2> QED
    BY <2>1, <2>2 DEF TypeOK, BreakerOK
<1> QED
  BY <1>1, <1>2, PTL DEF Spec

-----------------------------------------------------------------------------
(***************************************************************************)
(* Margin                                                                  *)
(***************************************************************************)
\* Only the script moves margin.
LEMMA MarginMoves ==
    [Next]_vars => \/ \E r \in Requests : RunScript(r)
                   \/ UNCHANGED <<avail, inflight>>
<1> SUFFICES ASSUME [Next]_vars
             PROVE  (\E r \in Requests : RunScript(r)) \/ UNCHANGED <<avail, inflight>>
  OBVIOUS
<1> USE DEF redis
<1>1. CASE \E r \in Requests, s \in Symbols, v \in OrderValues : Begin(r, s, v)
  BY <1>1 DEF Begin
<1>2. ASSUME NEW r \in Requests, Step(r) PROVE UNCHANGED <<avail, inflight>>
  BY <1>2 DEF Step, CacheGet, Query, SetCache, RejectBlacklisted, EvalSha, Eval,
       CallFails, RejectFailClosed, Decide
<1>3. ASSUME NEW r \in Requests, NoScript(r) PROVE UNCHANGED <<avail, inflight>>
  BY <1>3 DEF NoScript
<1>4. CASE Blacklisting
  BY <1>4 DEF Blacklisting, BlacklistAdd, BlacklistRemove, Publish, Expire, Listen,
       LoseUpdate
<1>5. CASE FlushScripts \/ CoolDown
  BY <1>5 DEF FlushScripts, CoolDown
<1>6. CASE UNCHANGED vars
  BY <1>6 DEF vars
<1> QED
  BY <1>1, <1>2, <1>3, <1>4, <1>5, <1>6 DEF Next

\* Margin is neither created nor lost, and the account is never overdrawn.
THEOREM MarginLedger == Spec => []MarginConserved
<1>1. Init => MarginConserved
  BY RiskAssumption DEF Init, MarginConserved
<1>2. TypeOK /\ MarginConserved /\ [Next]_vars => MarginConserved'
  <2> SUFFICES ASSUME TypeOK, MarginConserved, [Next]_vars PROVE MarginConserved'
    OBVIOUS
  <2>1. ASSUME NEW r \in Requests, RunScript(r) PROVE MarginConserved'
    <3>1. value[r] \in Int /\ avail \in Int /\ inflight \in Int
      BY DEF TypeOK, RedisOK, RequestsOK
    <3> QED
      BY <2>1, <3>1 DEF RunScript, Approves, Reserve, MarginConserved
  <2>2. CASE UNCHANGED <<avail, inflight>>
    BY <2>2 DEF MarginConserved
  <2> QED
    BY <2>1, <2>2, MarginMoves
<1> QED
  BY <1>1, <1>2, TypeCorrect, PTL DEF Spec

-----------------------------------------------------------------------------
(***************************************************************************)
(* The blacklist                                                           *)
(***************************************************************************)
\* The steps of a request keep ApprovalInv: they neither edit the blacklist nor
\* run the script, and only Decide answers APPROVED.
LEMMA StepApprovalInv ==
    ASSUME TypeOK, ApprovalInv, NEW r \in Requests, Step(r)
    PROVE  ApprovalInv'
<1> USE DEF TypeOK, CacheOK, RedisOK, RequestsOK, ApprovalInv, Unsent, Goto, Answer, redis, wire
<1>1. CASE CacheGet(r) BY <1>1 DEF CacheGet
<1>2. CASE Query(r) BY <1>2 DEF Query
<1>3. CASE SetCache(r) BY <1>3 DEF SetCache
<1>4. CASE RejectBlacklisted(r) BY <1>4 DEF RejectBlacklisted
<1>5. CASE EvalSha(r) BY <1>5 DEF EvalSha
<1>6. CASE Eval(r) BY <1>6 DEF Eval, request
<1>7. CASE CallFails(r) BY <1>7 DEF CallFails
<1>8. CASE RejectFailClosed(r) BY <1>8 DEF RejectFailClosed
<1>9. CASE Decide(r) BY <1>9 DEF Decide
<1> QED BY <1>1, <1>2, <1>3, <1>4, <1>5, <1>6, <1>7, <1>8, <1>9 DEF Step

\* So do Redis, the operator and the listener: the script approves only a clear
\* symbol, which the history of a request that has begun already records.
LEMMA EnvironmentApprovalInv ==
    ASSUME TypeOK, ApprovalInv,
           \/ \E r \in Requests : RunScript(r) \/ NoScript(r)
           \/ Blacklisting \/ FlushScripts \/ CoolDown
    PROVE  ApprovalInv'
<1> USE DEF TypeOK, CacheOK, RedisOK, RequestsOK, ApprovalInv, Unsent, redis, wire, request
<1>1. ASSUME NEW r \in Requests, RunScript(r) PROVE ApprovalInv'
  BY <1>1 DEF RunScript, Approves
<1>2. ASSUME NEW r \in Requests, NoScript(r) PROVE ApprovalInv'
  BY <1>2 DEF NoScript
<1>3. ASSUME NEW s \in Symbols, BlacklistAdd(s) PROVE ApprovalInv'
  BY <1>3 DEF BlacklistAdd, Publish
<1>4. ASSUME NEW s \in Symbols, BlacklistRemove(s) PROVE ApprovalInv'
  BY <1>4 DEF BlacklistRemove, Publish
<1>5. ASSUME NEW s \in Symbols, Expire(s) PROVE ApprovalInv'
  BY <1>5 DEF Expire
<1>6. CASE Listen BY <1>6 DEF Listen
<1>7. CASE LoseUpdate BY <1>7 DEF LoseUpdate
<1>8. CASE FlushScripts BY <1>8 DEF FlushScripts
<1>9. CASE CoolDown BY <1>9 DEF CoolDown
<1> QED
  BY <1>1, <1>2, <1>3, <1>4, <1>5, <1>6, <1>7, <1>8, <1>9 DEF Blacklisting

\* ApprovalInv holds throughout.
LEMMA ApprovalInvariant == Spec => []ApprovalInv
<1>1. Init => ApprovalInv
  BY DEF Init, ApprovalInv, Unsent
<1>2. TypeOK /\ ApprovalInv /\ [Next]_vars => ApprovalInv'
  <2> SUFFICES ASSUME TypeOK, ApprovalInv, [Next]_vars PROVE ApprovalInv'
    OBVIOUS
  <2>1. ASSUME NEW r \in Requests, NEW s \in Symbols, NEW v \in OrderValues,
               Begin(r, s, v)
        PROVE  ApprovalInv'
    BY <2>1 DEF Begin, Goto, Answer, TypeOK, CacheOK, RedisOK, RequestsOK, ApprovalInv, Unsent, redis, wire
  <2>2. CASE UNCHANGED vars
    BY <2>2 DEF vars, redis, wire, request, ApprovalInv
  <2> QED
    BY <2>1, <2>2, StepApprovalInv, EnvironmentApprovalInv DEF Next
<1> QED
  BY <1>1, <1>2, TypeCorrect, PTL DEF Spec

\* No order is approved whose symbol was blacklisted throughout the call, for
\* any interleaving of requests, edits, lost updates and stale cache entries.
THEOREM ApprovalsAreClear == Spec => []ApprovedWasClear
<1>1. ApprovalInv => ApprovedWasClear
  BY DEF ApprovalInv, ApprovedWasClear
<1> QED
  BY <1>1, ApprovalInvariant, PTL

-----------------------------------------------------------------------------
(***************************************************************************)
(* The cache                                                               *)
(***************************************************************************)
\* The updates that are left when the first one is taken off the channel.
LEMMA TakenOff ==
    ASSUME TypeOK, channel # <<>>, channel' = Tail(channel)
    PROVE  /\ 1 \in DOMAIN channel /\ Head(channel) = channel[1]
           /\ Head(channel).symbol \in Symbols
           /\ DOMAIN channel' = 1..(Len(channel) - 1)
           /\ \A i \in DOMAIN channel' : channel'[i] = channel[i + 1]
<1> DEFINE Update == [op : {"ADD", "REMOVE"}, symbol : Symbols]
<1>1. channel \in Seq(Update)
  BY DEF TypeOK, RedisOK
<1> HIDE DEF Update
<1>2. Len(channel) \in Nat \ {0} /\ DOMAIN channel = 1..Len(channel)
  BY <1>1, EmptySeq, LenProperties
<1>3. /\ Head(channel) = channel[1] /\ Head(channel) \in Update
      /\ Len(Tail(channel)) = Len(channel) - 1 /\ Tail(channel) \in Seq(Update)
      /\ \A i \in 1..Len(Tail(channel)) : Tail(channel)[i] = channel[i + 1]
  BY <1>1, HeadTailProperties
<1> QED
  BY <1>2, <1>3, LenProperties DEF Update

\* An update leaves the channel, handled or lost: the last one of every symbol
\* stays last, unless it was the one that left.
LEMMA TakenOffKeeps ==
    ASSUME TypeOK, CacheInv, channel # <<>>, channel' = Tail(channel),
           UNCHANGED blacklist, NEW s \in Symbols
    PROVE  /\ LastUpdate(s)'
           /\ Pending(s)' = {} =>
                 \/ Pending(s) = {}
                 \/ /\ Head(channel).symbol = s
                    /\ Head(channel).op = "ADD" <=> s \in blacklist
<1>1. /\ 1 \in DOMAIN channel /\ Head(channel) = channel[1]
      /\ DOMAIN channel' = 1..(Len(channel) - 1)
      /\ \A i \in DOMAIN channel' : channel'[i] = channel[i + 1]
  BY TakenOff
<1>2. Len(channel) \in Nat /\ DOMAIN channel = 1..Len(channel)
  BY LenProperties DEF TypeOK, RedisOK
<1>3. LastUpdate(s)
  BY DEF CacheInv
<1>4. \A i \in Pending(s)' : i + 1 \in Pending(s) /\ i \in Nat /\ channel'[i] = channel[i + 1]
  BY <1>1, <1>2 DEF Pending
<1>5. \A j \in Pending(s) : j = 1 \/ j - 1 \in Pending(s)'
  BY <1>1, <1>2 DEF Pending
<1>6. \A j \in Pending(s) : j \in Nat \ {0}
  BY <1>2 DEF Pending
<1>7. LastUpdate(s)'
  <2>1. ASSUME NEW i \in Pending(s)', \A j \in Pending(s)' : j <= i
        PROVE  channel'[i].op = "ADD" <=> s \in blacklist
    <3>1. i + 1 \in Pending(s) /\ channel'[i] = channel[i + 1] /\ i \in Nat
      BY <1>4, <2>1
    <3>2. \A j \in Pending(s) : j <= i + 1
      BY <1>4, <1>5, <1>6, <2>1, <3>1
    <3> QED
      BY <1>3, <3>1, <3>2 DEF LastUpdate
  <2> QED
    BY <2>1 DEF LastUpdate
<1>8. ASSUME Pending(s)' = {}, Pending(s) # {}
      PROVE  Head(channel).symbol = s /\ (Head(channel).op = "ADD" <=> s \in blacklist)
  <2>1. Pending(s) = {1}
    BY <1>5, <1>8
  <2>2. channel[1].symbol = s
    BY <2>1 DEF Pending
  <2> QED
    BY <1>1, <1>3, <2>1, <2>2 DEF LastUpdate
<1> QED
  BY <1>7, <1>8

\* An edit is the last update of its symbol and changes nothing for the others.
LEMMA PublishKeeps ==
    ASSUME TypeOK, CacheInv, NEW s \in Symbols, BlacklistAdd(s) \/ BlacklistRemove(s)
    PROVE  CacheInv'
<1> DEFINE op == IF s \in blacklist THEN "REMOVE" ELSE "ADD"
           Update == [op : {"ADD", "REMOVE"}, symbol : Symbols]
           update == [op |-> op, symbol |-> s]
<1>1. /\ channel' = Append(channel, update)
      /\ blacklist' = IF s \in blacklist THEN blacklist \ {s} ELSE blacklist \cup {s}
      /\ UNCHANGED <<cache, astray>>
  BY DEF BlacklistAdd, BlacklistRemove, Publish
<1>2. channel \in Seq(Update) /\ update \in Update
  BY DEF TypeOK, RedisOK
<1> DEFINE n == Len(channel) + 1
<1>3. /\ DOMAIN channel = 1..Len(channel) /\ Len(channel) \in Nat
      /\ DOMAIN channel' = 1..n /\ channel'[n] = update
      /\ \A i \in DOMAIN channel : channel'[i] = channel[i]
  BY <1>1, <1>2, AppendProperties, LenProperties
<1>4. update.symbol = s /\ (update.op = "ADD" <=> s \in blacklist')
  BY <1>1
<1> HIDE DEF op, Update, update
<1>5. ASSUME NEW t \in Symbols, t # s
      PROVE  /\ Pending(t)' = Pending(t)
             /\ t \in blacklist' <=> t \in blacklist
             /\ \A i \in Pending(t) : channel'[i] = channel[i]
  BY <1>1, <1>3, <1>4, <1>5 DEF Pending
<1>6. n \in Pending(s)' /\ \A i \in Pending(s)' : i <= n /\ i \in Nat
  BY <1>3, <1>4 DEF Pending
<1>7. LastUpdate(s)'
  BY <1>3, <1>4, <1>6 DEF LastUpdate
<1>8. ASSUME NEW t \in Symbols PROVE LastUpdate(t)'
  BY <1>5, <1>7, Zenon DEF LastUpdate, CacheInv
<1>9. CacheFollows'
  BY <1>1, <1>5, <1>6 DEF CacheFollows, CacheInv
<1> QED
  BY <1>8, <1>9 DEF CacheInv

\* Every step keeps CacheInv.
LEMMA CacheStep ==
    ASSUME TypeOK, CacheInv, [Next]_vars
    PROVE  CacheInv'
<1>1. ASSUME UNCHANGED <<channel, blacklist>>, CacheFollows' PROVE CacheInv'
  BY <1>1 DEF CacheInv, LastUpdate, Pending
<1>2. ASSUME UNCHANGED <<channel, blacklist, cache, astray>> PROVE CacheInv'
  BY <1>2 DEF CacheInv, CacheFollows, LastUpdate, Pending
<1>3. ASSUME NEW r \in Requests, SetCache(r) PROVE CacheInv'
  <2>1. symbol[r] \in Symbols /\ isBlacklisted[r] \in BOOLEAN
    BY <1>3 DEF SetCache, TypeOK, RequestsOK
  <2>2. CacheFollows'
    BY <1>3, <2>1 DEF SetCache, CacheInv, CacheFollows, Pending, TypeOK, CacheOK, redis
  <2> QED
    BY <1>1, <1>3, <2>2 DEF SetCache, redis
<1>4. ASSUME NEW s \in Symbols, Expire(s) PROVE CacheInv'
  <2>1. CacheFollows'
    BY <1>4 DEF Expire, CacheInv, CacheFollows, Pending, TypeOK, CacheOK, redis
  <2> QED
    BY <1>1, <1>4, <2>1 DEF Expire, redis
<1>5. CASE Listen
  <2>1. /\ channel # <<>> /\ channel' = Tail(channel) /\ UNCHANGED blacklist
        /\ Head(channel).symbol \in Symbols
    BY <1>5, TakenOff DEF Listen
  <2>2. ASSUME NEW s \in Symbols, Pending(s)' = {}, s \notin astray', cache'[s] # "miss"
        PROVE  cache'[s] = "yes" <=> s \in blacklist'
    <3>1. \/ Pending(s) = {}
          \/ Head(channel).symbol = s /\ (Head(channel).op = "ADD" <=> s \in blacklist)
      BY <2>1, <2>2, TakenOffKeeps
    <3>2. CASE Head(channel).symbol = s
      <4>1. Pending(s) # {}
        BY <2>1, <3>2, TakenOff DEF Pending
      <4> QED
        BY <1>5, <2>1, <3>1, <3>2, <4>1 DEF Listen, TypeOK, CacheOK
    <3>3. CASE Head(channel).symbol # s
      BY <1>5, <2>1, <2>2, <3>1, <3>3 DEF Listen, TypeOK, CacheOK, CacheInv, CacheFollows
    <3> QED
      BY <3>2, <3>3
  <2> QED
    BY <2>1, <2>2, TakenOffKeeps DEF CacheInv, CacheFollows
<1>6. CASE LoseUpdate
  <2>1. /\ channel # <<>> /\ channel' = Tail(channel) /\ UNCHANGED <<blacklist, cache>>
        /\ astray' = astray \cup {Head(channel).symbol}
    BY <1>6 DEF LoseUpdate
  <2>2. ASSUME NEW s \in Symbols, Pending(s)' = {}, s \notin astray', cache'[s] # "miss"
        PROVE  cache'[s] = "yes" <=> s \in blacklist'
    <3>1. Pending(s) = {}
      BY <2>1, <2>2, TakenOffKeeps
    <3> QED
      BY <2>1, <2>2, <3>1 DEF CacheInv, CacheFollows
  <2> QED
    BY <2>1, <2>2, TakenOffKeeps DEF CacheInv, CacheFollows
<1>7. ASSUME NEW s \in Symbols, BlacklistAdd(s) \/ BlacklistRemove(s) PROVE CacheInv'
  BY <1>7, PublishKeeps
<1>8. ASSUME NEW r \in Requests, NEW s \in Symbols, NEW v \in OrderValues, Begin(r, s, v)
      PROVE  CacheInv'
  BY <1>2, <1>8 DEF Begin, redis
<1>9. ASSUME NEW r \in Requests, Step(r), ~SetCache(r) PROVE CacheInv'
  BY <1>2, <1>9 DEF Step, CacheGet, Query, RejectBlacklisted, EvalSha, Eval, CallFails,
       RejectFailClosed, Decide, redis
<1>10. ASSUME NEW r \in Requests, RunScript(r) \/ NoScript(r) PROVE CacheInv'
  BY <1>2, <1>10 DEF RunScript, NoScript, redis
<1>11. CASE FlushScripts \/ CoolDown \/ UNCHANGED vars
  BY <1>2, <1>11 DEF FlushScripts, CoolDown, vars, redis
<1> QED
  BY <1>3, <1>4, <1>5, <1>6, <1>7, <1>8, <1>9, <1>10, <1>11 DEF Next, Blacklisting

\* A cached answer that no update is on its way to correct is what Redis says,
\* unless it was read before an edit or missed an update, for any number of
\* requests, symbols and edits.
THEOREM CacheFollowsTheorem == Spec => []CacheFollows
<1>1. Init => CacheInv
  BY DEF Init, CacheInv, CacheFollows, LastUpdate, Pending
<1>2. TypeOK /\ CacheInv /\ [Next]_vars => CacheInv'
  BY CacheStep
<1>3. CacheInv => CacheFollows
  BY DEF CacheInv
<1> QED
  BY <1>1, <1>2, <1>3, TypeCorrect, PTL DEF Spec

-----------------------------------------------------------------------------
(***************************************************************************)
(* Reservations                                                            *)
(***************************************************************************)
\* A step other than the script's changes neither the margin in flight nor the
\* set of approved orders nor the value of one of them.
LEMMA ReservedKept ==
    ASSUME TypeOK, ApprovalInv, [Next]_vars, \A r \in Requests : ~RunScript(r)
    PROVE  /\ inflight' = inflight
           /\ Reserved' = Reserved
           /\ \A r \in Reserved : value'[r] = value[r]
<1> USE DEF TypeOK, CacheOK, RedisOK, RequestsOK, ApprovalInv, Unsent, Reserved, redis, wire, request
<1>1. ASSUME NEW r \in Requests, NEW s \in Symbols, NEW v \in OrderValues, Begin(r, s, v)
      PROVE  UNCHANGED <<inflight, result>> /\ \A q \in Reserved : value'[q] = value[q]
  BY <1>1 DEF Begin
<1>2. ASSUME NEW r \in Requests, Step(r)
      PROVE  UNCHANGED <<inflight, value>> /\ Reserved' = Reserved
  <2>1. CASE Eval(r)
    BY <2>1 DEF Eval
  <2>2. CASE Step(r) /\ ~Eval(r)
    <3>1. UNCHANGED <<inflight, value, result>>
      BY <2>2 DEF Step, CacheGet, Query, SetCache, RejectBlacklisted, EvalSha, CallFails,
         RejectFailClosed, Decide
    <3> QED BY <3>1
  <2> QED BY <1>2, <2>1, <2>2
<1>3. ASSUME NEW r \in Requests, NoScript(r)
      PROVE  UNCHANGED <<inflight, value>> /\ Reserved' = Reserved
  BY <1>3 DEF NoScript
<1>4. CASE Blacklisting
  <2>1. UNCHANGED <<inflight, value, result>>
    BY <1>4 DEF Blacklisting, BlacklistAdd, BlacklistRemove, Publish, Expire, Listen, LoseUpdate
  <2> QED BY <2>1
<1>5. CASE FlushScripts \/ CoolDown
  <2>1. UNCHANGED <<inflight, value, result>>
    BY <1>5 DEF FlushScripts, CoolDown
  <2> QED BY <2>1
<1>6. CASE UNCHANGED vars
  BY <1>6 DEF vars
<1>7. ASSUME NEW r \in Requests, NEW s \in Symbols, NEW v \in OrderValues, Begin(r, s, v)
      PROVE  Reserved' = Reserved
  BY <1>1, <1>7
<1> QED BY <1>1, <1>2, <1>3, <1>4, <1>5, <1>6, <1>7 DEF Next

\* The script runs for a request that it has not approved, and adds the value of
\* the order to the margin in flight when it approves it.
LEMMA ReservedRun ==
    ASSUME TypeOK, ApprovalInv, NEW r \in Requests, RunScript(r)
    PROVE  /\ r \notin Reserved
           /\ value' = value
           /\ \/ Reserved' = Reserved \cup {r} /\ inflight' = inflight + value[r]
              \/ Reserved' = Reserved /\ inflight' = inflight
<1> USE DEF TypeOK, RedisOK, RequestsOK, ApprovalInv, Reserved, request
<1>1. sent[r] # "none" /\ result[r] = "none" /\ value' = value
  BY DEF RunScript
<1>2. CASE result' = [result EXCEPT ![r] = "APPROVED"] /\ Reserve(r)
  <2>1. Reserved' = Reserved \cup {r}
    BY <1>1, <1>2
  <2> QED BY <1>1, <1>2, <2>1 DEF Reserve
<1>3. CASE result' = [result EXCEPT ![r] = "REJECTED"] /\ UNCHANGED inflight
  <2>1. Reserved' = Reserved
    BY <1>1, <1>3
  <2> QED BY <1>1, <1>3, <2>1
<1> QED BY <1>2, <1>3 DEF RunScript

\* The margin in flight is that of the approved orders.
LEMMA ReservedStep ==
    ASSUME IsFiniteSet(Requests), TypeOK, ApprovalInv, ReservedInv, [Next]_vars, TypeOK'
    PROVE  ReservedInv'
<1>0. /\ Reserved \subseteq Requests /\ Reserved' \subseteq Requests
      /\ IsFiniteSet(Reserved) /\ IsFiniteSet(Reserved')
      /\ value \in [Requests -> Int] /\ value' \in [Requests -> Int]
      /\ inflight \in Int
  <2>1. Reserved \subseteq Requests /\ Reserved' \subseteq Requests
    BY DEF Reserved
  <2> QED BY <2>1, FS_Subset DEF TypeOK, RequestsOK, RedisOK
<1>1. ASSUME NEW r \in Requests, RunScript(r) PROVE ReservedInv'
  <2>1. r \notin Reserved /\ value' = value
    BY <1>1, ReservedRun
  <2>2. CASE Reserved' = Reserved \cup {r} /\ inflight' = inflight + value[r]
    <3>1. r \in Reserved' /\ Reserved' \ {r} = Reserved
      BY <2>1, <2>2
    <3>2. \A x \in Reserved' : value[x] \in Int
      BY <1>0
    <3> DEFINE S == Reserved'
    <3>3. r \in S /\ S \ {r} = Reserved /\ IsFiniteSet(S) /\ \A x \in S : value[x] \in Int
      BY <1>0, <3>1, <3>2
    <3> HIDE DEF S
    <3>4. Total(value, S) = value[r] + Total(value, Reserved)
      BY <3>3, TotalRemove
    <3>5. inflight = Total(value, Reserved) /\ value[r] \in Int
      BY <1>0 DEF ReservedInv
    <3>6. inflight' = Total(value, S)
      BY <1>0, <2>2, <3>4, <3>5
    <3> QED BY <2>1, <3>6 DEF ReservedInv, S
  <2>3. CASE Reserved' = Reserved /\ inflight' = inflight
    BY <2>1, <2>3 DEF ReservedInv
  <2> QED BY <1>1, <2>2, <2>3, ReservedRun
<1>2. CASE \A r \in Requests : ~RunScript(r)
  <2>1. /\ inflight' = inflight /\ Reserved' = Reserved
        /\ \A x \in Reserved : value'[x] = value[x]
    BY <1>2, ReservedKept
  <2>2. Total(value', Reserved) = Total(value, Reserved)
    BY <1>0, <2>1, TotalSame
  <2> QED BY <2>1, <2>2 DEF ReservedInv
<1> QED BY <1>1, <1>2

\* Order values are no negative numbers if those that are sent are none.
LEMMA ValueStep ==
    ASSUME OrderValues \subseteq Nat, value \in [Requests -> Nat], [Next]_vars
    PROVE  value' \in [Requests -> Nat]
<1> USE DEF request
<1>1. ASSUME NEW r \in Requests, NEW s \in Symbols, NEW v \in OrderValues, Begin(r, s, v)
      PROVE  value' \in [Requests -> Nat]
  BY <1>1 DEF Begin
<1>2. ASSUME NEW r \in Requests, Step(r) PROVE value' = value
  BY <1>2 DEF Step, CacheGet, Query, SetCache, RejectBlacklisted, EvalSha, Eval, CallFails,
     RejectFailClosed, Decide
<1>3. ASSUME NEW r \in Requests, RunScript(r) \/ NoScript(r) PROVE value' = value
  BY <1>3 DEF RunScript, NoScript
<1>4. CASE Blacklisting
  BY <1>4 DEF Blacklisting, BlacklistAdd, BlacklistRemove, Publish, Expire, Listen, LoseUpdate
<1>5. CASE FlushScripts \/ CoolDown
  BY <1>5 DEF FlushScripts, CoolDown
<1>6. CASE UNCHANGED vars
  BY <1>6 DEF vars
<1> QED BY <1>1, <1>2, <1>3, <1>4, <1>5, <1>6 DEF Next

\* The approved answers are among the script's approvals, and those are among the
\* requests that have begun, so that the sums are ordered.
LEMMA ReservedFollows ==
    ASSUME IsFiniteSet(Requests), value \in [Requests -> Nat], ApprovalInv, ReservedInv
    PROVE  ReservedOnce
<1> DEFINE Approved == {r \in Requests : resp[r] = "APPROVED"}
           Begun == {r \in Requests : pc[r] # "idle"}
<1>1. Approved \subseteq Reserved /\ Reserved \subseteq Begun /\ Begun \subseteq Requests
  BY DEF ApprovalInv, Unsent, Reserved
<1>2. \A x \in Requests : value[x] \in Nat
  OBVIOUS
<1> HIDE DEF Approved, Begun
<1>3. IsFiniteSet(Reserved) /\ IsFiniteSet(Begun)
  BY <1>1, FS_Subset
<1>4. Total(value, Approved) <= Total(value, Reserved)
  BY <1>1, <1>2, <1>3, TotalPart
<1>5. Total(value, Reserved) <= Total(value, Begun)
  BY <1>1, <1>2, <1>3, TotalPart
<1> QED BY <1>4, <1>5 DEF ReservedInv, ReservedOnce, Approved, Begun

\* Every approved order holds its margin and no order holds it twice, for any
\* number of requests and any values of their orders, whatever is sent again as
\* EVAL, given up by its caller or run late.
THEOREM ReservedOnceTheorem ==
    OrderValues \subseteq Nat /\ IsFiniteSet(Requests) => (Spec => []ReservedOnce)
<1> SUFFICES ASSUME OrderValues \subseteq Nat, IsFiniteSet(Requests)
             PROVE  Spec => []ReservedOnce
  OBVIOUS
<1> DEFINE Inv == value \in [Requests -> Nat] /\ ReservedInv
<1>1. Init => Inv
  <2> SUFFICES ASSUME Init PROVE Inv
    OBVIOUS
  <2>1. value \in [Requests -> Nat] /\ inflight = 0 /\ Reserved = {}
    BY DEF Init, Reserved
  <2>2. Total(value, {}) = 0
    BY FS_EmptySet, TotalUnfold
  <2> QED BY <2>1, <2>2 DEF ReservedInv
<1>2. TypeOK /\ TypeOK' /\ ApprovalInv /\ Inv /\ [Next]_vars => Inv'
  BY ReservedStep, ValueStep
<1>3. ApprovalInv /\ Inv => ReservedOnce
  BY ReservedFollows
<1> HIDE DEF Inv
<1> QED
  BY <1>1, <1>2, <1>3, TypeCorrect, ApprovalInvariant, PTL DEF Spec
=============================================================================
