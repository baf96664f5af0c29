--------------------------- MODULE BreakerClients ---------------------------
(***************************************************************************)
(* The circuit breaker under callers that never stop sending orders, with  *)
(* a Redis that may fail and recover.  Callers run concurrently: the       *)
(* outcome of an attempt admitted in one breaker state may be recorded in  *)
(* another.                                                                *)
(***************************************************************************)
EXTENDS CircuitBreaker, FiniteSets

CONSTANTS Callers,
          MaxOutages,   \* bound: how often Redis goes down
          MaxFailures   \* bound: failures that pile up while it is down

ASSUME ClientsAssumption ==
    /\ IsFiniteSet(Callers)
    /\ MaxOutages \in Nat
    /\ MaxFailures \in Nat

VARIABLES redisUp, outages,
          caller    \* "idle", "attempting", "succeeded", "failed"

vars == <<breaker, redisUp, outages, caller>>

Init ==
    /\ BreakerInit
    /\ redisUp = TRUE
    /\ outages = 0
    /\ caller = [c \in Callers |-> "idle"]

Call(c) ==
    /\ caller[c] = "idle"
    /\ \/ Attempt /\ caller' = [caller EXCEPT ![c] = "attempting"]
       \/ Refuse /\ UNCHANGED caller
    /\ UNCHANGED <<redisUp, outages>>

\* Redis answers in time.
RedisAnswers(c) ==
    /\ caller[c] = "attempting"
    /\ redisUp
    /\ caller' = [caller EXCEPT ![c] = "succeeded"]
    /\ UNCHANGED <<breaker, redisUp, outages>>

\* A symbol the local cache holds as blacklisted is a success without Redis.
CacheAnswers(c) ==
    /\ caller[c] = "attempting"
    /\ caller' = [caller EXCEPT ![c] = "succeeded"]
    /\ UNCHANGED <<breaker, redisUp, outages>>

\* The call fails or times out.
RedisFails(c) ==
    /\ caller[c] = "attempting"
    /\ ~redisUp
    /\ failures + Cardinality({d \in Callers : caller[d] = "failed"}) < MaxFailures
    /\ caller' = [caller EXCEPT ![c] = "failed"]
    /\ UNCHANGED <<breaker, redisUp, outages>>

Record(c) ==
    /\ \/ caller[c] = "succeeded" /\ RecordSuccess
       \/ caller[c] = "failed" /\ RecordFailure
    /\ caller' = [caller EXCEPT ![c] = "idle"]
    /\ UNCHANGED <<redisUp, outages>>

Outage ==
    /\ redisUp /\ outages < MaxOutages
    /\ redisUp' = FALSE
    /\ outages' = outages + 1
    /\ UNCHANGED <<breaker, caller>>

Recover ==
    /\ ~redisUp
    /\ redisUp' = TRUE
    /\ UNCHANGED <<breaker, outages, caller>>

CoolDown == Cooldown /\ UNCHANGED <<redisUp, outages, caller>>

Next ==
    \/ \E c \in Callers : Call(c) \/ RedisAnswers(c) \/ CacheAnswers(c) \/ RedisFails(c) \/ Record(c)
    \/ Outage \/ Recover \/ CoolDown

\* Goroutines run, time passes, and the strategies go on sending orders.
Fairness ==
    /\ \A c \in Callers :
           /\ WF_vars(Call(c))
           /\ WF_vars(RedisAnswers(c) \/ RedisFails(c))
           /\ WF_vars(Record(c))
    /\ WF_vars(CoolDown)

Spec == Init /\ [][Next]_vars
FairSpec == Spec /\ Fairness

-----------------------------------------------------------------------------
\* Type invariant.
TypeOK ==
    /\ cbState \in {"closed", "open", "halfOpen"}
    /\ failures \in Nat
    /\ cooled \in BOOLEAN
    /\ redisUp \in BOOLEAN
    /\ outages \in Nat
    /\ caller \in [Callers -> {"idle", "attempting", "succeeded", "failed"}]

\* An outage does not lock the desk out for good: once Redis stays up, and
\* orders keep coming, the breaker closes again and stays closed.
BreakerRecovers == <>[]redisUp => <>[](cbState = "closed")
=============================================================================
