--------------------------- MODULE CircuitBreaker ---------------------------
(***************************************************************************)
(* The circuit breaker of the risk node (interceptor/risk.go).  Each of    *)
(* its methods runs under the breaker's mutex and is one step.             *)
(***************************************************************************)
EXTENDS Integers

CONSTANT Threshold      \* RecordFailure trips at this many failures (3)

ASSUME ThresholdAssumption == Threshold \in Nat \ {0}

VARIABLES cbState,      \* "closed", "open", "halfOpen"
          failures,     \* failures since the last success
          cooled        \* time.Since(lastStateChg) > cooldown

breaker == <<cbState, failures, cooled>>

BreakerInit ==
    /\ cbState = "closed"
    /\ failures = 0
    /\ cooled = FALSE

\* MUTANT: a success does not reset the count.
RecordSuccess_KeepsCount ==
    /\ cbState' = IF cbState = "halfOpen" THEN "closed" ELSE cbState
    /\ UNCHANGED <<failures, cooled>>

\* A success closes a half-open breaker and, in any state, resets the count.
RecordSuccess ==
    /\ cbState' = IF cbState = "halfOpen" THEN "closed" ELSE cbState
    /\ failures' = 0
    /\ UNCHANGED cooled

Trips == failures + 1 >= Threshold /\ cbState # "open"

\* Entering open restarts the cooldown.
RecordFailure ==
    /\ failures' = failures + 1
    /\ cbState' = IF Trips THEN "open" ELSE cbState
    /\ cooled' = IF Trips THEN FALSE ELSE cooled

\* MUTANT: the cooldown only ever ends in the closed state.
CanAttempt_StaysOpen == cbState # "open"

\* CanAttempt answers TRUE ...
CanAttempt == cbState # "open" \/ cooled

\* ... and on that answer turns an open breaker half-open; every later caller
\* passes too until an outcome is recorded.
Attempt ==
    /\ CanAttempt
    /\ cbState' = IF cbState = "open" THEN "halfOpen" ELSE cbState
    /\ UNCHANGED <<failures, cooled>>

Refuse == ~CanAttempt /\ UNCHANGED breaker

\* The cooldown of an open breaker passes.
Cooldown ==
    /\ cbState = "open"
    /\ ~cooled
    /\ cooled' = TRUE
    /\ UNCHANGED <<cbState, failures>>

-----------------------------------------------------------------------------
\* A closed breaker has seen fewer failures in a row than trip it, although
\* outcomes of calls admitted before it tripped are recorded while it is open
\* or half-open.  With it, Threshold failures in a row always open it.
ClosedBelowThreshold == cbState = "closed" => failures < Threshold
=============================================================================
