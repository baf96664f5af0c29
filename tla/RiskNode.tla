------------------------------ MODULE RiskNode ------------------------------
(***************************************************************************)
(* The risk node (cmd/risk_node): the gRPC interceptor that checks every   *)
(* order against a blacklist and the account's margin before the handler   *)
(* approves it, with its circuit breaker, its blacklist cache and the Lua  *)
(* script Redis runs for it.                                               *)
(*                                                                         *)
(* A request r is one call of RiskInterceptor in a goroutine of its own.   *)
(* A call of Redis is two or three steps: the command is sent, Redis runs  *)
(* it, the reply arrives.  The client may give up at any point between,    *)
(* and then Redis may still run the command, have run it, or never see it. *)
(***************************************************************************)
EXTENDS CircuitBreaker, Sequences, Sums

CONSTANTS Requests, Symbols,
          OrderValues,   \* price * quantity
          MaxCap,        \* cap of a single order
          Margin,        \* account:margin:available at start
          MaxUpdates,    \* bound: edits of the blacklist
          MaxFlushes,    \* bound: restarts of Redis that lose its scripts
          NoSymbol

ASSUME RiskAssumption ==
    /\ OrderValues \subseteq Int
    /\ MaxCap \in Int
    /\ Margin \in Nat
    /\ MaxUpdates \in Nat
    /\ MaxFlushes \in Nat
    /\ NoSymbol \notin Symbols

VARIABLES cache,             \* BlacklistCache: "miss", "yes" or "no"
          astray,            \* history: symbols whose entry was read before an edit of
                             \* the blacklist, or missed an update
          blacklist,         \* Redis: the set "blacklist"
          channel,           \* Redis: published, not yet handled updates
          avail, inflight,   \* Redis: account:margin:*
          scriptLoaded,      \* Redis: knows LuaSHA
          sent,              \* the EVALSHA or EVAL of a request on its way
          result,            \* what Redis answered to it
          pc, symbol, value, \* control state and order of each request
          isBlacklisted,     \* its local
          resp,              \* its answer
          clear,             \* history: its symbol was off the blacklist once
                             \* since the request began
          updates, flushes

redis == <<blacklist, channel, avail, inflight, scriptLoaded, updates, flushes>>
wire == <<sent, result>>
request == <<pc, symbol, value, isBlacklisted, resp, clear>>
vars == <<breaker, cache, astray, redis, wire, request>>

-----------------------------------------------------------------------------
Goto(r, label) == pc' = [pc EXCEPT ![r] = label]

Answer(r, answer) ==
    /\ Goto(r, "done")
    /\ resp' = [resp EXCEPT ![r] = answer]

(***************************************************************************)
(* RiskInterceptor                                                         *)
(***************************************************************************)
Begin(r, s, v) ==
    /\ pc[r] = "idle"
    /\ symbol' = [symbol EXCEPT ![r] = s]
    /\ value' = [value EXCEPT ![r] = v]
    /\ clear' = [clear EXCEPT ![r] = s \notin blacklist]
    /\ \/ Attempt /\ Goto(r, "cache") /\ UNCHANGED resp
       \/ Refuse /\ Answer(r, "FAIL_CLOSED")
    /\ UNCHANGED <<cache, astray, redis, wire, isBlacklisted>>

CacheGet(r) ==
    /\ pc[r] = "cache"
    /\ Goto(r, CASE cache[symbol[r]] = "miss" -> "query"
                 [] cache[symbol[r]] = "yes" -> "blacklisted"
                 [] cache[symbol[r]] = "no" -> "eval")
    /\ UNCHANGED <<breaker, cache, astray, redis, wire, symbol, value, isBlacklisted, resp, clear>>

\* queryRedisBlacklist reads through, or fails.
Query(r) ==
    /\ pc[r] = "query"
    /\ \/ /\ isBlacklisted' = [isBlacklisted EXCEPT ![r] = symbol[r] \in blacklist]
          /\ Goto(r, "setCache")
       \/ /\ Goto(r, "failed")
          /\ UNCHANGED isBlacklisted
    /\ UNCHANGED <<breaker, cache, astray, redis, wire, symbol, value, resp, clear>>

\* What was read may be out of date when it is cached.
SetCache(r) ==
    /\ pc[r] = "setCache"
    /\ cache' = [cache EXCEPT ![symbol[r]] = IF isBlacklisted[r] THEN "yes" ELSE "no"]
    /\ astray' = IF isBlacklisted[r] = (symbol[r] \in blacklist)
                 THEN astray \ {symbol[r]} ELSE astray \cup {symbol[r]}
    /\ Goto(r, IF isBlacklisted[r] THEN "blacklisted" ELSE "eval")
    /\ UNCHANGED <<breaker, redis, wire, symbol, value, isBlacklisted, resp, clear>>

RejectBlacklisted(r) ==
    /\ pc[r] = "blacklisted"
    /\ RecordSuccess
    /\ Answer(r, "REJECTED")
    /\ UNCHANGED <<cache, astray, redis, wire, symbol, value, isBlacklisted, clear>>

EvalSha(r) ==
    /\ pc[r] = "eval"
    /\ sent' = [sent EXCEPT ![r] = "EVALSHA"]
    /\ Goto(r, "wait")
    /\ UNCHANGED <<breaker, cache, astray, redis, result, symbol, value, isBlacklisted, resp, clear>>

\* Redis does not know the script: send its text.
Eval(r) ==
    /\ pc[r] = "wait"
    /\ result[r] = "NOSCRIPT"
    /\ sent' = [sent EXCEPT ![r] = "EVAL"]
    /\ result' = [result EXCEPT ![r] = "none"]
    /\ UNCHANGED <<breaker, cache, astray, redis, request>>

\* MUTANT: a call that failed is sent once more.
CallFails_Resends(r) ==
    /\ pc[r] = "wait"
    /\ \/ Goto(r, "failed") /\ UNCHANGED sent
       \/ Goto(r, "eval") /\ sent' = [sent EXCEPT ![r] = "none"]
    /\ UNCHANGED <<breaker, cache, astray, redis, result, symbol, value, isBlacklisted, resp, clear>>

\* An error or the deadline, before or after Redis runs the command; a command
\* that has not run may be lost or run later.
CallFails(r) ==
    /\ pc[r] = "wait"
    /\ Goto(r, "failed")
    /\ UNCHANGED sent \/ sent' = [sent EXCEPT ![r] = "none"]
    /\ UNCHANGED <<breaker, cache, astray, redis, result, symbol, value, isBlacklisted, resp, clear>>

RejectFailClosed(r) ==
    /\ pc[r] = "failed"
    /\ RecordFailure
    /\ Answer(r, "FAIL_CLOSED")
    /\ UNCHANGED <<cache, astray, redis, wire, symbol, value, isBlacklisted, clear>>

\* The handler of an approved order answers SUBMITTED without a further check.
Decide(r) ==
    /\ pc[r] = "wait"
    /\ result[r] \in {"APPROVED", "REJECTED"}
    /\ RecordSuccess
    /\ Answer(r, result[r])
    /\ UNCHANGED <<cache, astray, redis, wire, symbol, value, isBlacklisted, clear>>

-----------------------------------------------------------------------------
(***************************************************************************)
(* risk_check.lua, which Redis runs atomically                             *)
(***************************************************************************)
\* MUTANT: the script trusts the caller's blacklist check.
Approves_TrustsCache(r) ==
    /\ value[r] <= MaxCap
    /\ value[r] <= avail

Approves(r) ==
    /\ symbol[r] \notin blacklist
    /\ value[r] <= MaxCap
    /\ value[r] <= avail

\* MUTANT: the reservation is not taken off the available margin.
Reserve_InflightOnly(r) ==
    /\ inflight' = inflight + value[r]
    /\ UNCHANGED avail

Reserve(r) ==
    /\ avail' = avail - value[r]
    /\ inflight' = inflight + value[r]

RunScript(r) ==
    /\ sent[r] # "none"
    /\ sent[r] = "EVAL" \/ scriptLoaded
    /\ scriptLoaded' = TRUE
    /\ sent' = [sent EXCEPT ![r] = "none"]
    /\ \/ /\ Approves(r)
          /\ Reserve(r)
          /\ result' = [result EXCEPT ![r] = "APPROVED"]
       \/ /\ ~Approves(r)
          /\ result' = [result EXCEPT ![r] = "REJECTED"]
          /\ UNCHANGED <<avail, inflight>>
    /\ UNCHANGED <<breaker, cache, astray, blacklist, channel, updates, flushes, request>>

NoScript(r) ==
    /\ sent[r] = "EVALSHA"
    /\ ~scriptLoaded
    /\ sent' = [sent EXCEPT ![r] = "none"]
    /\ result' = [result EXCEPT ![r] = "NOSCRIPT"]
    /\ UNCHANGED <<breaker, cache, astray, redis, request>>

-----------------------------------------------------------------------------
(***************************************************************************)
(* The blacklist: edited and published by an operator (external), followed *)
(* by ListenBlacklistUpdates.  An edit and its publication are one step:   *)
(* what happens between them can as well happen before the listener        *)
(* handles the update.  Operators do not edit a symbol at the same time.   *)
(***************************************************************************)
Publish(s, op) ==
    /\ updates < MaxUpdates
    /\ updates' = updates + 1
    /\ channel' = Append(channel, [op |-> op, symbol |-> s])
    /\ UNCHANGED <<breaker, cache, astray, avail, inflight, scriptLoaded, flushes, wire,
                   pc, symbol, value, isBlacklisted, resp>>

BlacklistAdd(s) ==
    /\ s \notin blacklist
    /\ blacklist' = blacklist \cup {s}
    /\ UNCHANGED clear
    /\ Publish(s, "ADD")

BlacklistRemove(s) ==
    /\ s \in blacklist
    /\ blacklist' = blacklist \ {s}
    /\ clear' = [r \in Requests |-> clear[r] \/ (pc[r] # "idle" /\ symbol[r] = s)]
    /\ Publish(s, "REMOVE")

\* MUTANT: the listener only knows additions.
Listen_AddOnly ==
    /\ channel # <<>>
    /\ cache' = [cache EXCEPT ![Head(channel).symbol] =
                    IF Head(channel).op = "ADD" THEN "yes" ELSE @]
    /\ astray' = astray \ {Head(channel).symbol}
    /\ channel' = Tail(channel)
    /\ UNCHANGED <<breaker, blacklist, avail, inflight, scriptLoaded, updates, flushes,
                   wire, request>>

Listen ==
    /\ channel # <<>>
    /\ cache' = [cache EXCEPT ![Head(channel).symbol] =
                    IF Head(channel).op = "ADD" THEN "yes" ELSE "no"]
    /\ astray' = astray \ {Head(channel).symbol}
    /\ channel' = Tail(channel)
    /\ UNCHANGED <<breaker, blacklist, avail, inflight, scriptLoaded, updates, flushes,
                   wire, request>>

\* Pub/sub drops what is published while the subscription is down.
LoseUpdate ==
    /\ channel # <<>>
    /\ channel' = Tail(channel)
    /\ astray' = astray \cup {Head(channel).symbol}
    /\ UNCHANGED <<breaker, cache, blacklist, avail, inflight, scriptLoaded, updates,
                   flushes, wire, request>>

\* An entry older than ttl is no hit.
Expire(s) ==
    /\ cache[s] # "miss"
    /\ cache' = [cache EXCEPT ![s] = "miss"]
    /\ astray' = astray \ {s}
    /\ UNCHANGED <<breaker, redis, wire, request>>

FlushScripts ==
    /\ scriptLoaded
    /\ flushes < MaxFlushes
    /\ scriptLoaded' = FALSE
    /\ flushes' = flushes + 1
    /\ UNCHANGED <<breaker, cache, astray, blacklist, channel, avail, inflight, updates, wire, request>>

CoolDown == Cooldown /\ UNCHANGED <<cache, astray, redis, wire, request>>

-----------------------------------------------------------------------------
\* NewRiskNode has loaded the script; SyncBlacklist has cached the blacklist,
\* or has failed, which is ignored.
Init ==
    /\ BreakerInit
    /\ blacklist \in SUBSET Symbols
    /\ cache \in {[s \in Symbols |-> "miss"],
                  [s \in Symbols |-> IF s \in blacklist THEN "yes" ELSE "miss"]}
    /\ astray = {}
    /\ channel = <<>>
    /\ avail = Margin
    /\ inflight = 0
    /\ scriptLoaded = TRUE
    /\ sent = [r \in Requests |-> "none"]
    /\ result = [r \in Requests |-> "none"]
    /\ pc = [r \in Requests |-> "idle"]
    /\ symbol = [r \in Requests |-> NoSymbol]
    /\ value = [r \in Requests |-> 0]
    /\ isBlacklisted = [r \in Requests |-> FALSE]
    /\ resp = [r \in Requests |-> "none"]
    /\ clear = [r \in Requests |-> FALSE]
    /\ updates = 0
    /\ flushes = 0

Step(r) ==
    \/ CacheGet(r) \/ Query(r) \/ SetCache(r) \/ RejectBlacklisted(r)
    \/ EvalSha(r) \/ Eval(r) \/ CallFails(r) \/ RejectFailClosed(r) \/ Decide(r)

Blacklisting ==
    \/ \E s \in Symbols : BlacklistAdd(s) \/ BlacklistRemove(s) \/ Expire(s)
    \/ Listen \/ LoseUpdate

Next ==
    \/ \E r \in Requests, s \in Symbols, v \in OrderValues : Begin(r, s, v)
    \/ \E r \in Requests : Step(r) \/ RunScript(r) \/ NoScript(r)
    \/ Blacklisting
    \/ FlushScripts
    \/ CoolDown

Spec == Init /\ [][Next]_vars

-----------------------------------------------------------------------------
(***************************************************************************)
(* Properties                                                              *)
(***************************************************************************)
Labels == {"idle", "cache", "query", "setCache", "blacklisted", "eval", "wait",
           "failed", "done"}

RequestsOK ==
    /\ pc \in [Requests -> Labels]
    /\ symbol \in [Requests -> Symbols \cup {NoSymbol}]
    /\ \A r \in Requests : pc[r] # "idle" => symbol[r] \in Symbols
    /\ value \in [Requests -> Int]
    /\ isBlacklisted \in [Requests -> BOOLEAN]
    /\ resp \in [Requests -> {"none", "FAIL_CLOSED", "REJECTED", "APPROVED"}]
    /\ clear \in [Requests -> BOOLEAN]

RedisOK ==
    /\ blacklist \subseteq Symbols
    /\ channel \in Seq([op : {"ADD", "REMOVE"}, symbol : Symbols])
    /\ avail \in Int
    /\ inflight \in Int
    /\ scriptLoaded \in BOOLEAN
    /\ sent \in [Requests -> {"none", "EVALSHA", "EVAL"}]
    /\ result \in [Requests -> {"none", "NOSCRIPT", "APPROVED", "REJECTED"}]

CacheOK ==
    /\ cache \in [Symbols -> {"miss", "yes", "no"}]
    /\ astray \subseteq Symbols

\* Type invariant.
TypeOK ==
    /\ cbState \in {"closed", "open", "halfOpen"}
    /\ failures \in Nat
    /\ cooled \in BOOLEAN
    /\ CacheOK
    /\ RedisOK
    /\ RequestsOK

\* However the callers interleave, time out or are run late, margin is neither
\* created nor lost, and the account is never overdrawn.
MarginConserved == avail >= 0 /\ avail + inflight = Margin

\* Every approved order holds its margin, and no order holds it twice, although
\* a script may be sent again as EVAL and may run after its caller gave up.
ReservedOnce ==
    /\ Total(value, {r \in Requests : resp[r] = "APPROVED"}) <= inflight
    /\ inflight <= Total(value, {r \in Requests : pc[r] # "idle"})

\* What keeps ReservedOnce: the margin in flight is exactly that of the orders the
\* script approved, answered or not.
Reserved == {r \in Requests : result[r] = "APPROVED"}

ReservedInv == inflight = Total(value, Reserved)

\* A request is approved only when the script ran for it, in this call, at a
\* moment at which its symbol was off the blacklist: a stale cache entry, a lost
\* update and a concurrent edit can delay or refuse an order, never approve one
\* whose symbol was blacklisted throughout the call.
ApprovedWasClear == \A r \in Requests : resp[r] = "APPROVED" => clear[r]

\* What keeps ApprovedWasClear: no command is on the wire or run before the
\* request sends it, nor one on the wire once there is a result; history knows a
\* symbol that is clear now; and an approval by the script was an approval of a
\* clear symbol.
Unsent == {"idle", "cache", "query", "setCache", "eval"}

ApprovalInv ==
    \A r \in Requests :
        /\ pc[r] \in Unsent => sent[r] = "none" /\ result[r] = "none"
        /\ sent[r] # "none" => result[r] = "none"
        /\ pc[r] # "idle" /\ symbol[r] \notin blacklist => clear[r]
        /\ result[r] = "APPROVED" => clear[r]
        /\ resp[r] = "APPROVED" => result[r] = "APPROVED"

\* The published updates of a symbol that are still to be handled.
Pending(s) == {i \in DOMAIN channel : channel[i].symbol = s}

\* The cache follows the blacklist: an entry that no update is on its way to
\* correct says what Redis says, whichever requests read, cached and expired it
\* and whichever edits were published in between.  There are two ways for an
\* entry to be wrong until it expires: a request cached what it had read before an
\* edit (SetCache after queryRedisBlacklist), or an update was lost.
CacheFollows ==
    \A s \in Symbols :
        Pending(s) = {} /\ s \notin astray /\ cache[s] # "miss" =>
            (cache[s] = "yes" <=> s \in blacklist)

\* What keeps CacheFollows: the last update on its way for a symbol is its last
\* edit.
LastUpdate(s) ==
    \A i \in Pending(s) :
        (\A j \in Pending(s) : j <= i) => (channel[i].op = "ADD" <=> s \in blacklist)

CacheInv == CacheFollows /\ \A s \in Symbols : LastUpdate(s)
=============================================================================
