----------------------------- MODULE Connector -----------------------------
(***************************************************************************)
(* The outbound side of the connector framework: OutboundClient.request    *)
(* (connectors/middleware.py), the circuit breaker it feeds                *)
(* (connectors/health.py), the variant that shares its open flag through   *)
(* Redis (connectors/redis_health.py) and the error taxonomy that decides  *)
(* what is retried (connectors/errors.py).                                 *)
(*                                                                         *)
(* A request is one asyncio task of one worker process.  It gives up the   *)
(* event loop only where the code awaits: the Redis lookup, the HTTP       *)
(* attempt, the back-off sleep and the Redis store.  Everything between    *)
(* two awaits is one step.  Redis may be down for a while; the vendor may  *)
(* apply a write whose answer is lost.                                     *)
(***************************************************************************)
EXTENDS Integers, FiniteSets, FiniteSetsExt

CONSTANTS
    Workers,            \* worker processes, each with its own breaker
    Requests,           \* calls of OutboundClient.request
    Keys,               \* idempotency keys (given, or derived by uuid5)
    NoKey,              \* a read, or a client without Redis
    WorkerOf,           \* the worker a request runs in
    KeyOf,              \* the effective idempotency key of a request
    Statuses,           \* the answers the vendor may give
    FailureThreshold,   \* ConnectorHealth.failure_threshold
    CoolDown,           \* ConnectorHealth.cool_down_seconds
    MaxAttempts,        \* RetryPolicy.max_attempts
    MaxDelay,           \* RetryPolicy.max_delay, bound of one jittered wait
    TotalDeadline,      \* RetryPolicy.total_deadline
    Timeout,            \* the longest one HTTP attempt may take
    RetryAfters,        \* Retry-After values the vendor may send
    LastStart,          \* bound: no request begins later
    MaxOutages          \* bound: outages of Redis

ASSUME ConnectorAssumption ==
    /\ NoKey \notin Keys
    /\ WorkerOf \in [Requests -> Workers]
    /\ KeyOf \in [Requests -> Keys \cup {NoKey}]
    /\ Statuses \subseteq Int
    /\ FailureThreshold \in Nat \ {0}
    /\ CoolDown \in Nat \ {0}
    /\ MaxAttempts \in Nat \ {0}
    /\ MaxDelay \in Nat
    /\ TotalDeadline \in Nat \ {0}
    /\ Timeout \in Nat
    /\ RetryAfters \subseteq Nat
    /\ LastStart \in Nat
    /\ MaxOutages \in Nat

VARIABLES
    now,        \* time.monotonic()
    shared,     \* the breakers are RedisConnectorHealth
    redisUp,    \* Redis answers
    outages,    \* outages of Redis so far
    health,     \* per worker: the ConnectorHealth of the connector
    flagUntil,  \* expiry of cam:circuit_open:<connector>; 0 = absent
    stored,     \* keys with a completed idempotency record
    req,        \* per request: where its task is
    applied     \* per key: how often the vendor carried the write out

vars == <<now, shared, redisUp, outages, health, flagUntil, stored, req, applied>>

-----------------------------------------------------------------------------
(* The error taxonomy *)

\* httpx exceptions, numbered below every HTTP status.
TimeoutExc == -1
NetworkExc == -2
OtherExc   == -3

\* Mutant: everything below the server errors counts as success.
NotServerError(status) == status \in 200..499

IsSuccess(status) == status \in 200..299

\* The baseline classifier: exactly one of the five terminal classes.
classify(status) ==
    CASE status \in {401, 403}                           -> "auth"
      [] status = 429                                    -> "rate_limit"
      [] status = 404                                    -> "not_found"
      [] status \in {408, 425, 500, 502, 503, 504}       -> "transient"
      [] status \in {TimeoutExc, NetworkExc}             -> "transient"
      [] OTHER                                           -> "fatal"

Retryable(class) == class \in {"rate_limit", "transient"}

-----------------------------------------------------------------------------
(* The circuit breaker *)

Never == -1

HealthStates == {"healthy", "degraded", "open", "half_open"}

NewHealth == [state |-> "healthy", failures |-> 0, openedAt |-> Never]

DegradedAt == IF FailureThreshold \div 2 >= 1 THEN FailureThreshold \div 2 ELSE 1

\* The state property: reading it may turn open into half_open.
MaybeHalfOpen(h, t) ==
    IF h.state = "open" /\ h.openedAt # Never /\ t - h.openedAt >= CoolDown
    THEN [h EXCEPT !.state = "half_open"]
    ELSE h

\* Mutant: the success of a probe does not reset the count.
RecordSuccessKeepsCount(h) ==
    [h EXCEPT !.state = "healthy", !.openedAt = Never]

RecordSuccess(h) ==
    [state    |-> "healthy",
     failures |-> 0,
     openedAt |-> IF h.state = "healthy" THEN h.openedAt ELSE Never]

RecordFailure(h, t) ==
    LET n     == h.failures + 1
        trips == \/ h.state = "half_open"
                 \/ h.state \in {"healthy", "degraded"} /\ n >= FailureThreshold
    IN  [state    |-> CASE trips -> "open"
                        [] ~trips /\ h.state \in {"healthy", "degraded"}
                                  /\ n >= DegradedAt -> "degraded"
                        [] OTHER -> h.state,
         failures |-> n,
         openedAt |-> IF trips THEN t ELSE h.openedAt]

\* Redis answers for the shared breaker; the local state is then not read.
UsesFlag == shared /\ redisUp

FlagUp == now < flagUntil

Peeked(w) == IF UsesFlag THEN health[w] ELSE MaybeHalfOpen(health[w], now)

\* Mutant: only the local state counts.
IsOpenLocalOnly(w) == MaybeHalfOpen(health[w], now).state = "open"

IsOpen(w) == IF UsesFlag THEN FlagUp ELSE Peeked(w).state = "open"

\* record_success of either class: the local state, then the flag.
Succeeded(w) ==
    /\ health' = [health EXCEPT ![w] = RecordSuccess(@)]
    /\ flagUntil' = IF UsesFlag THEN 0 ELSE flagUntil

\* record_failure of either class; the flag gets the cool-down as its expiry.
Failed(w) ==
    /\ health' = [health EXCEPT ![w] = RecordFailure(@, now)]
    /\ flagUntil' = IF UsesFlag /\ health'[w].state = "open"
                    THEN now + CoolDown ELSE flagUntil

-----------------------------------------------------------------------------
(* A request *)

Running  == {"lookup", "inflight", "sleep", "store"}
Settled  == {"done", "replayed", "rejected", "failed"}

Idle == [pc |-> "idle", attempt |-> 0, deadline |-> 0, due |-> 0,
         admitted |-> Never, blind |-> FALSE, late |-> FALSE]

\* The task ends; the locals of the call are gone.
Settle(r, pc) == req' = [req EXCEPT ![r] = [Idle EXCEPT !.pc = pc]]

\* One HTTP attempt leaves: due is the time by which httpx gives up.
Sending(q) == [q EXCEPT !.pc = "inflight", !.attempt = @ + 1, !.due = now + Timeout]

\* Entry of _execute_with_retry: the total deadline starts here.
Entering(q) == Sending([q EXCEPT !.deadline = now + TotalDeadline])

\* admitted, blind and late are history: when the guard let the request
\* pass, whether Redis was down then, whether the key was stored already.
Admitted(r) ==
    [req[r] EXCEPT !.pc = "lookup", !.admitted = now, !.blind = ~redisUp,
                   !.late = KeyOf[r] \in stored]

\* request(): _guard_circuit, then the idempotency lookup of a write or the
\* first attempt of a read.
Begin(r) ==
    /\ req[r].pc = "idle"
    /\ now <= LastStart
    /\ health' = [health EXCEPT ![WorkerOf[r]] = Peeked(WorkerOf[r])]
    /\ req' = [req EXCEPT ![r] =
                 CASE IsOpen(WorkerOf[r]) -> [@ EXCEPT !.pc = "rejected"]
                   [] ~IsOpen(WorkerOf[r]) /\ KeyOf[r] # NoKey -> Admitted(r)
                   [] OTHER -> Entering(Admitted(r))]
    /\ UNCHANGED <<now, shared, redisUp, outages, flagUntil, stored, applied>>

\* Mutant: the record found is not returned.
LookupIgnoringRecord(r) ==
    /\ req[r].pc = "lookup"
    /\ IF redisUp THEN req' = [req EXCEPT ![r] = Entering(@)] ELSE Settle(r, "failed")
    /\ UNCHANGED <<now, shared, redisUp, outages, health, flagUntil, stored, applied>>

\* _idem_get: a Redis error propagates to the caller.
Lookup(r) ==
    /\ req[r].pc = "lookup"
    /\ CASE ~redisUp -> Settle(r, "failed")
         [] redisUp /\ KeyOf[r] \in stored -> Settle(r, "replayed")
         [] OTHER -> req' = [req EXCEPT ![r] = Entering(@)]
    /\ UNCHANGED <<now, shared, redisUp, outages, health, flagUntil, stored, applied>>

\* External: the vendor applies a write it answers with success, never one it
\* refuses, and perhaps one whose answer fails or is lost.
MayApply(status) ==
    CASE status \in 200..299 -> {1}
      [] classify(status) = "transient" -> {0, 1}
      [] OTHER -> {0}

Apply(r, n) ==
    applied' = IF KeyOf[r] = NoKey THEN applied ELSE [applied EXCEPT ![KeyOf[r]] = @ + n]

\* The attempt returned: record_success, then the store of a write.
AnswerOk(r, status) ==
    /\ req[r].pc = "inflight"
    /\ IsSuccess(status)
    /\ \E n \in MayApply(status) : Apply(r, n)
    /\ Succeeded(WorkerOf[r])
    /\ IF KeyOf[r] = NoKey THEN Settle(r, "done") ELSE req' = [req EXCEPT ![r].pc = "store"]
    /\ UNCHANGED <<now, shared, redisUp, outages, stored>>

\* Mutant: the wait is not cut to the time left.
BackoffUncut(q, class, jitter, after) ==
    IF class = "rate_limit" THEN Max({jitter, after}) ELSE jitter

\* The back-off of a retry: jitter, at least Retry-After, at most the time left.
Backoff(q, class, jitter, after) ==
    Min({IF class = "rate_limit" THEN Max({jitter, after}) ELSE jitter, q.deadline - now})

\* The attempt raised: record_failure, then give up or sleep.
AnswerError(r, status) ==
    /\ req[r].pc = "inflight"
    /\ ~IsSuccess(status)
    /\ \E n \in MayApply(status) : Apply(r, n)
    /\ Failed(WorkerOf[r])
    /\ LET q == req[r]
           class == classify(status)
       IN  IF ~Retryable(class) \/ q.attempt >= MaxAttempts \/ q.deadline - now <= 0
           THEN Settle(r, "failed")
           ELSE \E jitter \in 0..MaxDelay, after \in RetryAfters \cup {0} :
                  req' = [req EXCEPT ![r].pc = "sleep",
                                     ![r].due = now + Backoff(q, class, jitter, after)]
    /\ UNCHANGED <<now, shared, redisUp, outages, stored>>

\* Mutant: at the total deadline the loop goes round again.
WakeWithoutDeadline(r) ==
    /\ req[r].pc = "sleep"
    /\ now >= req[r].due
    /\ req' = IF now >= req[r].deadline THEN req ELSE [req EXCEPT ![r] = Sending(@)]
    /\ UNCHANGED <<now, shared, redisUp, outages, health, flagUntil, stored, applied>>

\* The sleep ended: past the total deadline the loop fails without an attempt.
Wake(r) ==
    /\ req[r].pc = "sleep"
    /\ now >= req[r].due
    /\ IF now >= req[r].deadline
       THEN Failed(WorkerOf[r]) /\ Settle(r, "failed")
       ELSE req' = [req EXCEPT ![r] = Sending(@)] /\ UNCHANGED <<health, flagUntil>>
    /\ UNCHANGED <<now, shared, redisUp, outages, stored, applied>>

\* _idem_set: a Redis error reaches the caller of a write that went through.
Store(r) ==
    /\ req[r].pc = "store"
    /\ stored' = IF redisUp THEN stored \cup {KeyOf[r]} ELSE stored
    /\ Settle(r, IF redisUp THEN "done" ELSE "failed")
    /\ UNCHANGED <<now, shared, redisUp, outages, health, flagUntil, applied>>

-----------------------------------------------------------------------------
(* Time and Redis *)

Horizon == LastStart + TotalDeadline + Timeout

\* The event loop runs a task whose timer is due, and a Redis call ends,
\* before the next unit of time.
Waiting(r) ==
    \/ req[r].pc \in {"idle"} \cup Settled
    \/ req[r].pc \in {"inflight", "sleep"} /\ now < req[r].due

Tick ==
    /\ now < Horizon
    /\ \A r \in Requests : Waiting(r)
    /\ now' = now + 1
    /\ UNCHANGED <<shared, redisUp, outages, health, flagUntil, stored, req, applied>>

RedisDown ==
    /\ redisUp
    /\ outages < MaxOutages
    /\ redisUp' = FALSE
    /\ outages' = outages + 1
    /\ UNCHANGED <<now, shared, health, flagUntil, stored, req, applied>>

RedisBack ==
    /\ ~redisUp
    /\ redisUp' = TRUE
    /\ UNCHANGED <<now, shared, outages, health, flagUntil, stored, req, applied>>

Finished ==
    /\ now = Horizon
    /\ \A r \in Requests : req[r].pc \notin Running
    /\ UNCHANGED vars

-----------------------------------------------------------------------------
Init ==
    /\ now = 0
    /\ shared \in BOOLEAN
    /\ redisUp = TRUE
    /\ outages = 0
    /\ health = [w \in Workers |-> NewHealth]
    /\ flagUntil = 0
    /\ stored = {}
    /\ req = [r \in Requests |-> Idle]
    /\ applied = [k \in Keys |-> 0]

Step(r) ==
    \/ Begin(r)
    \/ Lookup(r)
    \/ \E status \in Statuses : AnswerOk(r, status) \/ AnswerError(r, status)
    \/ Wake(r)
    \/ Store(r)

Next ==
    \/ \E r \in Requests : Step(r)
    \/ Tick
    \/ RedisDown
    \/ RedisBack
    \/ Finished

Spec == Init /\ [][Next]_vars

\* asyncio runs every task that is ready, an attempt ends by its timeout, the
\* clock advances, and an outage of Redis is not endless.
FairSpec == Spec /\ WF_vars(Next)

-----------------------------------------------------------------------------
(* Properties *)

TypeOK ==
    /\ now \in Nat
    /\ shared \in BOOLEAN
    /\ redisUp \in BOOLEAN
    /\ outages \in Nat
    /\ health \in [Workers -> [state : HealthStates, failures : Nat, openedAt : Nat \cup {Never}]]
    /\ flagUntil \in Nat
    /\ stored \subseteq Keys
    /\ req \in [Requests -> [pc : {"idle"} \cup Running \cup Settled, attempt : Nat,
                             deadline : Nat, due : Nat, admitted : Nat \cup {Never},
                             blind : BOOLEAN, late : BOOLEAN]]
    /\ applied \in [Keys -> Nat]

\* The state of a breaker and its failure count never disagree, whatever order
\* the answers of concurrent requests come back in: below the thresholds it is
\* closed, at the threshold it is open or probing and knows since when.
BreakerCoherent ==
    \A w \in Workers :
      LET h == health[w]
      IN  /\ h.state = "healthy"  <=> h.failures < DegradedAt /\ h.failures < FailureThreshold
          /\ h.state = "degraded" <=> h.failures >= DegradedAt /\ h.failures < FailureThreshold
          /\ h.state \in {"open", "half_open"} <=> h.openedAt # Never
          /\ h.openedAt <= now

\* Fail fast: while a breaker is open and cooling down, every request of its
\* worker that is still under way had passed the guard before it opened; the
\* shared flag stops the requests of all workers in the same way, except one
\* whose guard could only ask the local breaker because Redis was down.
OpenStopsRequests ==
    \A r \in Requests :
      LET h == health[WorkerOf[r]]
      IN  req[r].pc \in Running =>
            /\ (~shared /\ h.state = "open" /\ now < h.openedAt + CoolDown)
                 => req[r].admitted <= h.openedAt
            /\ (shared /\ FlagUp)
                 => req[r].admitted <= flagUntil - CoolDown \/ req[r].blind

\* A caller is told that a write succeeded, by an answer or by a replayed
\* record, only when the vendor has carried the write out.
SuccessMeansApplied ==
    /\ \A k \in stored : applied[k] >= 1
    /\ \A r \in Requests :
         (req[r].pc \in {"done", "replayed"} /\ KeyOf[r] # NoKey) => applied[KeyOf[r]] >= 1

\* A request that begins after the record of its key is stored never reaches
\* the vendor: a write is repeated only by requests and retries that were
\* already under way when the first one was recorded.
NoResendAfterStore ==
    \A r \in Requests : req[r].late => req[r].pc \notin {"inflight", "sleep", "store"}

\* The retry loop respects its budget: no attempt, sleep or store lasts beyond
\* the total deadline by more than the timeout of one attempt.
BoundedCall ==
    \A r \in Requests :
      req[r].pc \in {"inflight", "sleep", "store"} => now <= req[r].deadline + Timeout

\* Every request that passed the guard ends, done, replayed or failed: the
\* client comes to rest again and again, whatever the vendor and Redis do.
RequestsSettle == []<>(\A r \in Requests : req[r].pc \notin Running)

=============================================================================
