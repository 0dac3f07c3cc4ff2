-------------------------- MODULE ConnectorProofs ---------------------------
(***************************************************************************)
(* Proofs about Connector, for any number of workers, requests and keys,   *)
(* any thresholds, delays and answers, and any number of Redis outages.    *)
(***************************************************************************)
EXTENDS Connector, TLAPS

USE ConnectorAssumption

-----------------------------------------------------------------------------
(* The inductive invariant *)

Health == [state : HealthStates, failures : Nat, openedAt : Nat \cup {Never}]

RequestState ==
    [pc : {"idle"} \cup Running \cup Settled, attempt : Nat, deadline : Nat,
     due : Nat, admitted : Nat \cup {Never}, blind : BOOLEAN, late : BOOLEAN]

(* One breaker agrees with its failure count at time t. *)
Coherent(h, t) ==
    /\ h.state = "healthy"  <=> h.failures < DegradedAt /\ h.failures < FailureThreshold
    /\ h.state = "degraded" <=> h.failures >= DegradedAt /\ h.failures < FailureThreshold
    /\ h.state \in {"open", "half_open"} <=> h.openedAt # Never
    /\ h.openedAt <= t

(* A write that is looked up has a key, one that is stored was carried out; *)
(* a call that began late finds its record; a timer lies ahead and within  *)
(* the budget.                                                             *)
Local(r) ==
    /\ req[r].admitted <= now
    /\ req[r].late => KeyOf[r] \in stored
    /\ req[r].late => req[r].pc \notin {"inflight", "sleep", "store"}
    /\ req[r].pc \in {"lookup", "store"} => KeyOf[r] \in Keys
    /\ req[r].pc \in {"store", "done", "replayed"} =>
           (KeyOf[r] \in Keys => applied[KeyOf[r]] >= 1)
    /\ req[r].pc = "inflight" => now <= req[r].due /\ req[r].due <= req[r].deadline + Timeout
    /\ req[r].pc = "sleep" => now <= req[r].due /\ req[r].due <= req[r].deadline
    /\ req[r].pc = "store" => now <= req[r].deadline + Timeout

(* A request under way was let through before its breaker, or the shared   *)
(* flag, stopped everybody.                                                *)
LetThrough(r) ==
    req[r].pc \in Running =>
        /\ (~shared /\ health[WorkerOf[r]].state = "open"
              /\ now < health[WorkerOf[r]].openedAt + CoolDown)
             => req[r].admitted <= health[WorkerOf[r]].openedAt
        /\ (shared /\ FlagUp) => req[r].admitted <= flagUntil - CoolDown \/ req[r].blind

IInv ==
    /\ TypeOK
    /\ \A w \in Workers : Coherent(health[w], now)
    /\ \A k \in stored : applied[k] >= 1
    /\ \A r \in Requests : Local(r)
    /\ \A r \in Requests : LetThrough(r)

-----------------------------------------------------------------------------
(* The breaker *)

(* The lower threshold is at least one. *)
LEMMA DegradedAtType == DegradedAt \in Nat /\ DegradedAt >= 1
  BY DEF DegradedAt

(* A new breaker is healthy. *)
LEMMA NewHealthOK == NewHealth \in Health /\ Coherent(NewHealth, 0)
  BY DegradedAtType DEF NewHealth, Health, HealthStates, Coherent, Never

(* Reading the state keeps the breaker coherent, and what still reads open *)
(* was open and is untouched.                                              *)
LEMMA MaybeHalfOpenOK ==
  ASSUME NEW h \in Health, NEW t \in Nat, Coherent(h, t)
  PROVE  /\ MaybeHalfOpen(h, t) \in Health
         /\ Coherent(MaybeHalfOpen(h, t), t)
         /\ MaybeHalfOpen(h, t).state = "open" => MaybeHalfOpen(h, t) = h
         /\ h.state = "open" /\ t < h.openedAt + CoolDown => MaybeHalfOpen(h, t) = h
  BY DEF MaybeHalfOpen, Health, HealthStates, Coherent, Never

(* A success closes the breaker. *)
LEMMA RecordSuccessOK ==
  ASSUME NEW h \in Health, NEW t \in Nat, Coherent(h, t)
  PROVE  /\ RecordSuccess(h) \in Health
         /\ Coherent(RecordSuccess(h), t)
         /\ RecordSuccess(h).state # "open"
  BY DegradedAtType DEF RecordSuccess, Health, HealthStates, Coherent, Never

(* A failure keeps the breaker coherent; if it is open afterwards, it was  *)
(* open already or has opened now.                                         *)
LEMMA RecordFailureOK ==
  ASSUME NEW h \in Health, NEW t \in Nat, Coherent(h, t)
  PROVE  /\ RecordFailure(h, t) \in Health
         /\ Coherent(RecordFailure(h, t), t)
         /\ RecordFailure(h, t).state = "open" =>
                \/ h.state = "open" /\ RecordFailure(h, t).openedAt = h.openedAt
                \/ RecordFailure(h, t).openedAt = t
<1> DEFINE n == h.failures + 1
<1>1. CASE h.state = "half_open"
  BY <1>1, DegradedAtType DEF RecordFailure, Health, HealthStates, Coherent, Never
<1>2. CASE h.state = "open"
  BY <1>2, DegradedAtType DEF RecordFailure, Health, HealthStates, Coherent, Never
<1>3. CASE h.state \in {"healthy", "degraded"} /\ n >= FailureThreshold
  BY <1>3, DegradedAtType DEF RecordFailure, Health, HealthStates, Coherent, Never
<1>4. CASE h.state \in {"healthy", "degraded"} /\ n < FailureThreshold /\ n >= DegradedAt
  BY <1>4, DegradedAtType DEF RecordFailure, Health, HealthStates, Coherent, Never
<1>5. CASE h.state \in {"healthy", "degraded"} /\ n < FailureThreshold /\ n < DegradedAt
  BY <1>5, DegradedAtType DEF RecordFailure, Health, HealthStates, Coherent, Never
<1>6. QED
  BY <1>1, <1>2, <1>3, <1>4, <1>5, DegradedAtType DEF Health, HealthStates

-----------------------------------------------------------------------------
(* Initial states *)

LEMMA InitInv == Init => IInv
<1> SUFFICES ASSUME Init PROVE IInv
  OBVIOUS
<1>1. TypeOK
  BY NewHealthOK DEF Init, TypeOK, Idle, Running, Settled, Never, Health
<1>2. \A w \in Workers : Coherent(health[w], now)
  BY NewHealthOK DEF Init
<1>3. \A r \in Requests : Local(r) /\ LetThrough(r)
  BY DEF Init, Local, LetThrough, Idle, Running, Never
<1>4. QED
  BY <1>1, <1>2, <1>3 DEF IInv, Init

-----------------------------------------------------------------------------
(* What the steps of a request have in common *)

(* What any step but a tick may do to the breakers and the flag. *)
BreakerStep ==
    /\ health' \in [Workers -> Health]
    /\ \A w \in Workers : Coherent(health'[w], now)
    /\ flagUntil' \in Nat
    /\ flagUntil' \in {0, flagUntil, now + CoolDown}
    /\ \A w \in Workers : health'[w].state = "open" =>
          \/ health[w].state = "open" /\ health'[w].openedAt = health[w].openedAt
          \/ health'[w].openedAt = now

(* The writes carried out and their records only accumulate. *)
LedgerStep ==
    /\ stored' \subseteq Keys
    /\ stored \subseteq stored'
    /\ applied' \in [Keys -> Nat]
    /\ \A k \in Keys : applied'[k] >= applied[k]
    /\ \A k \in stored' : applied'[k] >= 1

(* The invariant types its parts. *)
LEMMA Types ==
  ASSUME IInv
  PROVE  /\ now \in Nat
         /\ health \in [Workers -> Health]
         /\ flagUntil \in Nat
         /\ req \in [Requests -> RequestState]
         /\ applied \in [Keys -> Nat]
         /\ stored \subseteq Keys
         /\ \A r \in Requests : WorkerOf[r] \in Workers /\ KeyOf[r] \in Keys \cup {NoKey}
  BY DEF IInv, TypeOK, Health, RequestState

(* A step that leaves the breakers alone. *)
LEMMA BreakerUnchanged ==
  ASSUME IInv, UNCHANGED <<health, flagUntil>>
  PROVE  BreakerStep
  BY Types DEF IInv, BreakerStep

(* A success recorded. *)
LEMMA SucceededStep ==
  ASSUME IInv, NEW w \in Workers, Succeeded(w)
  PROVE  BreakerStep
<1>1. health[w] \in Health /\ Coherent(health[w], now) /\ now \in Nat
  BY Types DEF IInv
<1>2. /\ RecordSuccess(health[w]) \in Health
      /\ Coherent(RecordSuccess(health[w]), now)
      /\ RecordSuccess(health[w]).state # "open"
  BY <1>1, RecordSuccessOK
<1>3. health' = [health EXCEPT ![w] = RecordSuccess(health[w])]
  BY DEF Succeeded
<1>4. flagUntil' \in {0, flagUntil}
  BY DEF Succeeded
<1>5. QED
  BY <1>1, <1>2, <1>3, <1>4, Types DEF IInv, BreakerStep

(* A failure recorded. *)
LEMMA FailedStep ==
  ASSUME IInv, NEW w \in Workers, Failed(w)
  PROVE  BreakerStep
<1> DEFINE h == RecordFailure(health[w], now)
<1>1. health[w] \in Health /\ Coherent(health[w], now) /\ now \in Nat
  BY Types DEF IInv
<1>2. /\ h \in Health
      /\ Coherent(h, now)
      /\ h.state = "open" => \/ health[w].state = "open" /\ h.openedAt = health[w].openedAt
                             \/ h.openedAt = now
  BY <1>1, RecordFailureOK
<1>3. health' = [health EXCEPT ![w] = h]
  BY DEF Failed
<1>4. flagUntil' \in {flagUntil, now + CoolDown}
  BY DEF Failed
<1> HIDE DEF h
<1>5. QED
  BY <1>1, <1>2, <1>3, <1>4, Types DEF IInv, BreakerStep

(* The vendor carries a write out, or not. *)
LEMMA ApplyStep ==
  ASSUME IInv, NEW r \in Requests, NEW status \in Int, NEW n \in MayApply(status), Apply(r, n),
         stored' = stored
  PROVE  /\ LedgerStep
         /\ IsSuccess(status) /\ KeyOf[r] \in Keys => applied'[KeyOf[r]] >= 1
<1>1. n \in {0, 1} /\ (IsSuccess(status) => n = 1)
  <2>1. IsSuccess(status) => classify(status) # "transient"
    BY DEF IsSuccess, classify, TimeoutExc, NetworkExc
  <2>2. QED
    BY <2>1 DEF MayApply, IsSuccess
<1>2. CASE KeyOf[r] = NoKey
  BY <1>2, Types DEF IInv, LedgerStep, Apply
<1>3. CASE KeyOf[r] # NoKey
  <2>1. KeyOf[r] \in Keys
    BY <1>3, Types
  <2>2. applied' = [applied EXCEPT ![KeyOf[r]] = @ + n]
    BY <1>3 DEF Apply
  <2>3. \A k \in Keys : applied'[k] \in Nat /\ applied'[k] >= applied[k]
    BY <1>1, <2>1, <2>2, Types
  <2>4. applied'[KeyOf[r]] = applied[KeyOf[r]] + n
    BY <2>1, <2>2, Types
  <2>5. applied' \in [Keys -> Nat]
    BY <2>2, <2>3, Types
  <2>6. \A k \in stored' : applied'[k] >= 1
    BY <2>3, Types DEF IInv
  <2>7. QED
    BY <1>1, <2>1, <2>3, <2>4, <2>5, <2>6, Types DEF LedgerStep
<1>4. QED
  BY <1>2, <1>3

(* A request that was under way stays as it was let through. *)
LEMMA LetThroughKept ==
  ASSUME IInv, BreakerStep, now' = now, shared' = shared,
         NEW r \in Requests, req' \in [Requests -> RequestState],
         req'[r].pc \in Running =>
            /\ req[r].pc \in Running
            /\ req'[r].admitted = req[r].admitted
            /\ req'[r].blind = req[r].blind
  PROVE  LetThrough(r)'
<1> SUFFICES ASSUME req'[r].pc \in Running PROVE LetThrough(r)'
  BY DEF LetThrough
<1> DEFINE w == WorkerOf[r]
<1>1. req[r].pc \in Running /\ req'[r].admitted = req[r].admitted /\ req'[r].blind = req[r].blind
  OBVIOUS
<1>2. /\ req[r].admitted \in Nat \cup {Never} /\ req[r].admitted <= now /\ now \in Nat
      /\ w \in Workers /\ health[w] \in Health /\ health'[w] \in Health
      /\ flagUntil \in Nat /\ flagUntil' \in Nat
  BY Types DEF IInv, Local, RequestState, BreakerStep
<1>3. LetThrough(r)
  BY DEF IInv
<1>4. (~shared /\ health'[w].state = "open" /\ now < health'[w].openedAt + CoolDown)
        => req[r].admitted <= health'[w].openedAt
  BY <1>1, <1>2, <1>3 DEF LetThrough, BreakerStep, Health
<1>5. (shared /\ now < flagUntil') => req[r].admitted <= flagUntil' - CoolDown \/ req[r].blind
  BY <1>1, <1>2, <1>3 DEF LetThrough, BreakerStep, FlagUp, Never
<1>6. QED
  BY <1>1, <1>4, <1>5 DEF LetThrough, FlagUp

(* A request that does not move keeps its local invariant. *)
LEMMA LocalKept ==
  ASSUME IInv, LedgerStep, now' = now, NEW r \in Requests, req'[r] = req[r]
  PROVE  Local(r)'
<1>1. Local(r)
  BY DEF IInv
<1>2. KeyOf[r] \in Keys => applied'[KeyOf[r]] >= applied[KeyOf[r]]
                             /\ applied[KeyOf[r]] \in Nat /\ applied'[KeyOf[r]] \in Nat
  BY Types DEF LedgerStep
<1>3. QED
  BY <1>1, <1>2 DEF Local, LedgerStep

(* One request moves: what remains is to look at that request. *)
LEMMA RequestStep ==
  ASSUME IInv, BreakerStep, LedgerStep, UNCHANGED <<now, shared, redisUp, outages>>,
         NEW r \in Requests, NEW q \in RequestState, req' = [req EXCEPT ![r] = q],
         Local(r)', LetThrough(r)'
  PROVE  IInv'
<1>1. req' \in [Requests -> RequestState] /\ \A s \in Requests \ {r} : req'[s] = req[s]
  BY Types
<1>2. TypeOK'
  BY <1>1 DEF IInv, TypeOK, BreakerStep, LedgerStep, Health, RequestState
<1>3. \A s \in Requests : Local(s)'
  BY <1>1, LocalKept
<1>4. \A s \in Requests : LetThrough(s)'
  BY <1>1, LetThroughKept
<1>5. \A w \in Workers : Coherent(health'[w], now')
  BY DEF BreakerStep
<1>6. QED
  BY <1>2, <1>3, <1>4, <1>5 DEF IInv, LedgerStep

(* A call that ends leaves nothing but its result. *)
LEMMA SettleStep ==
  ASSUME IInv, BreakerStep, LedgerStep, UNCHANGED <<now, shared, redisUp, outages>>,
         NEW r \in Requests, NEW pc \in Settled, Settle(r, pc),
         pc \in {"done", "replayed"} /\ KeyOf[r] \in Keys => applied'[KeyOf[r]] >= 1
  PROVE  IInv'
<1> DEFINE q == [Idle EXCEPT !.pc = pc]
<1>1. q \in RequestState
  BY DEF RequestState, Idle, Settled, Running, Never
<1>2. req' = [req EXCEPT ![r] = q] /\ req'[r] = q
  BY Types DEF Settle
<1>3. q.pc = pc /\ q.admitted = Never /\ q.late = FALSE /\ pc \notin Running
  BY DEF Idle, Settled, Running
<1> HIDE DEF q
<1>4. Local(r)'
  BY <1>2, <1>3, Types DEF Local, Never, Settled
<1>5. LetThrough(r)'
  BY <1>2, <1>3 DEF LetThrough
<1>6. QED
  BY <1>1, <1>2, <1>4, <1>5, RequestStep

-----------------------------------------------------------------------------
(* The actions *)

(* An attempt leaves, of a call that is under way and not late. *)
LEMMA SendingOK ==
  ASSUME IInv, NEW q \in RequestState, now <= q.deadline
  PROVE  /\ Sending(q) \in RequestState
         /\ Sending(q).pc = "inflight"
         /\ Sending(q).due = now + Timeout
         /\ Sending(q).deadline = q.deadline
         /\ Sending(q).admitted = q.admitted
         /\ Sending(q).blind = q.blind
         /\ Sending(q).late = q.late
<1>1. q.attempt + 1 \in Nat /\ now + Timeout \in Nat
  BY Types DEF RequestState
<1>2. Sending(q) = [q EXCEPT !.pc = "inflight", !.attempt = q.attempt + 1, !.due = now + Timeout]
  BY DEF Sending
<1>3. Sending(q) \in RequestState
  BY <1>1, <1>2 DEF RequestState, Running
<1>4. QED
  BY <1>2, <1>3 DEF RequestState

(* The retry loop is entered with the whole budget. *)
LEMMA EnteringOK ==
  ASSUME IInv, NEW q \in RequestState
  PROVE  /\ Entering(q) \in RequestState
         /\ Entering(q).pc = "inflight"
         /\ Entering(q).due = now + Timeout
         /\ Entering(q).deadline = now + TotalDeadline
         /\ Entering(q).admitted = q.admitted
         /\ Entering(q).blind = q.blind
         /\ Entering(q).late = q.late
<1> DEFINE p == [q EXCEPT !.deadline = now + TotalDeadline]
<1>1. /\ p \in RequestState /\ p.deadline = now + TotalDeadline /\ p.admitted = q.admitted
      /\ p.blind = q.blind /\ p.late = q.late
  BY Types DEF RequestState
<1>2. now <= p.deadline
  BY <1>1, Types
<1>3. Entering(q) = Sending(p)
  BY DEF Entering
<1> HIDE DEF p
<1>4. QED
  BY <1>1, <1>2, <1>3, SendingOK

(* What the guard lets through. *)
LEMMA AdmittedOK ==
  ASSUME IInv, NEW r \in Requests
  PROVE  /\ Admitted(r) \in RequestState
         /\ Admitted(r).pc = "lookup"
         /\ Admitted(r).admitted = now
         /\ Admitted(r).blind <=> ~redisUp
         /\ Admitted(r).late <=> KeyOf[r] \in stored
<1>1. req[r] \in RequestState /\ now \in Nat
  BY Types
<1>2. (~redisUp) \in BOOLEAN /\ (KeyOf[r] \in stored) \in BOOLEAN
  OBVIOUS
<1>3. Admitted(r) \in RequestState
  BY <1>1, <1>2 DEF Admitted, RequestState, Running
<1>4. QED
  BY <1>1, <1>3 DEF Admitted, RequestState

(* The guard reads the breaker. *)
LEMMA PeekedStep ==
  ASSUME IInv, NEW w \in Workers, flagUntil' = flagUntil,
         health' = [health EXCEPT ![w] = Peeked(w)]
  PROVE  BreakerStep /\ (~UsesFlag => health'[w] = MaybeHalfOpen(health[w], now))
<1>1. health[w] \in Health /\ Coherent(health[w], now) /\ now \in Nat
  BY Types DEF IInv
<1>2. /\ MaybeHalfOpen(health[w], now) \in Health
      /\ Coherent(MaybeHalfOpen(health[w], now), now)
      /\ MaybeHalfOpen(health[w], now).state = "open" =>
            MaybeHalfOpen(health[w], now) = health[w]
  BY <1>1, MaybeHalfOpenOK
<1>3. /\ Peeked(w) \in Health
      /\ Coherent(Peeked(w), now)
      /\ Peeked(w).state = "open" => Peeked(w) = health[w]
  BY <1>1, <1>2 DEF Peeked
<1>4. health'[w] = Peeked(w)
  BY Types
<1>5. BreakerStep
  BY <1>3, <1>4, Types DEF IInv, BreakerStep
<1>6. QED
  BY <1>4, <1>5 DEF Peeked

(* A step that touches neither the vendor nor the records. *)
LEMMA LedgerUnchanged ==
  ASSUME IInv, UNCHANGED <<stored, applied>>
  PROVE  LedgerStep
  BY Types DEF IInv, LedgerStep

LEMMA BeginInv ==
  ASSUME IInv, NEW r \in Requests, Begin(r)
  PROVE  IInv'
<1> DEFINE w == WorkerOf[r]
           q == req'[r]
<1>1. w \in Workers /\ UNCHANGED <<now, shared, redisUp, outages, flagUntil, stored, applied>>
  BY Types DEF Begin
<1>2. BreakerStep /\ (~UsesFlag => health'[w] = MaybeHalfOpen(health[w], now))
  BY <1>1, PeekedStep DEF Begin
<1>3. LedgerStep
  BY <1>1, LedgerUnchanged
<1>4. req[r] \in RequestState /\ req[r].pc = "idle" /\ now \in Nat
  BY Types DEF Begin
<1>5. CASE IsOpen(w)
  <2> DEFINE p == [req[r] EXCEPT !.pc = "rejected"]
  <2>1. req' = [req EXCEPT ![r] = p]
    BY <1>5 DEF Begin
  <2>2. p \in RequestState /\ p.pc = "rejected" /\ p.admitted = req[r].admitted
          /\ p.late = req[r].late
    BY <1>4 DEF RequestState, Settled
  <2> HIDE DEF p
  <2>3. q = p
    BY <2>1, Types
  <2>4. Local(r)
    BY DEF IInv
  <2>5. Local(r)'
    BY <1>1, <2>2, <2>3, <2>4 DEF Local
  <2>6. LetThrough(r)'
    BY <2>2, <2>3 DEF LetThrough, Running
  <2>7. QED
    BY <1>1, <1>2, <1>3, <2>1, <2>2, <2>5, <2>6, RequestStep
<1>6. ASSUME ~IsOpen(w), NEW p \in RequestState, req' = [req EXCEPT ![r] = p],
             p.pc \in {"lookup", "inflight"}, p.admitted = now, p.blind <=> ~redisUp,
             Local(r)'
      PROVE  IInv'
  <2>1. q = p
    BY <1>6, Types
  <2>2. ~UsesFlag => health'[w].state # "open"
    BY <1>2, <1>6 DEF IsOpen, Peeked
  <2>3. shared /\ FlagUp => ~redisUp
    BY <1>6 DEF IsOpen, UsesFlag
  <2>4. LetThrough(r)'
    BY <1>1, <1>6, <2>1, <2>2, <2>3 DEF LetThrough, FlagUp, UsesFlag
  <2>5. QED
    BY <1>1, <1>2, <1>3, <1>6, <2>4, RequestStep
<1>7. CASE ~IsOpen(w) /\ KeyOf[r] # NoKey
  <2>1. req' = [req EXCEPT ![r] = Admitted(r)] /\ q = Admitted(r)
    BY <1>7, Types DEF Begin
  <2>2. KeyOf[r] \in Keys
    BY <1>7, Types
  <2>3. Local(r)'
    BY <1>1, <1>4, <2>1, <2>2, AdmittedOK DEF Local
  <2>4. QED
    BY <1>6, <1>7, <2>1, <2>3, AdmittedOK
<1>8. CASE ~IsOpen(w) /\ KeyOf[r] = NoKey
  <2> DEFINE p == Entering(Admitted(r))
  <2>1. req' = [req EXCEPT ![r] = p] /\ q = p
    BY <1>8, Types DEF Begin
  <2>2. KeyOf[r] \notin Keys /\ KeyOf[r] \notin stored
    BY <1>8, Types
  <2>3. /\ p \in RequestState /\ p.pc = "inflight" /\ p.due = now + Timeout
        /\ p.deadline = now + TotalDeadline /\ p.admitted = now
        /\ (p.blind <=> ~redisUp) /\ ~p.late
    BY <2>2, AdmittedOK, EnteringOK
  <2> HIDE DEF p
  <2>4. Local(r)'
    BY <1>1, <1>4, <2>1, <2>2, <2>3 DEF Local
  <2>5. QED
    BY <1>6, <1>8, <2>1, <2>3, <2>4
<1>9. QED
  BY <1>5, <1>7, <1>8

LEMMA LookupInv ==
  ASSUME IInv, NEW r \in Requests, Lookup(r)
  PROVE  IInv'
<1>1. UNCHANGED <<now, shared, redisUp, outages, health, flagUntil, stored, applied>>
  BY DEF Lookup
<1>2. BreakerStep /\ LedgerStep
  BY <1>1, BreakerUnchanged, LedgerUnchanged
<1>3. req[r] \in RequestState /\ req[r].pc = "lookup" /\ now \in Nat /\ Local(r)
  BY Types DEF Lookup, IInv
<1>4. CASE ~redisUp
  BY <1>1, <1>2, <1>4, SettleStep DEF Lookup, Settled
<1>5. CASE redisUp /\ KeyOf[r] \in stored
  <2>1. applied'[KeyOf[r]] >= 1
    BY <1>1, <1>5 DEF IInv
  <2>2. Settle(r, "replayed")
    BY <1>5 DEF Lookup
  <2>3. QED
    BY <1>1, <1>2, <2>1, <2>2, SettleStep DEF Settled
<1>6. CASE redisUp /\ KeyOf[r] \notin stored
  <2> DEFINE p == Entering(req[r])
  <2>1. req' = [req EXCEPT ![r] = p] /\ req'[r] = p
    BY <1>6, Types DEF Lookup
  <2>2. /\ p \in RequestState /\ p.pc = "inflight" /\ p.due = now + Timeout
        /\ p.deadline = now + TotalDeadline /\ p.admitted = req[r].admitted
        /\ p.blind = req[r].blind /\ p.late = req[r].late
    BY <1>3, EnteringOK
  <2> HIDE DEF p
  <2>3. ~req[r].late
    BY <1>3, <1>6 DEF Local
  <2>4. Local(r)'
    BY <1>1, <1>3, <2>1, <2>2, <2>3 DEF Local
  <2>5. req' \in [Requests -> RequestState]
    BY <2>1, <2>2, Types
  <2>6. LetThrough(r)'
    BY <1>1, <1>2, <1>3, <2>1, <2>2, <2>5, LetThroughKept DEF Running
  <2>7. QED
    BY <1>1, <1>2, <2>1, <2>2, <2>4, <2>6, RequestStep
<1>7. QED
  BY <1>4, <1>5, <1>6

LEMMA AnswerOkInv ==
  ASSUME IInv, NEW r \in Requests, NEW status \in Statuses, AnswerOk(r, status)
  PROVE  IInv'
<1>1. UNCHANGED <<now, shared, redisUp, outages, stored>> /\ IsSuccess(status)
  BY DEF AnswerOk
<1>2. BreakerStep
  BY SucceededStep, Types DEF AnswerOk
<1>3. status \in Int
  OBVIOUS
<1>4. LedgerStep /\ (KeyOf[r] \in Keys => applied'[KeyOf[r]] >= 1)
  BY <1>1, <1>3, ApplyStep DEF AnswerOk
<1>5. req[r] \in RequestState /\ req[r].pc = "inflight" /\ now \in Nat /\ Local(r)
  BY Types DEF AnswerOk, IInv
<1>6. CASE KeyOf[r] = NoKey
  <2>1. Settle(r, "done")
    BY <1>6 DEF AnswerOk
  <2>2. QED
    BY <1>1, <1>2, <1>4, <2>1, SettleStep DEF Settled
<1>7. CASE KeyOf[r] # NoKey
  <2> DEFINE p == [req[r] EXCEPT !.pc = "store"]
  <2>1. req' = [req EXCEPT ![r] = p] /\ req'[r] = p
    BY <1>7, Types DEF AnswerOk
  <2>2. /\ p \in RequestState /\ p.pc = "store" /\ p.deadline = req[r].deadline
        /\ p.admitted = req[r].admitted /\ p.blind = req[r].blind /\ p.late = req[r].late
    BY <1>5 DEF RequestState, Running
  <2> HIDE DEF p
  <2>3. KeyOf[r] \in Keys
    BY <1>7, Types
  <2>4. now <= req[r].deadline + Timeout
    BY <1>5 DEF Local, RequestState
  <2>5. Local(r)'
    BY <1>1, <1>4, <1>5, <2>1, <2>2, <2>3, <2>4 DEF Local
  <2>6. req' \in [Requests -> RequestState]
    BY <2>1, <2>2, Types
  <2>7. LetThrough(r)'
    BY <1>1, <1>2, <1>5, <2>1, <2>2, <2>6, LetThroughKept DEF Running
  <2>8. QED
    BY <1>1, <1>2, <1>4, <2>1, <2>2, <2>5, <2>7, RequestStep
<1>8. QED
  BY <1>6, <1>7

(* The smaller and the larger of two numbers. *)
LEMMA MinPair ==
  ASSUME NEW a \in Int, NEW b \in Int
  PROVE  Min({a, b}) \in {a, b} /\ Min({a, b}) <= a /\ Min({a, b}) <= b
<1>1. \E x \in {a, b} : \A y \in {a, b} : x <= y
  OBVIOUS
<1>2. QED
  BY <1>1 DEF Min

LEMMA MaxPair ==
  ASSUME NEW a \in Int, NEW b \in Int
  PROVE  Max({a, b}) \in {a, b}
<1>1. \E x \in {a, b} : \A y \in {a, b} : x >= y
  OBVIOUS
<1>2. QED
  BY <1>1 DEF Max

(* A back-off ends by the total deadline. *)
LEMMA BackoffOK ==
  ASSUME NEW q, NEW class, NEW jitter \in Nat, NEW after \in Nat,
         now \in Nat, q.deadline \in Nat, q.deadline - now > 0
  PROVE  /\ Backoff(q, class, jitter, after) \in Nat
         /\ now + Backoff(q, class, jitter, after) <= q.deadline
<1> DEFINE a == IF class = "rate_limit" THEN Max({jitter, after}) ELSE jitter
           b == q.deadline - now
           m == Min({a, b})
<1>1. a \in Nat /\ a \in Int
  BY MaxPair
<1>2. b \in Nat /\ b \in Int /\ now + b = q.deadline
  OBVIOUS
<1>3. Backoff(q, class, jitter, after) = m
  BY DEF Backoff
<1> HIDE DEF a, b
<1>4. m \in {a, b} /\ m <= b
  BY <1>1, <1>2, MinPair
<1> HIDE DEF m
<1>5. m \in Nat /\ now + m <= now + b
  BY <1>1, <1>2, <1>4
<1>6. QED
  BY <1>2, <1>3, <1>5

LEMMA AnswerErrorInv ==
  ASSUME IInv, NEW r \in Requests, NEW status \in Statuses, AnswerError(r, status)
  PROVE  IInv'
<1>1. UNCHANGED <<now, shared, redisUp, outages, stored>>
  BY DEF AnswerError
<1>2. BreakerStep
  BY FailedStep, Types DEF AnswerError
<1>3. status \in Int
  OBVIOUS
<1>4. LedgerStep
  BY <1>1, <1>3, ApplyStep DEF AnswerError
<1>5. req[r] \in RequestState /\ req[r].pc = "inflight" /\ now \in Nat /\ Local(r)
  BY Types DEF AnswerError, IInv
<1>6. CASE Settle(r, "failed")
  BY <1>1, <1>2, <1>4, <1>6, SettleStep DEF Settled
<1>7. CASE ~Settle(r, "failed")
  <2>1. req[r].deadline \in Nat /\ req[r].deadline - now > 0
    BY <1>5, <1>7 DEF AnswerError, RequestState
  <2>2. PICK jitter \in 0..MaxDelay, after \in RetryAfters \cup {0} :
          req' = [req EXCEPT ![r].pc = "sleep",
                             ![r].due = now + Backoff(req[r], classify(status), jitter, after)]
    BY <1>7 DEF AnswerError
  <2> DEFINE d == now + Backoff(req[r], classify(status), jitter, after)
             p == [req[r] EXCEPT !.pc = "sleep", !.due = d]
  <2>3. d \in Nat /\ now <= d /\ d <= req[r].deadline
    BY <1>5, <2>1, BackoffOK
  <2> HIDE DEF d
  <2>4. req' = [req EXCEPT ![r] = p] /\ req'[r] = p
    BY <2>2, Types DEF d
  <2>5. /\ p \in RequestState /\ p.pc = "sleep" /\ p.deadline = req[r].deadline /\ p.due = d
        /\ p.admitted = req[r].admitted /\ p.blind = req[r].blind /\ p.late = req[r].late
    BY <1>5, <2>3 DEF RequestState, Running
  <2> HIDE DEF p
  <2>6. Local(r)'
    BY <1>1, <1>4, <1>5, <2>3, <2>4, <2>5 DEF Local
  <2>7. req' \in [Requests -> RequestState]
    BY <2>4, <2>5, Types
  <2>8. LetThrough(r)'
    BY <1>1, <1>2, <1>5, <2>4, <2>5, <2>7, LetThroughKept DEF Running
  <2>9. QED
    BY <1>1, <1>2, <1>4, <2>4, <2>5, <2>6, <2>8, RequestStep
<1>8. QED
  BY <1>6, <1>7

LEMMA WakeInv ==
  ASSUME IInv, NEW r \in Requests, Wake(r)
  PROVE  IInv'
<1>1. UNCHANGED <<now, shared, redisUp, outages, stored, applied>>
  BY DEF Wake
<1>2. LedgerStep
  BY <1>1, LedgerUnchanged
<1>3. req[r] \in RequestState /\ req[r].pc = "sleep" /\ now \in Nat /\ Local(r)
  BY Types DEF Wake, IInv
<1>4. CASE now >= req[r].deadline
  <2>1. Failed(WorkerOf[r]) /\ Settle(r, "failed")
    BY <1>4 DEF Wake
  <2>2. BreakerStep
    BY <2>1, FailedStep, Types
  <2>3. QED
    BY <1>1, <1>2, <2>1, <2>2, SettleStep DEF Settled
<1>5. CASE ~(now >= req[r].deadline)
  <2> DEFINE p == Sending(req[r])
  <2>1. req' = [req EXCEPT ![r] = p] /\ req'[r] = p /\ UNCHANGED <<health, flagUntil>>
    BY <1>5, Types DEF Wake
  <2>2. BreakerStep
    BY <2>1, BreakerUnchanged
  <2>3. now <= req[r].deadline /\ req[r].deadline \in Nat
    BY <1>3, <1>5 DEF RequestState
  <2>4. /\ p \in RequestState /\ p.pc = "inflight" /\ p.due = now + Timeout
        /\ p.deadline = req[r].deadline /\ p.admitted = req[r].admitted
        /\ p.blind = req[r].blind /\ p.late = req[r].late
    BY <1>3, <2>3, SendingOK
  <2> HIDE DEF p
  <2>5. Local(r)'
    BY <1>1, <1>3, <2>1, <2>3, <2>4 DEF Local
  <2>6. req' \in [Requests -> RequestState]
    BY <2>1, <2>4, Types
  <2>7. LetThrough(r)'
    BY <1>1, <1>3, <2>1, <2>2, <2>4, <2>6, LetThroughKept DEF Running
  <2>8. QED
    BY <1>1, <1>2, <2>1, <2>2, <2>4, <2>5, <2>7, RequestStep
<1>6. QED
  BY <1>4, <1>5

LEMMA StoreInv ==
  ASSUME IInv, NEW r \in Requests, Store(r)
  PROVE  IInv'
<1>1. UNCHANGED <<now, shared, redisUp, outages, health, flagUntil, applied>>
  BY DEF Store
<1>2. BreakerStep
  BY <1>1, BreakerUnchanged
<1>3. Local(r) /\ KeyOf[r] \in Keys /\ applied[KeyOf[r]] >= 1
  BY DEF Store, IInv, Local
<1>4. stored' \in {stored, stored \cup {KeyOf[r]}}
  BY DEF Store
<1>5. LedgerStep
  BY <1>1, <1>3, <1>4, Types DEF IInv, LedgerStep
<1>6. CASE redisUp
  <2>1. Settle(r, "done")
    BY <1>6 DEF Store
  <2>2. QED
    BY <1>1, <1>2, <1>3, <1>5, <2>1, SettleStep DEF Settled
<1>7. CASE ~redisUp
  <2>1. Settle(r, "failed")
    BY <1>7 DEF Store
  <2>2. QED
    BY <1>1, <1>2, <1>3, <1>5, <2>1, SettleStep DEF Settled
<1>8. QED
  BY <1>6, <1>7

(* Time passes only while every timer lies ahead. *)
LEMMA TickInv ==
  ASSUME IInv, Tick
  PROVE  IInv'
<1>1. /\ UNCHANGED <<shared, redisUp, outages, health, flagUntil, stored, req, applied>>
      /\ now' = now + 1 /\ now \in Nat /\ now' \in Nat
  BY Types DEF Tick
<1>2. TypeOK'
  BY <1>1 DEF IInv, TypeOK
<1>3. ASSUME NEW w \in Workers PROVE Coherent(health'[w], now')
  <2>1. Coherent(health[w], now) /\ health[w] \in Health
    BY Types DEF IInv
  <2>2. QED
    BY <1>1, <2>1 DEF Coherent, Health, Never
<1>4. ASSUME NEW r \in Requests PROVE Local(r)'
  <2>1. Local(r) /\ req[r] \in RequestState /\ Waiting(r)
    BY Types DEF IInv, Tick
  <2>2. req[r].pc \in {"inflight", "sleep"} => now + 1 <= req[r].due
    BY <1>1, <2>1 DEF Waiting, Settled, RequestState
  <2>3. req[r].pc # "store"
    BY <2>1 DEF Waiting, Settled
  <2>4. req[r].admitted <= now + 1
    BY <1>1, <2>1 DEF Local, RequestState, Never
  <2>5. QED
    BY <1>1, <2>1, <2>2, <2>3, <2>4 DEF Local
<1>5. ASSUME NEW r \in Requests PROVE LetThrough(r)'
  <2>1. LetThrough(r) /\ health[WorkerOf[r]] \in Health /\ flagUntil \in Nat
    BY Types DEF IInv
  <2>2. QED
    BY <1>1, <2>1 DEF LetThrough, FlagUp, Health, Never
<1>6. QED
  BY <1>1, <1>2, <1>3, <1>4, <1>5 DEF IInv

(* Redis goes and comes back. *)
LEMMA RedisInv ==
  ASSUME IInv, RedisDown \/ RedisBack
  PROVE  IInv'
<1>1. /\ UNCHANGED <<now, shared, health, flagUntil, stored, req, applied>>
      /\ redisUp' \in BOOLEAN /\ outages' \in Nat
  <2>1. CASE RedisDown
    <3>1. outages \in Nat /\ redisUp' = FALSE /\ outages' = outages + 1
      BY <2>1 DEF IInv, TypeOK, RedisDown
    <3>2. outages' \in Nat
      BY <3>1
    <3>3. UNCHANGED <<now, shared, health, flagUntil, stored, req, applied>>
      BY <2>1 DEF RedisDown
    <3>4. QED
      BY <3>1, <3>2, <3>3, Zenon
  <2>2. CASE RedisBack
    BY <2>2 DEF IInv, TypeOK, RedisBack
  <2>3. QED
    BY <2>1, <2>2
<1>2. TypeOK'
  BY <1>1 DEF IInv, TypeOK
<1>3. \A r \in Requests : Local(r)' /\ LetThrough(r)'
  BY <1>1 DEF IInv, Local, LetThrough, FlagUp
<1>4. QED
  BY <1>1, <1>2, <1>3 DEF IInv

LEMMA NextInv == IInv /\ [Next]_vars => IInv'
<1> SUFFICES ASSUME IInv, [Next]_vars PROVE IInv'
  OBVIOUS
<1>1. ASSUME NEW r \in Requests, Step(r) PROVE IInv'
  BY <1>1, BeginInv, LookupInv, AnswerOkInv, AnswerErrorInv, WakeInv, StoreInv DEF Step
<1>2. CASE Tick
  BY <1>2, TickInv
<1>3. CASE RedisDown \/ RedisBack
  BY <1>3, RedisInv
<1>4. CASE UNCHANGED vars
  BY <1>4 DEF vars, IInv, TypeOK, Local, LetThrough, FlagUp
<1>5. CASE Finished
  BY <1>4, <1>5 DEF Finished
<1>6. QED
  BY <1>1, <1>2, <1>3, <1>4, <1>5 DEF Next

-----------------------------------------------------------------------------
(* The theorems *)

LEMMA Inductive == Spec => []IInv
<1>1. QED
  BY InitInv, NextInv, PTL DEF Spec

(* The variables keep their types: a breaker is in one of its four states, *)
(* the flag expires at a time, a request is at one of its awaits.          *)
THEOREM TypeCorrect == Spec => []TypeOK
<1>1. IInv => TypeOK
  BY DEF IInv
<1>2. QED
  BY <1>1, Inductive, PTL

(* In whatever order the answers come back, a breaker's state follows from *)
(* its failure count, and an open or probing one knows since when.         *)
THEOREM BreakerSafety == Spec => []BreakerCoherent
<1>1. IInv => BreakerCoherent
  BY DEF IInv, Coherent, BreakerCoherent
<1>2. QED
  BY <1>1, Inductive, PTL

(* While a breaker, or the shared flag, is up, no request is under way that *)
(* the guard let through after it went up, unless Redis was down then.     *)
THEOREM OpenSafety == Spec => []OpenStopsRequests
<1>1. IInv => OpenStopsRequests
  BY DEF IInv, LetThrough, OpenStopsRequests
<1>2. QED
  BY <1>1, Inductive, PTL

(* A write reported as done or replayed was carried out by the vendor. *)
THEOREM AppliedSafety == Spec => []SuccessMeansApplied
<1>1. ASSUME IInv PROVE SuccessMeansApplied
  <2>1. ASSUME NEW r \in Requests, req[r].pc \in {"done", "replayed"}, KeyOf[r] # NoKey
        PROVE  applied[KeyOf[r]] >= 1
    <3>1. KeyOf[r] \in Keys
      BY <1>1, <2>1, Types
    <3>2. QED
      BY <1>1, <2>1, <3>1 DEF IInv, Local
  <2>2. QED
    BY <1>1, <2>1 DEF IInv, SuccessMeansApplied
<1>2. QED
  BY <1>1, Inductive, PTL

(* A call that begins after its key was recorded never reaches the vendor. *)
THEOREM NoResendSafety == Spec => []NoResendAfterStore
<1>1. IInv => NoResendAfterStore
  BY DEF IInv, Local, NoResendAfterStore
<1>2. QED
  BY <1>1, Inductive, PTL

(* The retry loop overruns its total deadline by one attempt at most. *)
THEOREM BudgetSafety == Spec => []BoundedCall
<1>1. ASSUME IInv, NEW r \in Requests, req[r].pc \in {"inflight", "sleep", "store"}
      PROVE  now <= req[r].deadline + Timeout
  <2>1. Local(r) /\ req[r] \in RequestState /\ now \in Nat
    BY <1>1, Types DEF IInv
  <2>2. QED
    BY <1>1, <2>1 DEF Local, RequestState
<1>2. IInv => BoundedCall
  BY <1>1 DEF BoundedCall
<1>3. QED
  BY <1>2, Inductive, PTL

=============================================================================
