---------------------------- MODULE Orchestrator ----------------------------
(***************************************************************************)
(* One workflow run of the orchestrator: the engine passes that execute it *)
(* (engine.py), the run lock they take (locking.py), the idempotency store *)
(* (idempotency.py), the approval of its gates (gates.py), the recovery    *)
(* sweep (recovery.py) and the run store, in memory or on Postgres.        *)
(*                                                                         *)
(* One action per await: a store or Redis call is one step, and the steps  *)
(* of several workers and approvers interleave.  `view' is the SELECT of   *)
(* the Postgres store, which checks a transition against what it read and  *)
(* commits later; AtomicStore is the in-memory store, one event-loop step. *)
(***************************************************************************)
EXTENDS Integers

CONSTANTS
    Workers,        \* processes that call engine.execute
    Approvers,      \* processes that call gates.resolve_gate
    NSteps,         \* number of steps of the workflow definition
    GateSteps,      \* the GATE:* steps
    GateIds,        \* identities for gate requests (bounds how many there are)
    Channels,       \* approval channels of a gate, one token for each
    Actors,         \* who may present a token
    Authorized,     \* the actors with the gate's role and GATE_APPROVE
    Decisions,      \* what an approver may decide
    Outcomes,       \* how a handler may end
    MaxAttempts,    \* MAX_ATTEMPTS
    MaxJobs,        \* bound: execute jobs waiting in the queue
    FaultKinds,     \* the faults a run of the model admits
    MaxFaults,      \* bound: faults in one behaviour
    AtomicStore,    \* InMemoryRunStore (TRUE) or PostgresRunStore (FALSE)
    NoProc          \* no holder of the lock

ASSUME ProcAssumption ==
    /\ Workers \cap Approvers = {}
    /\ NoProc \notin Workers

ASSUME StepAssumption ==
    /\ NSteps \in Nat \ {0}
    /\ GateSteps \subseteq 1..NSteps
    /\ GateIds # {}
    /\ Channels # {}

ASSUME InputAssumption ==
    /\ Authorized \subseteq Actors
    /\ Actors # {}
    /\ Decisions \subseteq {"approve", "reject"}
    /\ Decisions # {}
    /\ Outcomes \subseteq {"ok", "transient", "fatal"}
    /\ FaultKinds \subseteq {"crash", "lock_ttl", "lock_error", "error",
                             "token_ttl"}

ASSUME BoundAssumption ==
    /\ MaxAttempts \in Nat
    /\ MaxJobs \in Nat
    /\ MaxFaults \in Nat
    /\ AtomicStore \in BOOLEAN

Steps == 1..NSteps
Procs == Workers \cup Approvers

RunStatus == {"queued", "running", "awaiting_approval", "succeeded",
              "rejected", "parked", "cancelled"}
StepStatus == {"pending", "running", "succeeded", "failed", "skipped",
               "compensated"}
TokenStatus == {"none", "fresh", "used"}
GateStatus == {"none", "pending", "approved", "rejected"}

(* Mutants: every transition is legal. *)
AnyRunTransition == RunStatus \X RunStatus
AnyStepTransition == StepStatus \X StepStatus

(* is_legal_run_transition and is_legal_step_transition, as relations *)
RunTransitions ==
    {<<"queued", "running">>,
     <<"running", "succeeded">>, <<"running", "awaiting_approval">>,
     <<"running", "parked">>, <<"running", "cancelled">>,
     <<"awaiting_approval", "running">>, <<"awaiting_approval", "rejected">>,
     <<"awaiting_approval", "cancelled">>,
     <<"parked", "running">>, <<"parked", "cancelled">>}

StepTransitions ==
    {<<"pending", "running">>,
     <<"running", "succeeded">>, <<"running", "failed">>,
     <<"failed", "running">>, <<"failed", "compensated">>,
     <<"succeeded", "compensated">>}

StepState == [status : StepStatus, attempt : Nat]
GateRequest == [step : 0..NSteps, status : GateStatus]
Request == [gate : GateIds, channel : Channels,
            decision : Decisions, actor : Actors]
NoView == "no_view"

(* The places where a pass or an approval waits for a store call, by the   *)
(* row whose status that call checks before it writes.                     *)
RunWrites == {"start", "await", "park", "finish", "update_run"}
StepWrites == {"mark", "succeed", "fail", "retry"}
TokenWrites == {"mark_used"}
WorkerLocation ==
    {"idle", "load", "start", "get_steps", "loop", "mark", "handler",
     "reserve", "record", "succeed", "fail", "retry", "compensate", "park",
     "finish", "tokens", "await", "release"}
ApproverLocation ==
    {"idle", "mark_used", "load_gate", "decide", "update_gate", "update_run",
     "advance"}

VARIABLES
    run,        \* status of the run row
    step,       \* the step rows: status and attempt
    idem,       \* idempotency key of each step: none, reserved, recorded
    lock,       \* who set the Redis lock key, NoProc when there is no key
    jobs,       \* execute jobs waiting in the queue
    pc,         \* where each process is
    view,       \* status a process's SELECT returned, NoView before it
    idx,        \* the pass's position in `for step_state in steps'
    snap,       \* the pass's copy of the step rows
    retryable,  \* err.retryable of the failure being handled
    comps,      \* compensations registered in this pass
    myGate,     \* the gate request _handle_gate is creating
    req,        \* the arguments of resolve_gate
    gate,       \* the gate request rows
    tok,        \* the approval token rows
    decisions,  \* the approval decision rows
    expired,    \* the gate requests whose tokens have expired
    effects,    \* history: steps whose external effect has happened
    unreported, \* history: effects of a step since it was recorded as failed
    undone,     \* history: steps whose compensation has run
    lockLost,   \* history: a pass has gone on without the key it should hold
    faults      \* faults so far

store == <<run, step, gate, tok, decisions>>
pass == <<idx, snap, retryable, comps, myGate>>
world == <<expired, effects, unreported, undone, lockLost>>
vars == <<store, idem, lock, jobs, pc, view, pass, req, world, faults>>

NoRequest == CHOOSE r \in Request : TRUE
NoGate == CHOOSE g \in GateIds : TRUE
NewStep == [status |-> "pending", attempt |-> 0]
NewSteps == [i \in Steps |-> NewStep]

(* start_run has created the run and its step rows. *)
Init ==
    /\ run = "queued"
    /\ step = NewSteps
    /\ idem = [i \in Steps |-> "none"]
    /\ lock = NoProc
    /\ jobs = 0
    /\ pc = [p \in Procs |-> "idle"]
    /\ view = [p \in Procs |-> NoView]
    /\ idx = [w \in Workers |-> 1]
    /\ snap = [w \in Workers |-> NewSteps]
    /\ retryable = [w \in Workers |-> FALSE]
    /\ comps = [w \in Workers |-> {}]
    /\ myGate = [w \in Workers |-> NoGate]
    /\ req = [a \in Approvers |-> NoRequest]
    /\ gate = [g \in GateIds |-> [step |-> 0, status |-> "none"]]
    /\ tok = [g \in GateIds |-> [c \in Channels |-> "none"]]
    /\ decisions = {}
    /\ expired = {}
    /\ effects = {}
    /\ unreported = [i \in Steps |-> 0]
    /\ undone = {}
    /\ lockLost = FALSE
    /\ faults = 0

-----------------------------------------------------------------------------
(* Store calls *)

Goto(p, l) == pc' = [pc EXCEPT ![p] = l]
At(p, l) == pc[p] = l

(* The row whose status the pending call of p checks. *)
Target(p) ==
    IF pc[p] \in RunWrites THEN run
    ELSE IF pc[p] \in StepWrites THEN step[idx[p]].status
    ELSE tok[req[p].gate][req[p].channel]

(* PostgresRunStore: the SELECT that precedes the check and the commit. *)
Select(p) ==
    /\ ~AtomicStore
    /\ view[p] = NoView
    /\ pc[p] \in RunWrites \cup StepWrites \cup TokenWrites
    /\ view' = [view EXCEPT ![p] = Target(p)]
    /\ UNCHANGED <<store, idem, lock, jobs, pc, pass, req, world, faults>>

CanWrite(p) == AtomicStore \/ view[p] # NoView
Seen(p) == IF AtomicStore THEN Target(p) ELSE view[p]
EndWrite(p) == view' = [view EXCEPT ![p] = NoView]

(* update_run_status: IllegalTransitionError takes the caller to `bad'. *)
UpdateRunStatus(p, new, good, bad) ==
    /\ CanWrite(p)
    /\ EndWrite(p)
    /\ IF <<Seen(p), new>> \in RunTransitions
         THEN run' = new /\ Goto(p, good)
         ELSE run' = run /\ Goto(p, bad)

(* update_step, by worker w on the step it is at. *)
UpdateStep(w, new, good, bad) ==
    /\ CanWrite(w)
    /\ EndWrite(w)
    /\ snap' = [snap EXCEPT ![w][idx[w]] = new]
    /\ IF <<Seen(w), new.status>> \in StepTransitions
         THEN step' = [step EXCEPT ![idx[w]] = new] /\ Goto(w, good)
         ELSE step' = step /\ Goto(w, bad)

Fault(kind) ==
    /\ kind \in FaultKinds
    /\ faults < MaxFaults
    /\ faults' = faults + 1

-----------------------------------------------------------------------------
(* engine.execute *)

(* Mutant: SET without NX. *)
AcquireWithoutNX(w) ==
    /\ At(w, "idle")
    /\ jobs > 0
    /\ jobs' = jobs - 1
    /\ lock' = w
    /\ Goto(w, "load")
    /\ UNCHANGED <<store, idem, view, pass, req, world, faults>>

(* RunLock.acquire: SET NX, and a job that finds the key returns at once. *)
Acquire(w) ==
    /\ At(w, "idle")
    /\ jobs > 0
    /\ jobs' = jobs - 1
    /\ IF lock = NoProc
         THEN lock' = w /\ Goto(w, "load")
         ELSE UNCHANGED <<lock, pc>>
    /\ UNCHANGED <<store, idem, view, pass, req, world, faults>>

(* RunLock.acquire on a Redis error degrades to no locking. *)
AcquireDegraded(w) ==
    /\ At(w, "idle")
    /\ jobs > 0
    /\ Fault("lock_error")
    /\ jobs' = jobs - 1
    /\ lockLost' = TRUE
    /\ Goto(w, "load")
    /\ UNCHANGED <<store, idem, lock, view, pass, req, expired, effects,
                   unreported, undone>>

(* get_run, and the test for QUEUED. *)
LoadRun(w) ==
    /\ At(w, "load")
    /\ Goto(w, IF run = "queued" THEN "start" ELSE "get_steps")
    /\ UNCHANGED <<store, idem, lock, jobs, view, pass, req, world, faults>>

StartRun(w) ==
    /\ At(w, "start")
    /\ UpdateRunStatus(w, "running", "get_steps", "release")
    /\ UNCHANGED <<step, gate, tok, decisions, idem, lock, jobs, pass, req,
                   world, faults>>

GetSteps(w) ==
    /\ At(w, "get_steps")
    /\ snap' = [snap EXCEPT ![w] = step]
    /\ idx' = [idx EXCEPT ![w] = 1]
    /\ comps' = [comps EXCEPT ![w] = {}]
    /\ Goto(w, "loop")
    /\ UNCHANGED <<store, idem, lock, jobs, view, retryable, myGate, req,
                   world, faults>>

(* Mutant: the loop passes over failed steps too. *)
DoneOrFailed == {"succeeded", "skipped", "compensated", "failed"}

(* The statuses the loop passes over, as the pass read them. *)
DoneStatus == {"succeeded", "skipped", "compensated"}

AtStep(w) == At(w, "loop") /\ idx[w] <= NSteps
Mine(w) == snap[w][idx[w]]

SkipStep(w) ==
    /\ AtStep(w)
    /\ Mine(w).status \in DoneStatus
    /\ idx' = [idx EXCEPT ![w] = @ + 1]
    /\ UNCHANGED <<store, idem, lock, jobs, pc, view, snap, retryable, comps,
                   myGate, req, world, faults>>

(* idem.lookup: a recorded key short-circuits the step, its row untouched. *)
LookupStep(w) ==
    /\ AtStep(w)
    /\ Mine(w).status \notin DoneStatus
    /\ idx[w] \notin GateSteps
    /\ IF idem[idx[w]] = "recorded"
         THEN idx' = [idx EXCEPT ![w] = @ + 1] /\ pc' = pc
         ELSE idx' = idx /\ Goto(w, "mark")
    /\ UNCHANGED <<store, idem, lock, jobs, view, snap, retryable, comps,
                   myGate, req, world, faults>>

(* update_step(RUNNING), outside the try: an illegal transition propagates. *)
MarkRunning(w) ==
    /\ At(w, "mark")
    /\ UpdateStep(w, [Mine(w) EXCEPT !.status = "running"],
                  "handler", "release")
    /\ UNCHANGED <<run, gate, tok, decisions, idem, lock, jobs, idx, retryable,
                   comps, myGate, req, world, faults>>

(* The external effect of the step that w is at happens. *)
Effect(w) ==
    /\ effects' = effects \cup {idx[w]}
    /\ unreported' = [unreported EXCEPT ![idx[w]] = @ + 1]

(* The step's handler returns: its external effect has happened. *)
HandlerReturns(w) ==
    /\ At(w, "handler")
    /\ "ok" \in Outcomes
    /\ Effect(w)
    /\ Goto(w, "reserve")
    /\ UNCHANGED <<store, idem, lock, jobs, view, pass, req, expired, undone,
                   lockLost, faults>>

(* The handler raises (_classify_error), before its effect or after it: a  *)
(* vendor call that was carried out may end in a timeout all the same.     *)
HandlerRaises(w) ==
    /\ At(w, "handler")
    /\ \E o \in Outcomes \ {"ok"} :
         retryable' = [retryable EXCEPT ![w] = (o = "transient")]
    /\ Effect(w) \/ UNCHANGED <<effects, unreported>>
    /\ Goto(w, "fail")
    /\ UNCHANGED <<store, idem, lock, jobs, view, idx, snap, comps, myGate, req,
                   expired, undone, lockLost, faults>>

(* idem.reserve: SET NX; the engine ignores its answer. *)
Reserve(w) ==
    /\ At(w, "reserve")
    /\ idem' = [idem EXCEPT ![idx[w]] = IF @ = "none" THEN "reserved" ELSE @]
    /\ Goto(w, "record")
    /\ UNCHANGED <<store, lock, jobs, view, pass, req, world, faults>>

Record(w) ==
    /\ At(w, "record")
    /\ idem' = [idem EXCEPT ![idx[w]] = "recorded"]
    /\ comps' = [comps EXCEPT ![w] = @ \cup {idx[w]}]
    /\ Goto(w, "succeed")
    /\ UNCHANGED <<store, lock, jobs, view, idx, snap, retryable, myGate, req,
                   world, faults>>

(* update_step(SUCCEEDED), inside the try: an illegal transition is caught *)
(* and handled like a failure of the handler that cannot be retried.       *)
MarkSucceeded(w) ==
    /\ At(w, "succeed")
    /\ UpdateStep(w, [status |-> "succeeded", attempt |-> Mine(w).attempt + 1],
                  "loop", "fail")
    /\ idx' = [idx EXCEPT ![w] =
                 IF <<Seen(w), "succeeded">> \in StepTransitions
                   THEN @ + 1 ELSE @]
    /\ retryable' = [retryable EXCEPT ![w] = FALSE]
    /\ UNCHANGED <<run, gate, tok, decisions, idem, lock, jobs, comps, myGate,
                   req, world, faults>>

(* Where _park begins: with the compensations, if there are any. *)
ParkPlace(w) == IF comps[w] = {} THEN "park" ELSE "compensate"

(* update_step(FAILED), then retry or park. *)
MarkFailed(w) ==
    /\ At(w, "fail")
    /\ LET n == Mine(w).attempt + 1
       IN  UpdateStep(w, [status |-> "failed", attempt |-> n],
                      IF retryable[w] /\ n < MaxAttempts
                        THEN "retry" ELSE ParkPlace(w),
                      "release")
    /\ unreported' = [unreported EXCEPT ![idx[w]] =
                        IF <<Seen(w), "failed">> \in StepTransitions
                          THEN 0 ELSE @]
    /\ UNCHANGED <<run, gate, tok, decisions, idem, lock, jobs, idx, retryable,
                   comps, myGate, req, expired, effects, undone, lockLost,
                   faults>>

(* update_step(PENDING) after the backoff.  When it is legal the recursive *)
(* execute() finds this pass's own lock and returns; when it is not, the   *)
(* error propagates.  Either way this pass ends.                           *)
RetryStep(w) ==
    /\ At(w, "retry")
    /\ UpdateStep(w, [Mine(w) EXCEPT !.status = "pending"],
                  "release", "release")
    /\ UNCHANGED <<run, gate, tok, decisions, idem, lock, jobs, idx, retryable,
                   comps, myGate, req, world, faults>>

(* _park awaits the compensations of this pass one by one, the last one    *)
(* first; one that raises is logged and passed over.                       *)
Compensate(w) ==
    /\ At(w, "compensate")
    /\ \E i \in comps[w] :
         /\ \A j \in comps[w] : j <= i
         /\ undone' \in {undone, undone \cup {i}}
         /\ comps' = [comps EXCEPT ![w] = @ \ {i}]
         /\ Goto(w, IF comps[w] = {i} THEN "park" ELSE "compensate")
    /\ UNCHANGED <<store, idem, lock, jobs, view, idx, snap, retryable, myGate,
                   req, expired, effects, unreported, lockLost, faults>>

ParkRun(w) ==
    /\ At(w, "park")
    /\ UpdateRunStatus(w, "parked", "release", "release")
    /\ UNCHANGED <<step, gate, tok, decisions, idem, lock, jobs, pass, req,
                   world, faults>>

(* Mutant: the loop ends one step early. *)
FinishLoopEarly(w) ==
    /\ At(w, "loop")
    /\ idx[w] >= NSteps
    /\ Goto(w, "finish")
    /\ UNCHANGED <<store, idem, lock, jobs, view, pass, req, world, faults>>

FinishLoop(w) ==
    /\ At(w, "loop")
    /\ idx[w] > NSteps
    /\ Goto(w, "finish")
    /\ UNCHANGED <<store, idem, lock, jobs, view, pass, req, world, faults>>

FinishRun(w) ==
    /\ At(w, "finish")
    /\ UpdateRunStatus(w, "succeeded", "release", "release")
    /\ UNCHANGED <<step, gate, tok, decisions, idem, lock, jobs, pass, req,
                   world, faults>>

(* The pass's locals are gone once it ends. *)
Forget(w) ==
    /\ idx' = [idx EXCEPT ![w] = 1]
    /\ snap' = [snap EXCEPT ![w] = NewSteps]
    /\ retryable' = [retryable EXCEPT ![w] = FALSE]
    /\ comps' = [comps EXCEPT ![w] = {}]
    /\ myGate' = [myGate EXCEPT ![w] = NoGate]

(* RunLock.release deletes the key, whoever set it. *)
Release(w) ==
    /\ At(w, "release")
    /\ lock' = NoProc
    /\ Goto(w, "idle")
    /\ Forget(w)
    /\ UNCHANGED <<store, idem, jobs, view, req, world, faults>>

(* RunLock.release on a Redis error leaves the key to its TTL. *)
ReleaseFails(w) ==
    /\ At(w, "release")
    /\ Fault("lock_error")
    /\ Goto(w, "idle")
    /\ Forget(w)
    /\ UNCHANGED <<store, idem, lock, jobs, view, req, world>>

-----------------------------------------------------------------------------
(* engine._handle_gate *)

(* A fresh uuid4. *)
NewGate == CHOOSE g \in GateIds : gate[g].status = "none"

CreateGate(w) ==
    /\ AtStep(w)
    /\ Mine(w).status \notin DoneStatus
    /\ idx[w] \in GateSteps
    /\ \E g \in GateIds : gate[g].status = "none"
    /\ LET g == NewGate
       IN  /\ gate' = [gate EXCEPT ![g] = [step |-> idx[w], status |-> "pending"]]
           /\ myGate' = [myGate EXCEPT ![w] = g]
    /\ Goto(w, "tokens")
    /\ UNCHANGED <<run, step, tok, decisions, idem, lock, jobs, view, idx, snap,
                   retryable, comps, req, world, faults>>

IssueToken(w) ==
    /\ At(w, "tokens")
    /\ \E c \in Channels :
         /\ tok[myGate[w]][c] = "none"
         /\ tok' = [tok EXCEPT ![myGate[w]][c] = "fresh"]
         /\ Goto(w, IF \E d \in Channels \ {c} : tok[myGate[w]][d] = "none"
                      THEN "tokens" ELSE "await")
    /\ UNCHANGED <<run, step, gate, decisions, idem, lock, jobs, view, pass,
                   req, world, faults>>

AwaitApproval(w) ==
    /\ At(w, "await")
    /\ UpdateRunStatus(w, "awaiting_approval", "release", "release")
    /\ UNCHANGED <<step, gate, tok, decisions, idem, lock, jobs, pass, req,
                   world, faults>>

-----------------------------------------------------------------------------
(* gates.resolve_gate *)

(* Tokens reach the approvers once _handle_gate is done with the gate: the *)
(* delivery is outside the engine, which drops the raw token.              *)
Delivered(g) ==
    \A w \in Workers : myGate[w] = g => pc[w] \notin {"tokens", "await"}

(* The signature and the expiry are good and the token row exists. *)
PresentToken(a, r) ==
    /\ At(a, "idle")
    /\ tok[r.gate][r.channel] # "none"
    /\ Delivered(r.gate)
    /\ r.gate \notin expired
    /\ req' = [req EXCEPT ![a] = r]
    /\ Goto(a, "mark_used")
    /\ UNCHANGED <<store, idem, lock, jobs, view, pass, world, faults>>

(* Leaving resolve_gate, by return or by exception. *)
Leave(a) == Goto(a, "idle") /\ req' = [req EXCEPT ![a] = NoRequest]

(* Mutant: mark_token_used says "first use" to every caller. *)
MarkTokenUsedAgain(a) ==
    /\ At(a, "mark_used")
    /\ CanWrite(a)
    /\ EndWrite(a)
    /\ tok' = [tok EXCEPT ![req[a].gate][req[a].channel] = "used"]
    /\ Goto(a, "load_gate")
    /\ UNCHANGED <<run, step, gate, decisions, idem, lock, jobs, pass, req,
                   world, faults>>

MarkTokenUsed(a) ==
    /\ At(a, "mark_used")
    /\ CanWrite(a)
    /\ EndWrite(a)
    /\ IF Seen(a) = "fresh"
         THEN /\ tok' = [tok EXCEPT ![req[a].gate][req[a].channel] = "used"]
              /\ Goto(a, "load_gate")
              /\ req' = req
         ELSE tok' = tok /\ Leave(a)
    /\ UNCHANGED <<run, step, gate, decisions, idem, lock, jobs, pass, world,
                   faults>>

(* Mutant: the actor is not authorized. *)
CheckGateAnyActor(a) ==
    /\ At(a, "load_gate")
    /\ IF gate[req[a].gate].status = "pending"
         THEN Goto(a, "decide") /\ req' = req
         ELSE Leave(a)
    /\ UNCHANGED <<store, idem, lock, jobs, view, pass, world, faults>>

(* get_gate_request, the test for pending and the authorization. *)
CheckGate(a) ==
    /\ At(a, "load_gate")
    /\ IF gate[req[a].gate].status = "pending" /\ req[a].actor \in Authorized
         THEN Goto(a, "decide") /\ req' = req
         ELSE Leave(a)
    /\ UNCHANGED <<store, idem, lock, jobs, view, pass, world, faults>>

SaveDecision(a) ==
    /\ At(a, "decide")
    /\ decisions' = decisions \cup {req[a]}
    /\ Goto(a, "update_gate")
    /\ UNCHANGED <<run, step, gate, tok, idem, lock, jobs, view, pass, req,
                   world, faults>>

(* Mutant: the decision itself is stored as the status of the gate. *)
UpdateGateRaw(a) ==
    /\ At(a, "update_gate")
    /\ gate' = [gate EXCEPT ![req[a].gate].status = req[a].decision]
    /\ Goto(a, "update_run")
    /\ UNCHANGED <<run, step, tok, decisions, idem, lock, jobs, view, pass, req,
                   world, faults>>

UpdateGate(a) ==
    /\ At(a, "update_gate")
    /\ gate' = [gate EXCEPT ![req[a].gate].status =
                  IF req[a].decision = "approve" THEN "approved"
                                                 ELSE "rejected"]
    /\ Goto(a, "update_run")
    /\ UNCHANGED <<run, step, tok, decisions, idem, lock, jobs, view, pass, req,
                   world, faults>>

ResumeRun(a) ==
    /\ At(a, "update_run")
    /\ req[a].decision = "approve"
    /\ UpdateRunStatus(a, "running", "advance", "idle")
    /\ UNCHANGED <<step, gate, tok, decisions, idem, lock, jobs, pass, req,
                   world, faults>>

RejectRun(a) ==
    /\ At(a, "update_run")
    /\ req[a].decision = "reject"
    /\ UpdateRunStatus(a, "rejected", "idle", "idle")
    /\ req' = [req EXCEPT ![a] = NoRequest]
    /\ UNCHANGED <<step, gate, tok, decisions, idem, lock, jobs, pass, world,
                   faults>>

(* advance_gate_step sets the status without the transition guard. *)
AdvanceGateStep(a) ==
    /\ At(a, "advance")
    /\ step' = [step EXCEPT ![gate[req[a].gate].step].status = "succeeded"]
    /\ Leave(a)
    /\ UNCHANGED <<run, gate, tok, decisions, idem, lock, jobs, view, pass,
                   world, faults>>

-----------------------------------------------------------------------------
(* Recovery and faults *)

(* recovery_sweep enqueues the run; the job may start much later. *)
RecoverySweep ==
    /\ run \in {"queued", "running"}
    /\ jobs < MaxJobs
    /\ jobs' = jobs + 1
    /\ UNCHANGED <<store, idem, lock, pc, view, pass, req, world, faults>>

(* Mutant: SET without EX, the key has no TTL. *)
LockWithoutTTL ==
    /\ lock # NoProc
    /\ UNCHANGED vars

(* The TTL removes the key of a worker that is gone ... *)
LockExpires ==
    /\ lock # NoProc
    /\ At(lock, "idle")
    /\ lock' = NoProc
    /\ UNCHANGED <<store, idem, jobs, pc, view, pass, req, world, faults>>

(* ... and of one whose pass outlasts it: nothing calls extend. *)
LockExpiresEarly ==
    /\ lock # NoProc
    /\ ~At(lock, "idle")
    /\ Fault("lock_ttl")
    /\ lock' = NoProc
    /\ lockLost' = TRUE
    /\ UNCHANGED <<store, idem, jobs, pc, view, pass, req, expired, effects,
                   unreported, undone>>

CrashWorker(w) ==
    /\ ~At(w, "idle")
    /\ Fault("crash")
    /\ Goto(w, "idle")
    /\ EndWrite(w)
    /\ Forget(w)
    /\ UNCHANGED <<store, idem, lock, jobs, req, world>>

CrashApprover(a) ==
    /\ ~At(a, "idle")
    /\ Fault("crash")
    /\ Leave(a)
    /\ EndWrite(a)
    /\ UNCHANGED <<store, idem, lock, jobs, pass, world>>

(* A store or Redis call of a pass raises without doing anything.  From    *)
(* inside the try the failure is caught and is not retryable.              *)
CallFails(w) ==
    /\ pc[w] \notin {"idle", "handler", "compensate", "release"}
    /\ At(w, "loop") => AtStep(w) /\ Mine(w).status \notin DoneStatus
    /\ Fault("error")
    /\ EndWrite(w)
    /\ IF pc[w] \in {"reserve", "record", "succeed"}
         THEN Goto(w, "fail") /\ retryable' = [retryable EXCEPT ![w] = FALSE]
         ELSE Goto(w, "release") /\ retryable' = retryable
    /\ UNCHANGED <<store, idem, lock, jobs, idx, snap, comps, myGate, req,
                   world>>

TokensExpire(g) ==
    /\ gate[g].status = "pending"
    /\ g \notin expired
    /\ Fault("token_ttl")
    /\ expired' = expired \cup {g}
    /\ UNCHANGED <<store, idem, lock, jobs, pc, view, pass, req, effects,
                   unreported, undone, lockLost>>

-----------------------------------------------------------------------------
Pass(w) ==
    \/ LoadRun(w)
    \/ StartRun(w)
    \/ GetSteps(w)
    \/ SkipStep(w)
    \/ LookupStep(w)
    \/ MarkRunning(w)
    \/ HandlerReturns(w)
    \/ HandlerRaises(w)
    \/ Reserve(w)
    \/ Record(w)
    \/ MarkSucceeded(w)
    \/ MarkFailed(w)
    \/ RetryStep(w)
    \/ Compensate(w)
    \/ ParkRun(w)
    \/ FinishLoop(w)
    \/ FinishRun(w)
    \/ CreateGate(w)
    \/ IssueToken(w)
    \/ AwaitApproval(w)
    \/ Release(w)

Resolve(a) ==
    \/ MarkTokenUsed(a)
    \/ CheckGate(a)
    \/ SaveDecision(a)
    \/ UpdateGate(a)
    \/ ResumeRun(a)
    \/ RejectRun(a)
    \/ AdvanceGateStep(a)

Disturb ==
    \/ LockExpiresEarly
    \/ \E w \in Workers : AcquireDegraded(w) \/ ReleaseFails(w)
                          \/ CrashWorker(w) \/ CallFails(w)
    \/ \E a \in Approvers : CrashApprover(a)
    \/ \E g \in GateIds : TokensExpire(g)

Next ==
    \/ \E w \in Workers : Acquire(w) \/ Pass(w)
    \/ \E a \in Approvers : Resolve(a)
                            \/ \E r \in Request : PresentToken(a, r)
    \/ \E p \in Procs : Select(p)
    \/ RecoverySweep
    \/ LockExpires
    \/ Disturb

Spec == Init /\ [][Next]_vars

(***************************************************************************)
(* A pass or an approval that has begun goes on, and Redis removes keys    *)
(* whose time is over.  This is all that the code's own scheduling gives:  *)
(* nothing in it starts a pass again and again.                            *)
(***************************************************************************)
Fairness ==
    /\ \A w \in Workers : WF_vars(Pass(w))
    /\ \A a \in Approvers : WF_vars(Resolve(a))
    /\ \A p \in Procs : WF_vars(Select(p))
    /\ WF_vars(LockExpires)

FairSpec == Spec /\ Fairness

(***************************************************************************)
(* More than the code promises: the recovery sweep, which is there for a   *)
(* restart, comes back for ever, its jobs are served, and every token is   *)
(* presented in the end.                                                   *)
(***************************************************************************)
SweptSpec ==
    /\ FairSpec
    /\ \A w \in Workers : WF_vars(Acquire(w))
    /\ \A a \in Approvers : \A r \in Request : SF_vars(PresentToken(a, r))
    /\ WF_vars(RecoverySweep)

-----------------------------------------------------------------------------
(* Properties *)

StoreType ==
    /\ run \in RunStatus
    /\ step \in [Steps -> StepState]
    /\ gate \in [GateIds -> GateRequest]
    /\ tok \in [GateIds -> [Channels -> TokenStatus]]
    /\ decisions \subseteq Request

ProcType ==
    /\ pc \in [Procs -> WorkerLocation \cup ApproverLocation]
    /\ \A w \in Workers : pc[w] \in WorkerLocation
    /\ \A a \in Approvers : pc[a] \in ApproverLocation
    /\ view \in [Procs -> RunStatus \cup StepStatus \cup TokenStatus
                           \cup {NoView}]

SharedType ==
    /\ lock \in Workers \cup {NoProc}
    /\ jobs \in 0..MaxJobs
    /\ faults \in 0..MaxFaults
    /\ idem \in [Steps -> {"none", "reserved", "recorded"}]
    /\ effects \subseteq Steps
    /\ unreported \in [Steps -> Nat]
    /\ undone \subseteq Steps
    /\ lockLost \in BOOLEAN
    /\ expired \subseteq GateIds

PassType ==
    /\ idx \in [Workers -> 1..NSteps + 1]
    /\ snap \in [Workers -> [Steps -> StepState]]
    /\ retryable \in [Workers -> BOOLEAN]
    /\ comps \in [Workers -> SUBSET Steps]
    /\ myGate \in [Workers -> GateIds]
    /\ req \in [Approvers -> Request]

(* Every variable holds a value of its kind: the rows, the places of the   *)
(* processes, the locals of the passes and the histories.                  *)
TypeOK == StoreType /\ ProcType /\ SharedType /\ PassType

(* Some request for gate step g was approved by an authorized actor. *)
Approved(g) ==
    \E d \in decisions : /\ d.decision = "approve"
                         /\ d.actor \in Authorized
                         /\ gate[d.gate].step = g

(* No step after a gate has an external effect before an authorized actor  *)
(* has approved that gate (engine._execute with gates.resolve_gate), under *)
(* every interleaving, crash and stale pass.                               *)
GateRespected ==
    \A i \in Steps : i \in effects =>
        \A g \in GateSteps : g < i => Approved(g)

(* Steps run in declaration order: an effect of step i is preceded by one  *)
(* of every earlier step, also across passes, crashes and short-circuits.  *)
StepsInOrder ==
    \A i \in Steps : i \in effects =>
        \A j \in Steps \ GateSteps : j < i => j \in effects

(* A run is recorded as succeeded only when every step has had its effect  *)
(* and every gate was approved, although the pass that ends it skips and   *)
(* short-circuits steps on what other passes wrote.                        *)
SucceededComplete ==
    run = "succeeded" =>
        \A i \in Steps : IF i \in GateSteps THEN Approved(i) ELSE i \in effects

(* No effect is repeated behind the engine's back: between two effects of  *)
(* a step a pass has recorded it as failed, however workers crash, calls   *)
(* fail and answers are lost (engine._execute, idempotency.py).  With the  *)
(* in-memory store no lock is needed for it, with Postgres it is.          *)
RepeatsReported ==
    AtomicStore \/ ~lockLost => \A i \in Steps : unreported[i] <= 1

(* A token decides once: two uses of it never record different decisions   *)
(* (mark_token_used in resolve_gate).                                      *)
TokenOnce ==
    \A d, e \in decisions :
        d.gate = e.gate /\ d.channel = e.channel => d = e

(* Two workers never execute the run at the same time, unless Redis has    *)
(* refused the lock or a pass has outlasted its key (locking.py).          *)
OnePass ==
    ~lockLost =>
        \A v, w \in Workers : ~At(v, "idle") /\ ~At(w, "idle") => v = w

(* Once a run is succeeded or rejected it stays so, whatever late passes   *)
(* and late approvals do (the transition tables of states.py).             *)
TerminalIsFinal ==
    [][(run \in {"succeeded", "rejected", "cancelled"}) => (run' = run)]_vars

(* Step i is behind the run: its effect has happened or its gate was       *)
(* approved.                                                               *)
Passed(i) == IF i \in GateSteps THEN Approved(i) ELSE i \in effects

(* Some request for gate step g was rejected by an authorized actor. *)
Refused(g) ==
    \E d \in decisions : /\ d.decision = "reject"
                         /\ d.actor \in Authorized
                         /\ gate[d.gate].step = g

Contract == INSTANCE RunContract WITH
    done <- {i \in Steps : Passed(i)},
    refused <- {i \in GateSteps : Refused(i)},
    outcome <- IF run \in {"succeeded", "rejected", "cancelled"} THEN run ELSE "open"

(* The engine, the gates and the recovery sweep implement the contract of  *)
(* a run: whatever workers, approvers and faults do, the steps get behind  *)
(* it one at a time and in order, and it ends at most once, as it should.  *)
ContractKept == Contract!ContractSpec

(* The run is never locked for good: every pass comes to its end, and the  *)
(* key of one that crashed or could not delete it expires (engine.execute, *)
(* locking.py).                                                            *)
LockReturned == []<>(lock = NoProc)

(* The run does not stay queued or running: passes and sweeps bring it to  *)
(* its end, to a gate or to parking (engine.execute, recovery_sweep).      *)
RunSettles == []<>(run \notin {"queued", "running"})
=============================================================================
