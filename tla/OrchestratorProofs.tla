------------------------- MODULE OrchestratorProofs -------------------------
(***************************************************************************)
(* Proofs about Orchestrator, for any number of workers, approvers, steps, *)
(* gates, channels, jobs and faults, and for both stores.                  *)
(***************************************************************************)
EXTENDS Orchestrator, TLAPS

USE ProcAssumption, StepAssumption, InputAssumption, BoundAssumption

-----------------------------------------------------------------------------
(* The inductive invariant *)

(* A pass that works on a step is at a step of the workflow that is not a  *)
(* gate, and a pass that finishes the run has gone through them all.       *)
Located ==
    \A w \in Workers :
        /\ pc[w] \in StepWrites \cup {"handler", "reserve", "record"}
             => idx[w] \in Steps \ GateSteps
        /\ pc[w] = "finish" => idx[w] = NSteps + 1

(* Gate requests, tokens and decisions belong together: what an approver   *)
(* holds was requested, and what is recorded was decided with authority.   *)
Requested(g) == gate[g].status # "none"
Deciding == {"decide", "update_gate", "update_run", "advance"}

Known ==
    /\ \A g \in GateIds : Requested(g) => gate[g].step \in GateSteps
    /\ \A g \in GateIds : \A c \in Channels : tok[g][c] # "none" => Requested(g)
    /\ \A w \in Workers : pc[w] = "tokens" => Requested(myGate[w])
    /\ \A d \in decisions : Requested(d.gate) /\ d.actor \in Authorized
    /\ \A a \in Approvers :
         /\ pc[a] # "idle" => Requested(req[a].gate)
         /\ pc[a] \in Deciding => req[a].actor \in Authorized
         /\ pc[a] \in Deciding \ {"decide"} => req[a] \in decisions
         /\ pc[a] = "advance" => req[a].decision = "approve"

(* Whatever a pass relies on to move past a step (the row, its copy of the *)
(* row, the idempotency key, its position) stands for a step that is       *)
(* behind the run, and so does everything before a step with an effect.    *)
RowsSound ==
    \A i \in Steps : step[i].status \in DoneStatus => Passed(i)
KeysSound ==
    \A i \in Steps : idem[i] = "recorded" => i \in effects
CopiesSound ==
    \A w \in Workers : \A i \in Steps :
        snap[w][i].status \in DoneStatus => Passed(i)
PlacesSound ==
    \A w \in Workers : \A j \in Steps : j < idx[w] => Passed(j)
HandledSound ==
    \A w \in Workers :
        pc[w] \in {"reserve", "record", "succeed"} => idx[w] \in effects
OrderSound ==
    \A i \in Steps : i \in effects =>
        i \notin GateSteps /\ \A j \in Steps : j < i => Passed(j)
EndSound ==
    run = "succeeded" => \A i \in Steps : Passed(i)

Sound == /\ RowsSound /\ KeysSound /\ CopiesSound /\ PlacesSound
         /\ HandledSound /\ OrderSound /\ EndSound

IInv == TypeOK /\ Located /\ Known /\ Sound

-----------------------------------------------------------------------------
(* The placeholders for "no gate request yet" and "no arguments yet" have
   the types of the locals they fill. *)
LEMMA NoGateType == NoGate \in GateIds
  BY DEF NoGate

(* See NoGateType. *)
LEMMA NoRequestType == NoRequest \in Request
<1>1. PICK g \in GateIds, c \in Channels, d \in Decisions, x \in Actors : TRUE
  OBVIOUS
<1>2. [gate |-> g, channel |-> c, decision |-> d, actor |-> x] \in Request
  BY <1>1 DEF Request
<1> QED
  BY <1>2 DEF NoRequest

(* The rows start_run creates are step rows. *)
LEMMA NewStepsType == NewSteps \in [Steps -> StepState]
  BY DEF NewSteps, NewStep, StepState, StepStatus

(* The state after start_run is well typed and no pass is under way. *)
LEMMA InitLocated == Init => TypeOK /\ Located
<1> SUFFICES ASSUME Init PROVE TypeOK /\ Located
  OBVIOUS
<1> USE DEF Init
<1>1. TypeOK
  <2>1. unreported \in [Steps -> Nat]  OBVIOUS
  <2>2. lockLost \in BOOLEAN  OBVIOUS
  <2>3. SharedType  BY <2>1, <2>2 DEF SharedType
  <2>4. StoreType /\ ProcType /\ PassType
    BY NoGateType, NoRequestType, NewStepsType
       DEF StoreType, ProcType, PassType, RunStatus, WorkerLocation, ApproverLocation, Procs, NoView,
           GateRequest, GateStatus, TokenStatus, Steps
  <2> QED  BY <2>3, <2>4 DEF TypeOK
<1>2. Located
  BY DEF Located, StepWrites, Procs
<1> QED
  BY <1>1, <1>2

(* Every target of a Goto is a place of its process. *)
LEMMA Places ==
    /\ \A l \in {"idle", "load", "start", "get_steps", "loop", "mark",
                 "handler", "reserve", "record", "succeed", "fail", "retry",
                 "compensate", "park", "finish", "tokens", "await",
                 "release"} : l \in WorkerLocation
    /\ \A l \in {"idle", "mark_used", "load_gate", "decide", "update_gate",
                 "update_run", "advance"} : l \in ApproverLocation
  BY DEF WorkerLocation, ApproverLocation

(* update_step keeps the rows and the copies of the pass well typed. *)
LEMMA UpdateStepType ==
  ASSUME TypeOK, NEW w \in Workers, idx[w] \in Steps,
         NEW new \in StepState,
         NEW good \in WorkerLocation, NEW bad \in WorkerLocation,
         UpdateStep(w, new, good, bad)
  PROVE  /\ step' \in [Steps -> StepState]
         /\ snap' \in [Workers -> [Steps -> StepState]]
         /\ ProcType'
<1>1. step' \in [Steps -> StepState]
  BY DEF UpdateStep, TypeOK, StoreType
<1>5. snap' \in [Workers -> [Steps -> StepState]]
  BY DEF UpdateStep, TypeOK, PassType
<1>2. \/ pc' = [pc EXCEPT ![w] = good]
      \/ pc' = [pc EXCEPT ![w] = bad]
  BY DEF UpdateStep, Goto
<1>3. view' = [view EXCEPT ![w] = NoView]
  BY DEF UpdateStep, EndWrite
<1>4. ProcType'
  BY <1>2, <1>3 DEF TypeOK, ProcType, Procs
<1> QED
  BY <1>1, <1>4, <1>5

(* update_run_status called by a pass keeps the run row and the places
   well typed. *)
LEMMA WorkerRunType ==
  ASSUME TypeOK, NEW w \in Workers, NEW new \in RunStatus,
         NEW good \in WorkerLocation, NEW bad \in WorkerLocation,
         UpdateRunStatus(w, new, good, bad)
  PROVE  run' \in RunStatus /\ ProcType'
  BY DEF UpdateRunStatus, TypeOK, StoreType, ProcType, Procs, Goto, EndWrite

(* update_run_status called by resolve_gate does the same. *)
LEMMA ApproverRunType ==
  ASSUME TypeOK, NEW a \in Approvers, NEW new \in RunStatus,
         NEW good \in ApproverLocation, NEW bad \in ApproverLocation,
         UpdateRunStatus(a, new, good, bad)
  PROVE  run' \in RunStatus /\ ProcType'
  BY DEF UpdateRunStatus, TypeOK, StoreType, ProcType, Procs, Goto, EndWrite

(* Changing the status of a step row keeps it a step row. *)
LEMMA StepStatusSet ==
  ASSUME NEW r \in StepState, NEW s \in StepStatus
  PROVE  [r EXCEPT !.status = s] \in StepState
  BY DEF StepState

(* Changing the status of a gate row keeps it a gate row. *)
LEMMA GateStatusSet ==
  ASSUME NEW r \in GateRequest, NEW s \in GateStatus
  PROVE  [r EXCEPT !.status = s] \in GateRequest
  BY DEF GateRequest

(* The row a pending store call reads exists and has a status. *)
LEMMA TargetType ==
  ASSUME TypeOK, Located, NEW p \in Procs,
         pc[p] \in RunWrites \cup StepWrites \cup TokenWrites
  PROVE  Target(p) \in RunStatus \cup StepStatus \cup TokenStatus
<1> USE DEF TypeOK, Located, Procs
<1>1. CASE pc[p] \in RunWrites
  BY <1>1 DEF Target, StoreType
<1>2. CASE pc[p] \in StepWrites
  <2>1. p \in Workers
    BY <1>2 DEF ProcType, StepWrites, ApproverLocation
  <2>2. step[idx[p]] \in StepState
    BY <1>2, <2>1 DEF StoreType
  <2>3. pc[p] \notin RunWrites
    BY <1>2 DEF StepWrites, RunWrites
  <2> QED
    BY <1>2, <2>2, <2>3 DEF Target, StepState
<1>3. CASE pc[p] \in TokenWrites
  <2>1. p \in Approvers
    BY <1>3 DEF ProcType, TokenWrites, WorkerLocation
  <2>2. req[p] \in Request
    BY <2>1 DEF PassType
  <2>3. tok[req[p].gate][req[p].channel] \in TokenStatus
    BY <2>2 DEF StoreType, Request
  <2>4. pc[p] \notin RunWrites /\ pc[p] \notin StepWrites
    BY <1>3 DEF StepWrites, RunWrites, TokenWrites
  <2> QED
    BY <2>3, <2>4 DEF Target
<1> QED
  BY <1>1, <1>2, <1>3

(* Every step of the system keeps the types and the places of the passes. *)
LEMMA StepLocated == TypeOK /\ Located /\ [Next]_vars => TypeOK' /\ Located'
<1> SUFFICES ASSUME TypeOK, Located PROVE [Next]_vars => TypeOK' /\ Located'
  OBVIOUS
<1> USE NoGateType, NoRequestType, NewStepsType
    DEF TypeOK, StoreType, ProcType, SharedType, PassType, Located,
        store, pass, world, Procs, At, Goto, EndWrite, StepWrites
<1>1. ASSUME NEW w \in Workers, Acquire(w) PROVE TypeOK' /\ Located'
  <2>1. PICK l \in WorkerLocation : pc' = [pc EXCEPT ![w] = l]
    BY <1>1, Places DEF Acquire
  <2>2. view' = view  BY <1>1 DEF Acquire
  <2>3. ProcType'  BY <2>1, <2>2, Places
  <2>4. StoreType'  BY <1>1 DEF Acquire
  <2>5. SharedType'  BY <1>1 DEF Acquire
  <2>6. PassType'  BY <1>1 DEF Acquire
  <2>7. Located'  BY <1>1 DEF Acquire
  <2> QED  BY <2>1, <2>2, <2>3, <2>4, <2>5, <2>6, <2>7 DEF TypeOK
<1>2. ASSUME NEW w \in Workers, LoadRun(w) PROVE TypeOK' /\ Located'
  <2>1. StoreType'  BY <1>2 DEF LoadRun
  <2>2. ProcType'  BY <1>2, Places DEF LoadRun
  <2>3. SharedType'  BY <1>2 DEF LoadRun
  <2>4. PassType'  BY <1>2 DEF LoadRun
  <2>5. Located'  BY <1>2 DEF LoadRun
  <2> QED  BY <2>1, <2>2, <2>3, <2>4, <2>5 DEF TypeOK
<1>3. ASSUME NEW w \in Workers, StartRun(w) PROVE TypeOK' /\ Located'
  <2>1. UpdateRunStatus(w, "running", "get_steps", "release")
    BY <1>3 DEF StartRun
  <2>2. run' \in RunStatus /\ ProcType'
    BY <2>1, WorkerRunType, Places DEF RunStatus
  <2>3. StoreType'  BY <1>3, <2>2 DEF StartRun
  <2>4. SharedType'  BY <1>3 DEF StartRun
  <2>5. PassType'  BY <1>3 DEF StartRun
  <2>6. Located'  BY <1>3, <2>1 DEF StartRun, UpdateRunStatus
  <2> QED  BY <2>1, <2>2, <2>3, <2>4, <2>5, <2>6 DEF TypeOK
<1>4. ASSUME NEW w \in Workers, GetSteps(w) PROVE TypeOK' /\ Located'
  <2>1. StoreType'  BY <1>4 DEF GetSteps
  <2>2. ProcType'  BY <1>4, Places DEF GetSteps
  <2>3. SharedType'  BY <1>4 DEF GetSteps
  <2>4. PassType'  BY <1>4 DEF GetSteps
  <2>5. Located'  BY <1>4 DEF GetSteps
  <2> QED  BY <2>1, <2>2, <2>3, <2>4, <2>5 DEF TypeOK
<1>5. ASSUME NEW w \in Workers, SkipStep(w) PROVE TypeOK' /\ Located'
  <2>1. StoreType'  BY <1>5 DEF SkipStep, AtStep
  <2>2. ProcType'  BY <1>5, Places DEF SkipStep, AtStep
  <2>3. SharedType'  BY <1>5 DEF SkipStep, AtStep
  <2>4. PassType'  BY <1>5 DEF SkipStep, AtStep
  <2>5. Located'  BY <1>5 DEF SkipStep, AtStep
  <2> QED  BY <2>1, <2>2, <2>3, <2>4, <2>5 DEF TypeOK
<1>6. ASSUME NEW w \in Workers, LookupStep(w) PROVE TypeOK' /\ Located'
  <2>1. /\ view' = view /\ snap' = snap
        /\ idx[w] \in Steps \ GateSteps
        /\ pc[w] = "loop"
    BY <1>6 DEF LookupStep, AtStep, Steps
  <2>2. StoreType' /\ SharedType'
    BY <1>6 DEF LookupStep
  <2>3. CASE idem[idx[w]] = "recorded"
    <3>1. pc' = pc /\ idx' = [idx EXCEPT ![w] = @ + 1]
      BY <1>6, <2>3 DEF LookupStep
    <3>2. ProcType'  BY <2>1, <3>1
    <3>3. idx' \in [Workers -> 1..NSteps + 1]  BY <2>1, <3>1 DEF Steps
    <3>4. PassType'  BY <1>6, <3>3 DEF LookupStep
    <3>5. Located'  BY <2>1, <3>1
    <3> QED  BY <2>2, <3>2, <3>4, <3>5 DEF TypeOK
  <2>4. CASE idem[idx[w]] # "recorded"
    <3>1. pc' = [pc EXCEPT ![w] = "mark"] /\ idx' = idx
      BY <1>6, <2>4 DEF LookupStep
    <3>2. ProcType'  BY <2>1, <3>1, Places
    <3>3. PassType'  BY <1>6, <3>1 DEF LookupStep
    <3>4. Located'  BY <2>1, <3>1
    <3> QED  BY <2>2, <3>2, <3>3, <3>4 DEF TypeOK
  <2> QED  BY <2>3, <2>4
<1>7. ASSUME NEW w \in Workers, MarkRunning(w) PROVE TypeOK' /\ Located'
  <2>1. idx[w] \in Steps /\ Mine(w) \in StepState
    BY <1>7 DEF MarkRunning, Mine
  <2>2. [Mine(w) EXCEPT !.status = "running"] \in StepState
    BY <2>1 DEF StepState, StepStatus
  <2>3. UpdateStep(w, [Mine(w) EXCEPT !.status = "running"], "handler", "release")
    BY <1>7 DEF MarkRunning
  <2>4. /\ step' \in [Steps -> StepState]
        /\ snap' \in [Workers -> [Steps -> StepState]]
        /\ ProcType'
    BY <2>1, <2>2, <2>3, UpdateStepType, Places
  <2>5. StoreType'  BY <1>7, <2>4 DEF MarkRunning
  <2>6. SharedType'  BY <1>7 DEF MarkRunning
  <2>7. idx' \in [Workers -> 1..NSteps + 1] /\ retryable' \in [Workers -> BOOLEAN]
    BY <1>7, <2>1 DEF MarkRunning, Steps
  <2>8. PassType'  BY <1>7, <2>4, <2>7 DEF MarkRunning
  <2>9. Located'  BY <1>7, <2>3 DEF MarkRunning, UpdateStep
  <2> QED  BY <2>1, <2>2, <2>3, <2>4, <2>5, <2>6, <2>7, <2>8, <2>9 DEF TypeOK
<1>8. ASSUME NEW w \in Workers, HandlerReturns(w) PROVE TypeOK' /\ Located'
  <2>1. StoreType'  BY <1>8 DEF HandlerReturns
  <2>2. ProcType'  BY <1>8, Places DEF HandlerReturns
  <2>3. SharedType'  BY <1>8 DEF HandlerReturns, Effect
  <2>4. PassType'  BY <1>8 DEF HandlerReturns
  <2>5. Located'  BY <1>8 DEF HandlerReturns
  <2> QED  BY <2>1, <2>2, <2>3, <2>4, <2>5 DEF TypeOK
<1>9. ASSUME NEW w \in Workers, HandlerRaises(w) PROVE TypeOK' /\ Located'
  <2>1. StoreType'  BY <1>9 DEF HandlerRaises
  <2>2. ProcType'  BY <1>9, Places DEF HandlerRaises
  <2>3. SharedType'  BY <1>9 DEF HandlerRaises, Effect
  <2>4. PassType'  BY <1>9 DEF HandlerRaises
  <2>5. Located'  BY <1>9 DEF HandlerRaises
  <2> QED  BY <2>1, <2>2, <2>3, <2>4, <2>5 DEF TypeOK
<1>10. ASSUME NEW w \in Workers, Reserve(w) PROVE TypeOK' /\ Located'
  <2>1. StoreType'  BY <1>10 DEF Reserve
  <2>2. ProcType'  BY <1>10, Places DEF Reserve
  <2>3. SharedType'  BY <1>10 DEF Reserve
  <2>4. PassType'  BY <1>10 DEF Reserve
  <2>5. Located'  BY <1>10 DEF Reserve
  <2> QED  BY <2>1, <2>2, <2>3, <2>4, <2>5 DEF TypeOK
<1>11. ASSUME NEW w \in Workers, Record(w) PROVE TypeOK' /\ Located'
  <2>1. StoreType'  BY <1>11 DEF Record
  <2>2. ProcType'  BY <1>11, Places DEF Record
  <2>3. SharedType'  BY <1>11 DEF Record
  <2>4. PassType'  BY <1>11 DEF Record
  <2>5. Located'  BY <1>11 DEF Record
  <2> QED  BY <2>1, <2>2, <2>3, <2>4, <2>5 DEF TypeOK
<1>12. ASSUME NEW w \in Workers, MarkSucceeded(w) PROVE TypeOK' /\ Located'
  <2>1. idx[w] \in Steps /\ Mine(w) \in StepState
    BY <1>12 DEF MarkSucceeded, Mine
  <2>2. [status |-> "succeeded", attempt |-> Mine(w).attempt + 1] \in StepState
    BY <2>1 DEF StepState, StepStatus
  <2>3. UpdateStep(w, [status |-> "succeeded", attempt |-> Mine(w).attempt + 1], "loop", "fail")
    BY <1>12 DEF MarkSucceeded
  <2>4. /\ step' \in [Steps -> StepState]
        /\ snap' \in [Workers -> [Steps -> StepState]]
        /\ ProcType'
    BY <2>1, <2>2, <2>3, UpdateStepType, Places
  <2>5. StoreType'  BY <1>12, <2>4 DEF MarkSucceeded
  <2>6. SharedType'  BY <1>12 DEF MarkSucceeded
  <2>7. idx' \in [Workers -> 1..NSteps + 1] /\ retryable' \in [Workers -> BOOLEAN]
    BY <1>12, <2>1 DEF MarkSucceeded, Steps
  <2>8. PassType'  BY <1>12, <2>4, <2>7 DEF MarkSucceeded
  <2>9. Located'  BY <1>12, <2>3 DEF MarkSucceeded, UpdateStep
  <2> QED  BY <2>1, <2>2, <2>3, <2>4, <2>5, <2>6, <2>7, <2>8, <2>9 DEF TypeOK
<1>13. ASSUME NEW w \in Workers, MarkFailed(w) PROVE TypeOK' /\ Located'
  <2>1. idx[w] \in Steps /\ Mine(w) \in StepState
    BY <1>13 DEF MarkFailed, Mine
  <2>2. [status |-> "failed", attempt |-> Mine(w).attempt + 1] \in StepState
    BY <2>1 DEF StepState, StepStatus
  <2>3. UpdateStep(w, [status |-> "failed", attempt |-> Mine(w).attempt + 1], IF retryable[w] /\ Mine(w).attempt + 1 < MaxAttempts THEN "retry" ELSE ParkPlace(w), "release")
    BY <1>13 DEF MarkFailed
  <2>4. /\ step' \in [Steps -> StepState]
        /\ snap' \in [Workers -> [Steps -> StepState]]
        /\ ProcType'
    BY <2>1, <2>2, <2>3, UpdateStepType, Places DEF ParkPlace
  <2>5. StoreType'  BY <1>13, <2>4 DEF MarkFailed
  <2>6. SharedType'  BY <1>13 DEF MarkFailed
  <2>7. idx' \in [Workers -> 1..NSteps + 1] /\ retryable' \in [Workers -> BOOLEAN]
    BY <1>13, <2>1 DEF MarkFailed, Steps
  <2>8. PassType'  BY <1>13, <2>4, <2>7 DEF MarkFailed
  <2>9. Located'  BY <1>13, <2>3 DEF MarkFailed, UpdateStep, ParkPlace
  <2> QED  BY <2>1, <2>2, <2>3, <2>4, <2>5, <2>6, <2>7, <2>8, <2>9 DEF TypeOK
<1>14. ASSUME NEW w \in Workers, RetryStep(w) PROVE TypeOK' /\ Located'
  <2>1. idx[w] \in Steps /\ Mine(w) \in StepState
    BY <1>14 DEF RetryStep, Mine
  <2>2. [Mine(w) EXCEPT !.status = "pending"] \in StepState
    BY <2>1 DEF StepState, StepStatus
  <2>3. UpdateStep(w, [Mine(w) EXCEPT !.status = "pending"], "release", "release")
    BY <1>14 DEF RetryStep
  <2>4. /\ step' \in [Steps -> StepState]
        /\ snap' \in [Workers -> [Steps -> StepState]]
        /\ ProcType'
    BY <2>1, <2>2, <2>3, UpdateStepType, Places
  <2>5. StoreType'  BY <1>14, <2>4 DEF RetryStep
  <2>6. SharedType'  BY <1>14 DEF RetryStep
  <2>7. idx' \in [Workers -> 1..NSteps + 1] /\ retryable' \in [Workers -> BOOLEAN]
    BY <1>14, <2>1 DEF RetryStep, Steps
  <2>8. PassType'  BY <1>14, <2>4, <2>7 DEF RetryStep
  <2>9. Located'  BY <1>14, <2>3 DEF RetryStep, UpdateStep
  <2> QED  BY <2>1, <2>2, <2>3, <2>4, <2>5, <2>6, <2>7, <2>8, <2>9 DEF TypeOK
<1>15. ASSUME NEW w \in Workers, Compensate(w) PROVE TypeOK' /\ Located'
  <2>1. StoreType'  BY <1>15 DEF Compensate
  <2>2. ProcType'  BY <1>15, Places DEF Compensate
  <2>3. SharedType'  BY <1>15 DEF Compensate
  <2>4. PassType'  BY <1>15 DEF Compensate
  <2>5. Located'  BY <1>15 DEF Compensate
  <2> QED  BY <2>1, <2>2, <2>3, <2>4, <2>5 DEF TypeOK
<1>16. ASSUME NEW w \in Workers, ParkRun(w) PROVE TypeOK' /\ Located'
  <2>1. UpdateRunStatus(w, "parked", "release", "release")
    BY <1>16 DEF ParkRun
  <2>2. run' \in RunStatus /\ ProcType'
    BY <2>1, WorkerRunType, Places DEF RunStatus
  <2>3. StoreType'  BY <1>16, <2>2 DEF ParkRun
  <2>4. SharedType'  BY <1>16 DEF ParkRun
  <2>5. PassType'  BY <1>16 DEF ParkRun
  <2>6. Located'  BY <1>16, <2>1 DEF ParkRun, UpdateRunStatus
  <2> QED  BY <2>1, <2>2, <2>3, <2>4, <2>5, <2>6 DEF TypeOK
<1>17. ASSUME NEW w \in Workers, FinishLoop(w) PROVE TypeOK' /\ Located'
  <2>1. StoreType'  BY <1>17 DEF FinishLoop
  <2>2. ProcType'  BY <1>17, Places DEF FinishLoop
  <2>3. SharedType'  BY <1>17 DEF FinishLoop
  <2>4. PassType'  BY <1>17 DEF FinishLoop
  <2>5. Located'  BY <1>17 DEF FinishLoop
  <2> QED  BY <2>1, <2>2, <2>3, <2>4, <2>5 DEF TypeOK
<1>18. ASSUME NEW w \in Workers, FinishRun(w) PROVE TypeOK' /\ Located'
  <2>1. UpdateRunStatus(w, "succeeded", "release", "release")
    BY <1>18 DEF FinishRun
  <2>2. run' \in RunStatus /\ ProcType'
    BY <2>1, WorkerRunType, Places DEF RunStatus
  <2>3. StoreType'  BY <1>18, <2>2 DEF FinishRun
  <2>4. SharedType'  BY <1>18 DEF FinishRun
  <2>5. PassType'  BY <1>18 DEF FinishRun
  <2>6. Located'  BY <1>18, <2>1 DEF FinishRun, UpdateRunStatus
  <2> QED  BY <2>1, <2>2, <2>3, <2>4, <2>5, <2>6 DEF TypeOK
<1>19. ASSUME NEW w \in Workers, CreateGate(w) PROVE TypeOK' /\ Located'
  <2>1. NewGate \in GateIds  BY <1>19 DEF CreateGate, NewGate
  <2>2. idx[w] \in 0..NSteps  BY <1>19 DEF CreateGate, AtStep
  <2>3. StoreType'
    BY <1>19, <2>1, <2>2 DEF CreateGate, GateRequest, GateStatus
  <2>4. ProcType'  BY <1>19, Places DEF CreateGate
  <2>5. SharedType'  BY <1>19 DEF CreateGate
  <2>6. myGate' \in [Workers -> GateIds]  BY <1>19, <2>1 DEF CreateGate
  <2>7. PassType'  BY <1>19, <2>6 DEF CreateGate
  <2>8. Located'  BY <1>19 DEF CreateGate
  <2> QED  BY <2>1, <2>2, <2>3, <2>4, <2>5, <2>6, <2>7, <2>8 DEF TypeOK
<1>20. ASSUME NEW w \in Workers, IssueToken(w) PROVE TypeOK' /\ Located'
  <2>1. StoreType'  BY <1>20 DEF IssueToken, TokenStatus
  <2>2. ProcType'  BY <1>20, Places DEF IssueToken
  <2>3. SharedType'  BY <1>20 DEF IssueToken
  <2>4. PassType'  BY <1>20 DEF IssueToken
  <2>5. Located'  BY <1>20 DEF IssueToken
  <2> QED  BY <2>1, <2>2, <2>3, <2>4, <2>5 DEF TypeOK
<1>21. ASSUME NEW w \in Workers, AwaitApproval(w) PROVE TypeOK' /\ Located'
  <2>1. UpdateRunStatus(w, "awaiting_approval", "release", "release")
    BY <1>21 DEF AwaitApproval
  <2>2. run' \in RunStatus /\ ProcType'
    BY <2>1, WorkerRunType, Places DEF RunStatus
  <2>3. StoreType'  BY <1>21, <2>2 DEF AwaitApproval
  <2>4. SharedType'  BY <1>21 DEF AwaitApproval
  <2>5. PassType'  BY <1>21 DEF AwaitApproval
  <2>6. Located'  BY <1>21, <2>1 DEF AwaitApproval, UpdateRunStatus
  <2> QED  BY <2>1, <2>2, <2>3, <2>4, <2>5, <2>6 DEF TypeOK
<1>22. ASSUME NEW w \in Workers, Release(w) PROVE TypeOK' /\ Located'
  <2>1. StoreType'  BY <1>22 DEF Release, Forget
  <2>2. ProcType'  BY <1>22, Places DEF Release, Forget
  <2>3. SharedType'  BY <1>22 DEF Release, Forget
  <2>4. PassType'  BY <1>22 DEF Release, Forget
  <2>5. Located'  BY <1>22 DEF Release, Forget
  <2> QED  BY <2>1, <2>2, <2>3, <2>4, <2>5 DEF TypeOK
<1>23. ASSUME NEW w \in Workers, AcquireDegraded(w)
       PROVE  TypeOK' /\ Located'
  <2>1. StoreType'  BY <1>23 DEF AcquireDegraded, Fault
  <2>2. ProcType'  BY <1>23, Places DEF AcquireDegraded, Fault
  <2>3. SharedType'  BY <1>23 DEF AcquireDegraded, Fault
  <2>4. PassType'  BY <1>23 DEF AcquireDegraded, Fault
  <2>5. Located'  BY <1>23 DEF AcquireDegraded, Fault
  <2> QED  BY <2>1, <2>2, <2>3, <2>4, <2>5 DEF TypeOK
<1>24. ASSUME NEW w \in Workers, ReleaseFails(w) PROVE TypeOK' /\ Located'
  <2>1. StoreType'  BY <1>24 DEF ReleaseFails, Forget, Fault
  <2>2. ProcType'  BY <1>24, Places DEF ReleaseFails, Forget, Fault
  <2>3. SharedType'  BY <1>24 DEF ReleaseFails, Forget, Fault
  <2>4. PassType'  BY <1>24 DEF ReleaseFails, Forget, Fault
  <2>5. Located'  BY <1>24 DEF ReleaseFails, Forget, Fault
  <2> QED  BY <2>1, <2>2, <2>3, <2>4, <2>5 DEF TypeOK
<1>25. ASSUME NEW w \in Workers, CrashWorker(w) PROVE TypeOK' /\ Located'
  <2>1. StoreType'  BY <1>25 DEF CrashWorker, Forget, Fault
  <2>2. ProcType'  BY <1>25, Places DEF CrashWorker, Forget, Fault
  <2>3. SharedType'  BY <1>25 DEF CrashWorker, Forget, Fault
  <2>4. PassType'  BY <1>25 DEF CrashWorker, Forget, Fault
  <2>5. Located'  BY <1>25 DEF CrashWorker, Forget, Fault
  <2> QED  BY <2>1, <2>2, <2>3, <2>4, <2>5 DEF TypeOK
<1>26. ASSUME NEW w \in Workers, CallFails(w) PROVE TypeOK' /\ Located'
  <2>1. PICK l \in WorkerLocation : pc' = [pc EXCEPT ![w] = l]
    BY <1>26, Places DEF CallFails
  <2>2. pc'[w] = "fail" => pc[w] \in {"reserve", "record", "succeed"}
    BY <1>26 DEF CallFails
  <2>3. view' = [view EXCEPT ![w] = NoView]  BY <1>26 DEF CallFails
  <2>4. ProcType'  BY <2>1, <2>3, Places
  <2>5. retryable' \in [Workers -> BOOLEAN]  BY <1>26 DEF CallFails
  <2>6. StoreType'  BY <1>26 DEF CallFails
  <2>7. SharedType'  BY <1>26 DEF CallFails, Fault
  <2>8. PassType'  BY <1>26, <2>5 DEF CallFails
  <2>9. Located'  BY <1>26, <2>1, <2>2 DEF CallFails
  <2> QED  BY <2>1, <2>2, <2>3, <2>4, <2>5, <2>6, <2>7, <2>8, <2>9 DEF TypeOK
<1>27. ASSUME NEW a \in Approvers, NEW r \in Request, PresentToken(a, r)
       PROVE  TypeOK' /\ Located'
  <2>1. StoreType'  BY <1>27 DEF PresentToken
  <2>2. ProcType'  BY <1>27, Places DEF PresentToken
  <2>3. SharedType'  BY <1>27 DEF PresentToken
  <2>4. PassType'  BY <1>27 DEF PresentToken
  <2>5. Located'  BY <1>27 DEF PresentToken
  <2> QED  BY <2>1, <2>2, <2>3, <2>4, <2>5 DEF TypeOK
<1>28. ASSUME NEW a \in Approvers, MarkTokenUsed(a)
       PROVE  TypeOK' /\ Located'
  <2>1. PICK l \in ApproverLocation : pc' = [pc EXCEPT ![a] = l]
    BY <1>28, Places DEF MarkTokenUsed, Leave
  <2>2. view' = [view EXCEPT ![a] = NoView]  BY <1>28 DEF MarkTokenUsed
  <2>3. ProcType'  BY <2>1, <2>2, Places
  <2>4. req[a].gate \in GateIds /\ req[a].channel \in Channels
    BY DEF Request
  <2>5. [tok EXCEPT ![req[a].gate][req[a].channel] = "used"]
          \in [GateIds -> [Channels -> TokenStatus]]
    BY <2>4 DEF TokenStatus
  <2>6. tok' \in [GateIds -> [Channels -> TokenStatus]]
    BY <1>28, <2>5 DEF MarkTokenUsed
  <2>7. req' = req \/ req' = [req EXCEPT ![a] = NoRequest]
    BY <1>28 DEF MarkTokenUsed, Leave
  <2>8. StoreType'  BY <1>28, <2>6 DEF MarkTokenUsed
  <2>9. SharedType'  BY <1>28 DEF MarkTokenUsed
  <2>10. PassType'
    <3>1. req' \in [Approvers -> Request]  BY <2>7, NoRequestType
    <3>2. UNCHANGED pass  BY <1>28 DEF MarkTokenUsed
    <3> QED  BY <3>1, <3>2 DEF pass
  <2>11. Located'  BY <1>28, <2>1 DEF MarkTokenUsed
  <2> QED  BY <2>1, <2>2, <2>3, <2>4, <2>5, <2>6, <2>7, <2>8, <2>9, <2>10, <2>11 DEF TypeOK
<1>29. ASSUME NEW a \in Approvers, CheckGate(a) PROVE TypeOK' /\ Located'
  <2>1. PICK l \in ApproverLocation : pc' = [pc EXCEPT ![a] = l]
    BY <1>29, Places DEF CheckGate, Leave
  <2>2. view' = view  BY <1>29 DEF CheckGate
  <2>3. ProcType'  BY <2>1, <2>2, Places
  <2>4. req' = req \/ req' = [req EXCEPT ![a] = NoRequest]
    BY <1>29 DEF CheckGate, Leave
  <2>5. StoreType'  BY <1>29 DEF CheckGate
  <2>6. SharedType'  BY <1>29 DEF CheckGate
  <2>7. PassType'
    <3>1. req' \in [Approvers -> Request]  BY <2>4, NoRequestType
    <3>2. UNCHANGED pass  BY <1>29 DEF CheckGate
    <3> QED  BY <3>1, <3>2 DEF pass
  <2>8. Located'  BY <1>29, <2>1 DEF CheckGate
  <2> QED  BY <2>1, <2>2, <2>3, <2>4, <2>5, <2>6, <2>7, <2>8 DEF TypeOK
<1>30. ASSUME NEW a \in Approvers, SaveDecision(a)
       PROVE  TypeOK' /\ Located'
  <2>1. StoreType'  BY <1>30 DEF SaveDecision
  <2>2. ProcType'  BY <1>30, Places DEF SaveDecision
  <2>3. SharedType'  BY <1>30 DEF SaveDecision
  <2>4. PassType'  BY <1>30 DEF SaveDecision
  <2>5. Located'  BY <1>30 DEF SaveDecision
  <2> QED  BY <2>1, <2>2, <2>3, <2>4, <2>5 DEF TypeOK
<1>31. ASSUME NEW a \in Approvers, UpdateGate(a) PROVE TypeOK' /\ Located'
  <2>1. PICK s \in GateStatus : gate' = [gate EXCEPT ![req[a].gate].status = s]
    BY <1>31 DEF UpdateGate, GateStatus
  <2>2. \A h \in GateIds : [gate[h] EXCEPT !.status = s] \in GateRequest
    BY GateStatusSet
  <2>3. gate' \in [GateIds -> GateRequest]  BY <2>1, <2>2
  <2>4. StoreType'  BY <1>31, <2>3 DEF UpdateGate
  <2>5. ProcType'  BY <1>31, Places DEF UpdateGate
  <2>6. SharedType'  BY <1>31 DEF UpdateGate
  <2>7. PassType'  BY <1>31 DEF UpdateGate
  <2>8. Located'  BY <1>31 DEF UpdateGate
  <2> QED  BY <2>1, <2>2, <2>3, <2>4, <2>5, <2>6, <2>7, <2>8 DEF TypeOK
<1>32. ASSUME NEW a \in Approvers, ResumeRun(a) PROVE TypeOK' /\ Located'
  <2>1. UpdateRunStatus(a, "running", "advance", "idle")
    BY <1>32 DEF ResumeRun
  <2>2. run' \in RunStatus /\ ProcType'
    BY <2>1, ApproverRunType, Places DEF RunStatus
  <2>3. StoreType'  BY <1>32, <2>2 DEF ResumeRun
  <2>4. SharedType'  BY <1>32 DEF ResumeRun
  <2>5. PassType'  BY <1>32 DEF ResumeRun
  <2>6. Located'  BY <1>32, <2>1 DEF ResumeRun, UpdateRunStatus
  <2> QED  BY <2>1, <2>2, <2>3, <2>4, <2>5, <2>6 DEF TypeOK
<1>33. ASSUME NEW a \in Approvers, RejectRun(a) PROVE TypeOK' /\ Located'
  <2>1. UpdateRunStatus(a, "rejected", "idle", "idle")
    BY <1>33 DEF RejectRun
  <2>2. run' \in RunStatus /\ ProcType'
    BY <2>1, ApproverRunType, Places DEF RunStatus
  <2>3. StoreType'  BY <1>33, <2>2 DEF RejectRun
  <2>4. SharedType'  BY <1>33 DEF RejectRun
  <2>5. PassType'  BY <1>33 DEF RejectRun
  <2>6. Located'  BY <1>33, <2>1 DEF RejectRun, UpdateRunStatus
  <2> QED  BY <2>1, <2>2, <2>3, <2>4, <2>5, <2>6 DEF TypeOK
<1>34. ASSUME NEW a \in Approvers, AdvanceGateStep(a)
       PROVE  TypeOK' /\ Located'
  <2>1. PICK i \in 0..NSteps : step' = [step EXCEPT ![i].status = "succeeded"]
    BY <1>34 DEF AdvanceGateStep, GateRequest, Request
  <2>2. \A j \in Steps : [step[j] EXCEPT !.status = "succeeded"] \in StepState
    BY StepStatusSet DEF StepStatus
  <2>3. step' \in [Steps -> StepState]  BY <2>1, <2>2
  <2>4. StoreType'  BY <1>34, <2>3 DEF AdvanceGateStep
  <2>5. ProcType'  BY <1>34, Places DEF AdvanceGateStep, Leave
  <2>6. SharedType'  BY <1>34 DEF AdvanceGateStep
  <2>7. PassType'  BY <1>34 DEF AdvanceGateStep, Leave
  <2>8. Located'  BY <1>34 DEF AdvanceGateStep, Leave
  <2> QED  BY <2>1, <2>2, <2>3, <2>4, <2>5, <2>6, <2>7, <2>8 DEF TypeOK
<1>35. ASSUME NEW a \in Approvers, CrashApprover(a)
       PROVE  TypeOK' /\ Located'
  <2>1. StoreType'  BY <1>35 DEF CrashApprover, Leave, Fault
  <2>2. ProcType'  BY <1>35, Places DEF CrashApprover, Leave, Fault
  <2>3. SharedType'  BY <1>35 DEF CrashApprover, Leave, Fault
  <2>4. PassType'  BY <1>35 DEF CrashApprover, Leave, Fault
  <2>5. Located'  BY <1>35 DEF CrashApprover, Leave, Fault
  <2> QED  BY <2>1, <2>2, <2>3, <2>4, <2>5 DEF TypeOK
<1>36. ASSUME NEW p \in Procs, Select(p) PROVE TypeOK' /\ Located'
  <2>1. Target(p) \in RunStatus \cup StepStatus \cup TokenStatus
    BY <1>36, TargetType DEF Select
  <2>2. ProcType'  BY <1>36, <2>1 DEF Select
  <2>3. StoreType'  BY <1>36 DEF Select
  <2>4. SharedType'  BY <1>36 DEF Select
  <2>5. PassType'  BY <1>36 DEF Select
  <2>6. Located'  BY <1>36 DEF Select
  <2> QED  BY <2>1, <2>2, <2>3, <2>4, <2>5, <2>6 DEF TypeOK
<1>37. ASSUME RecoverySweep PROVE TypeOK' /\ Located'
  <2>1. StoreType'  BY <1>37 DEF RecoverySweep
  <2>2. ProcType'  BY <1>37, Places DEF RecoverySweep
  <2>3. SharedType'  BY <1>37 DEF RecoverySweep
  <2>4. PassType'  BY <1>37 DEF RecoverySweep
  <2>5. Located'  BY <1>37 DEF RecoverySweep
  <2> QED  BY <2>1, <2>2, <2>3, <2>4, <2>5 DEF TypeOK
<1>38. ASSUME LockExpires PROVE TypeOK' /\ Located'
  <2>1. StoreType'  BY <1>38 DEF LockExpires
  <2>2. ProcType'  BY <1>38, Places DEF LockExpires
  <2>3. SharedType'  BY <1>38 DEF LockExpires
  <2>4. PassType'  BY <1>38 DEF LockExpires
  <2>5. Located'  BY <1>38 DEF LockExpires
  <2> QED  BY <2>1, <2>2, <2>3, <2>4, <2>5 DEF TypeOK
<1>39. ASSUME LockExpiresEarly PROVE TypeOK' /\ Located'
  <2>1. StoreType'  BY <1>39 DEF LockExpiresEarly, Fault
  <2>2. ProcType'  BY <1>39, Places DEF LockExpiresEarly, Fault
  <2>3. SharedType'  BY <1>39 DEF LockExpiresEarly, Fault
  <2>4. PassType'  BY <1>39 DEF LockExpiresEarly, Fault
  <2>5. Located'  BY <1>39 DEF LockExpiresEarly, Fault
  <2> QED  BY <2>1, <2>2, <2>3, <2>4, <2>5 DEF TypeOK
<1>40. ASSUME NEW g \in GateIds, TokensExpire(g) PROVE TypeOK' /\ Located'
  <2>1. StoreType'  BY <1>40 DEF TokensExpire, Fault
  <2>2. ProcType'  BY <1>40, Places DEF TokensExpire, Fault
  <2>3. SharedType'  BY <1>40 DEF TokensExpire, Fault
  <2>4. PassType'  BY <1>40 DEF TokensExpire, Fault
  <2>5. Located'  BY <1>40 DEF TokensExpire, Fault
  <2> QED  BY <2>1, <2>2, <2>3, <2>4, <2>5 DEF TypeOK
<1>41. ASSUME UNCHANGED vars PROVE TypeOK' /\ Located'
  BY <1>41 DEF vars
<1> QED
  BY <1>1, <1>2, <1>3, <1>4, <1>5, <1>6, <1>7, <1>8, <1>9, <1>10, <1>11,
     <1>12, <1>13, <1>14, <1>15, <1>16, <1>17, <1>18, <1>19, <1>20, <1>21,
     <1>22, <1>23, <1>24, <1>25, <1>26, <1>27, <1>28, <1>29, <1>30, <1>31,
     <1>32, <1>33, <1>34, <1>35, <1>36, <1>37, <1>38, <1>39, <1>40, <1>41
     DEF Next, Pass, Resolve, Disturb

(* Frame facts for the steps that leave the gates alone. *)
Quiet ==
    /\ UNCHANGED <<gate, tok, decisions, req>>
    /\ \A a \in Approvers : pc'[a] = pc[a]
    /\ \A w \in Workers : pc'[w] = "tokens" =>
         pc[w] = "tokens" /\ myGate'[w] = myGate[w]

(* A step that leaves gates, tokens, decisions and approvers alone keeps
   Known. *)
LEMMA KnownQuiet == ASSUME Known, Quiet PROVE Known'
  BY DEF Known, Quiet, Requested

(* Every step of the system keeps gate requests, tokens and decisions
   together. *)
LEMMA StepKnown == TypeOK /\ Located /\ Known /\ [Next]_vars => Known'
<1> SUFFICES ASSUME TypeOK, Located, Known PROVE [Next]_vars => Known'
  OBVIOUS
<1> USE DEF TypeOK, StoreType, ProcType, PassType, Procs, Quiet, store, pass,
            world, At, Goto
<1>1. ASSUME NEW w \in Workers, Acquire(w) PROVE Quiet
  BY <1>1 DEF Acquire
<1>2. ASSUME NEW w \in Workers, LoadRun(w) PROVE Quiet
  BY <1>2 DEF LoadRun
<1>3. ASSUME NEW w \in Workers, StartRun(w) PROVE Quiet
  BY <1>3 DEF StartRun, UpdateRunStatus
<1>4. ASSUME NEW w \in Workers, GetSteps(w) PROVE Quiet
  BY <1>4 DEF GetSteps
<1>5. ASSUME NEW w \in Workers, SkipStep(w) PROVE Quiet
  BY <1>5 DEF SkipStep
<1>6. ASSUME NEW w \in Workers, LookupStep(w) PROVE Quiet
  BY <1>6 DEF LookupStep
<1>7. ASSUME NEW w \in Workers, MarkRunning(w) PROVE Quiet
  BY <1>7 DEF MarkRunning, UpdateStep
<1>8. ASSUME NEW w \in Workers, HandlerReturns(w) PROVE Quiet
  BY <1>8 DEF HandlerReturns
<1>9. ASSUME NEW w \in Workers, HandlerRaises(w) PROVE Quiet
  BY <1>9 DEF HandlerRaises
<1>10. ASSUME NEW w \in Workers, Reserve(w) PROVE Quiet
  BY <1>10 DEF Reserve
<1>11. ASSUME NEW w \in Workers, Record(w) PROVE Quiet
  BY <1>11 DEF Record
<1>12. ASSUME NEW w \in Workers, MarkSucceeded(w) PROVE Quiet
  BY <1>12 DEF MarkSucceeded, UpdateStep
<1>13. ASSUME NEW w \in Workers, MarkFailed(w) PROVE Quiet
  BY <1>13 DEF MarkFailed, UpdateStep, ParkPlace
<1>14. ASSUME NEW w \in Workers, RetryStep(w) PROVE Quiet
  BY <1>14 DEF RetryStep, UpdateStep
<1>15. ASSUME NEW w \in Workers, Compensate(w) PROVE Quiet
  BY <1>15 DEF Compensate
<1>16. ASSUME NEW w \in Workers, ParkRun(w) PROVE Quiet
  BY <1>16 DEF ParkRun, UpdateRunStatus
<1>17. ASSUME NEW w \in Workers, FinishLoop(w) PROVE Quiet
  BY <1>17 DEF FinishLoop
<1>18. ASSUME NEW w \in Workers, FinishRun(w) PROVE Quiet
  BY <1>18 DEF FinishRun, UpdateRunStatus
<1>19. ASSUME NEW w \in Workers, AwaitApproval(w) PROVE Quiet
  BY <1>19 DEF AwaitApproval, UpdateRunStatus
<1>20. ASSUME NEW w \in Workers, Release(w) PROVE Quiet
  BY <1>20 DEF Release, Forget
<1>21. ASSUME NEW w \in Workers, AcquireDegraded(w) PROVE Quiet
  BY <1>21 DEF AcquireDegraded
<1>22. ASSUME NEW w \in Workers, ReleaseFails(w) PROVE Quiet
  BY <1>22 DEF ReleaseFails, Forget
<1>23. ASSUME NEW w \in Workers, CrashWorker(w) PROVE Quiet
  BY <1>23 DEF CrashWorker, Forget
<1>24. ASSUME NEW w \in Workers, CallFails(w) PROVE Quiet
  BY <1>24 DEF CallFails
<1>25. ASSUME RecoverySweep PROVE Quiet
  BY <1>25 DEF RecoverySweep
<1>26. ASSUME LockExpires PROVE Quiet
  BY <1>26 DEF LockExpires
<1>27. ASSUME LockExpiresEarly PROVE Quiet
  BY <1>27 DEF LockExpiresEarly
<1>28. ASSUME NEW g \in GateIds, TokensExpire(g) PROVE Quiet
  BY <1>28 DEF TokensExpire
<1>29. ASSUME NEW p \in Procs, Select(p) PROVE Quiet
  BY <1>29 DEF Select
<1>30. ASSUME NEW w \in Workers, CreateGate(w) PROVE Known'
  BY <1>30 DEF CreateGate, NewGate, Known, Requested
<1>31. ASSUME NEW w \in Workers, IssueToken(w) PROVE Known'
  BY <1>31 DEF IssueToken, Known, Requested
<1>32. ASSUME NEW a \in Approvers, NEW r \in Request, PresentToken(a, r)
       PROVE  Known'
  BY <1>32 DEF PresentToken, Known, Requested, Request, Deciding
<1>33. ASSUME NEW a \in Approvers, MarkTokenUsed(a) PROVE Known'
  <2>1. CASE Seen(a) = "fresh"
    BY <1>33, <2>1 DEF MarkTokenUsed, Known, Requested, Deciding, Request
  <2>2. CASE Seen(a) # "fresh"
    BY <1>33, <2>2 DEF MarkTokenUsed, Known, Requested, Deciding, Leave
  <2> QED  BY <2>1, <2>2
<1>34. ASSUME NEW a \in Approvers, CheckGate(a) PROVE Known'
  BY <1>34 DEF CheckGate, Known, Requested, Deciding, Request, Leave
<1>35. ASSUME NEW a \in Approvers, SaveDecision(a) PROVE Known'
  BY <1>35 DEF SaveDecision, Known, Requested, Deciding, Request
<1>36. ASSUME NEW a \in Approvers, UpdateGate(a) PROVE Known'
  BY <1>36 DEF UpdateGate, Known, Requested, Deciding, Request
<1>37. ASSUME NEW a \in Approvers, ResumeRun(a) PROVE Known'
  BY <1>37 DEF ResumeRun, Known, Requested, Deciding, Request, UpdateRunStatus
<1>38. ASSUME NEW a \in Approvers, RejectRun(a) PROVE Known'
  BY <1>38 DEF RejectRun, Known, Requested, Deciding, Request, UpdateRunStatus
<1>39. ASSUME NEW a \in Approvers, AdvanceGateStep(a) PROVE Known'
  BY <1>39 DEF AdvanceGateStep, Known, Requested, Deciding, Request, Leave
<1>40. ASSUME NEW a \in Approvers, CrashApprover(a) PROVE Known'
  BY <1>40 DEF CrashApprover, Known, Requested, Deciding, Request, Leave
<1>41. ASSUME UNCHANGED vars PROVE Known'
  BY <1>41 DEF vars, Known, Requested
<1> QED
  BY KnownQuiet, <1>1, <1>2, <1>3, <1>4, <1>5, <1>6, <1>7, <1>8, <1>9, <1>10,
     <1>11, <1>12, <1>13, <1>14, <1>15, <1>16, <1>17, <1>18, <1>19,
     <1>20, <1>21, <1>22, <1>23, <1>24, <1>25, <1>26, <1>27, <1>28,
     <1>29, <1>30, <1>31, <1>32, <1>33, <1>34, <1>35, <1>36, <1>37,
     <1>38, <1>39, <1>40, <1>41
     DEF Next, Pass, Resolve, Disturb

(* What is decided stays decided and what has happened stays happened. *)
Steady ==
    /\ \A g \in GateIds : Requested(g) => gate'[g].step = gate[g].step
    /\ decisions \subseteq decisions'
    /\ effects \subseteq effects'
    /\ lockLost => lockLost'

(* No step of the system takes back an effect, a decision or the step a
   gate request is for. *)
LEMMA StepSteady == TypeOK /\ [Next]_vars => Steady
<1> SUFFICES ASSUME TypeOK PROVE [Next]_vars => Steady
  OBVIOUS
<1> USE DEF TypeOK, StoreType, SharedType, Steady, store, world
<1>1. ASSUME NEW w \in Workers, Acquire(w) PROVE Steady
  BY <1>1 DEF Acquire
<1>2. ASSUME NEW w \in Workers, LoadRun(w) PROVE Steady
  BY <1>2 DEF LoadRun
<1>3. ASSUME NEW w \in Workers, StartRun(w) PROVE Steady
  BY <1>3 DEF StartRun
<1>4. ASSUME NEW w \in Workers, GetSteps(w) PROVE Steady
  BY <1>4 DEF GetSteps
<1>5. ASSUME NEW w \in Workers, SkipStep(w) PROVE Steady
  BY <1>5 DEF SkipStep
<1>6. ASSUME NEW w \in Workers, LookupStep(w) PROVE Steady
  BY <1>6 DEF LookupStep
<1>7. ASSUME NEW w \in Workers, MarkRunning(w) PROVE Steady
  BY <1>7 DEF MarkRunning
<1>8. ASSUME NEW w \in Workers, HandlerReturns(w) PROVE Steady
  BY <1>8 DEF HandlerReturns, Effect, SharedType
<1>9. ASSUME NEW w \in Workers, HandlerRaises(w) PROVE Steady
  BY <1>9 DEF HandlerRaises, Effect, SharedType
<1>10. ASSUME NEW w \in Workers, Reserve(w) PROVE Steady
  BY <1>10 DEF Reserve
<1>11. ASSUME NEW w \in Workers, Record(w) PROVE Steady
  BY <1>11 DEF Record
<1>12. ASSUME NEW w \in Workers, MarkSucceeded(w) PROVE Steady
  BY <1>12 DEF MarkSucceeded
<1>13. ASSUME NEW w \in Workers, MarkFailed(w) PROVE Steady
  BY <1>13 DEF MarkFailed
<1>14. ASSUME NEW w \in Workers, RetryStep(w) PROVE Steady
  BY <1>14 DEF RetryStep
<1>15. ASSUME NEW w \in Workers, Compensate(w) PROVE Steady
  BY <1>15 DEF Compensate
<1>16. ASSUME NEW w \in Workers, ParkRun(w) PROVE Steady
  BY <1>16 DEF ParkRun
<1>17. ASSUME NEW w \in Workers, FinishLoop(w) PROVE Steady
  BY <1>17 DEF FinishLoop
<1>18. ASSUME NEW w \in Workers, FinishRun(w) PROVE Steady
  BY <1>18 DEF FinishRun
<1>19. ASSUME NEW w \in Workers, AwaitApproval(w) PROVE Steady
  BY <1>19 DEF AwaitApproval
<1>20. ASSUME NEW w \in Workers, Release(w) PROVE Steady
  BY <1>20 DEF Release
<1>21. ASSUME NEW w \in Workers, AcquireDegraded(w) PROVE Steady
  BY <1>21 DEF AcquireDegraded
<1>22. ASSUME NEW w \in Workers, ReleaseFails(w) PROVE Steady
  BY <1>22 DEF ReleaseFails
<1>23. ASSUME NEW w \in Workers, CrashWorker(w) PROVE Steady
  BY <1>23 DEF CrashWorker
<1>24. ASSUME NEW w \in Workers, CallFails(w) PROVE Steady
  BY <1>24 DEF CallFails
<1>25. ASSUME NEW w \in Workers, CreateGate(w) PROVE Steady
  BY <1>25 DEF CreateGate, NewGate, Requested
<1>26. ASSUME NEW w \in Workers, IssueToken(w) PROVE Steady
  BY <1>26 DEF IssueToken
<1>27. ASSUME NEW a \in Approvers, NEW r \in Request, PresentToken(a, r)
       PROVE  Steady
  BY <1>27 DEF PresentToken
<1>28. ASSUME NEW a \in Approvers, MarkTokenUsed(a) PROVE Steady
  BY <1>28 DEF MarkTokenUsed
<1>29. ASSUME NEW a \in Approvers, CheckGate(a) PROVE Steady
  BY <1>29 DEF CheckGate
<1>30. ASSUME NEW a \in Approvers, SaveDecision(a) PROVE Steady
  BY <1>30 DEF SaveDecision
<1>31. ASSUME NEW a \in Approvers, UpdateGate(a) PROVE Steady
  BY <1>31 DEF UpdateGate
<1>32. ASSUME NEW a \in Approvers, ResumeRun(a) PROVE Steady
  BY <1>32 DEF ResumeRun
<1>33. ASSUME NEW a \in Approvers, RejectRun(a) PROVE Steady
  BY <1>33 DEF RejectRun
<1>34. ASSUME NEW a \in Approvers, AdvanceGateStep(a) PROVE Steady
  BY <1>34 DEF AdvanceGateStep
<1>35. ASSUME NEW a \in Approvers, CrashApprover(a) PROVE Steady
  BY <1>35 DEF CrashApprover
<1>36. ASSUME NEW p \in Procs, Select(p) PROVE Steady
  BY <1>36 DEF Select
<1>37. ASSUME RecoverySweep PROVE Steady
  BY <1>37 DEF RecoverySweep
<1>38. ASSUME LockExpires PROVE Steady
  BY <1>38 DEF LockExpires
<1>39. ASSUME LockExpiresEarly PROVE Steady
  BY <1>39 DEF LockExpiresEarly
<1>40. ASSUME NEW g \in GateIds, TokensExpire(g) PROVE Steady
  BY <1>40 DEF TokensExpire
<1>41. ASSUME UNCHANGED vars PROVE Steady
  BY <1>41 DEF vars
<1> QED
  BY <1>1, <1>2, <1>3, <1>4, <1>5, <1>6, <1>7, <1>8, <1>9, <1>10,
     <1>11, <1>12, <1>13, <1>14, <1>15, <1>16, <1>17, <1>18, <1>19,
     <1>20, <1>21, <1>22, <1>23, <1>24, <1>25, <1>26, <1>27, <1>28,
     <1>29, <1>30, <1>31, <1>32, <1>33, <1>34, <1>35, <1>36, <1>37,
     <1>38, <1>39, <1>40, <1>41
     DEF Next, Pass, Resolve, Disturb

(* A step that is behind the run stays behind it. *)
LEMMA PassedStays ==
  ASSUME TypeOK, TypeOK', Known, Steady, NEW i \in Steps, Passed(i)
  PROVE  Passed(i)'
<1>1. CASE i \in GateSteps
  <2>1. PICK d \in decisions : /\ d.decision = "approve"
                               /\ d.actor \in Authorized
                               /\ gate[d.gate].step = i
    BY <1>1 DEF Passed, Approved
  <2>2. d \in Request /\ Requested(d.gate)
    BY DEF TypeOK, StoreType, Known
  <2>3. d \in decisions' /\ gate'[d.gate].step = i
    BY <2>1, <2>2 DEF Steady, Request
  <2> QED
    BY <1>1, <2>1, <2>3 DEF Passed, Approved
<1>2. CASE i \notin GateSteps
  BY <1>2 DEF Passed, Steady, TypeOK, SharedType
<1> QED
  BY <1>1, <1>2

(* What a write of a step row can make of a row (update_step).             *)
LEMMA UpdateStepRow ==
  ASSUME TypeOK, NEW w \in Workers, idx[w] \in Steps, NEW new, NEW good, NEW bad,
         UpdateStep(w, new, good, bad), NEW i \in Steps
  PROVE  step'[i] = step[i] \/ (i = idx[w] /\ step'[i] = new)
  BY DEF UpdateStep, TypeOK, StoreType

(* No row becomes done by the writes of engine._execute other than the one *)
(* that follows the effect.                                                *)
LEMMA RunningRow ==
  ASSUME TypeOK, Located, NEW w \in Workers, MarkRunning(w)
  PROVE  \A i \in Steps : step'[i].status \in DoneStatus => step'[i] = step[i]
<1>1. idx[w] \in Steps  BY DEF MarkRunning, Located, StepWrites, At
<1>2. Mine(w) \in StepState  BY <1>1 DEF Mine, TypeOK, PassType
<1> DEFINE new == [Mine(w) EXCEPT !.status = "running"]
<1>3. new.status = "running"  BY <1>2 DEF StepState
<1>4. UpdateStep(w, new, "handler", "release")  BY DEF MarkRunning
<1> HIDE DEF new
<1>5. TAKE i \in Steps
<1>6. step'[i] = step[i] \/ step'[i] = new  BY <1>1, <1>4, UpdateStepRow
<1> QED  BY <1>3, <1>6 DEF DoneStatus

(* Writing FAILED makes no row and no copy done. *)
LEMMA FailedRow ==
  ASSUME TypeOK, Located, NEW w \in Workers, MarkFailed(w)
  PROVE  \A i \in Steps : step'[i].status \in DoneStatus => step'[i] = step[i]
<1>1. idx[w] \in Steps  BY DEF MarkFailed, Located, StepWrites, At
<1> DEFINE new == [status |-> "failed", attempt |-> Mine(w).attempt + 1]
           good == IF retryable[w] /\ Mine(w).attempt + 1 < MaxAttempts
                     THEN "retry" ELSE ParkPlace(w)
<1>2. new.status = "failed"  OBVIOUS
<1>3. UpdateStep(w, new, good, "release")  BY DEF MarkFailed
<1> HIDE DEF new, good
<1>4. TAKE i \in Steps
<1>5. step'[i] = step[i] \/ step'[i] = new  BY <1>1, <1>3, UpdateStepRow
<1> QED  BY <1>2, <1>5 DEF DoneStatus

(* Writing PENDING makes no row and no copy done. *)
LEMMA PendingRow ==
  ASSUME TypeOK, Located, NEW w \in Workers, RetryStep(w)
  PROVE  \A i \in Steps : step'[i].status \in DoneStatus => step'[i] = step[i]
<1>1. idx[w] \in Steps  BY DEF RetryStep, Located, StepWrites, At
<1>2. Mine(w) \in StepState  BY <1>1 DEF Mine, TypeOK, PassType
<1> DEFINE new == [Mine(w) EXCEPT !.status = "pending"]
<1>3. new.status = "pending"  BY <1>2 DEF StepState
<1>4. UpdateStep(w, new, "release", "release")  BY DEF RetryStep
<1> HIDE DEF new
<1>5. TAKE i \in Steps
<1>6. step'[i] = step[i] \/ step'[i] = new  BY <1>1, <1>4, UpdateStepRow
<1> QED  BY <1>3, <1>6 DEF DoneStatus

(* Only the step a pass has just handled becomes done, and it has had its  *)
(* effect.                                                                 *)
LEMMA SucceededRow ==
  ASSUME TypeOK, Located, HandledSound, NEW w \in Workers, MarkSucceeded(w)
  PROVE  /\ idx[w] \in Steps
         /\ Passed(idx[w])
         /\ \A i \in Steps : i # idx[w] => step'[i] = step[i]
<1>1. idx[w] \in Steps \ GateSteps
  BY DEF MarkSucceeded, Located, StepWrites, At
<1>2. Passed(idx[w])
  BY <1>1 DEF MarkSucceeded, HandledSound, Passed, At
<1>3. \A i \in Steps : i # idx[w] => step'[i] = step[i]
  BY <1>1 DEF MarkSucceeded, UpdateStep, TypeOK, StoreType
<1> QED  BY <1>1, <1>2, <1>3

(* A recorded key lets a pass go by a step only when that step has had its *)
(* effect.                                                                 *)
LEMMA LookupPassed ==
  ASSUME TypeOK, KeysSound, NEW w \in Workers, LookupStep(w),
         idem[idx[w]] = "recorded"
  PROVE  /\ idx[w] \in Steps
         /\ Passed(idx[w])
         /\ idx' = [idx EXCEPT ![w] = idx[w] + 1]
<1>1. idx[w] \in Steps \ GateSteps
  BY DEF LookupStep, AtStep, Steps, TypeOK, PassType
<1>2. Passed(idx[w])  BY <1>1 DEF KeysSound, Passed
<1> QED  BY <1>1, <1>2 DEF LookupStep

(* advance_gate_step marks the step of a gate that was approved.           *)
LEMMA AdvancePassed ==
  ASSUME TypeOK, Known, NEW a \in Approvers, AdvanceGateStep(a)
  PROVE  /\ gate[req[a].gate].step \in Steps
         /\ Passed(gate[req[a].gate].step)
         /\ \A i \in Steps : i # gate[req[a].gate].step => step'[i] = step[i]
<1>1. /\ req[a] \in decisions
      /\ req[a].decision = "approve"
      /\ req[a].actor \in Authorized
      /\ req[a].gate \in GateIds
      /\ Requested(req[a].gate)
  BY DEF AdvanceGateStep, Known, Deciding, At, TypeOK, PassType, Request
<1>2. gate[req[a].gate].step \in GateSteps  BY <1>1 DEF Known
<1>3. Passed(gate[req[a].gate].step)  BY <1>1, <1>2 DEF Passed, Approved
<1>4. \A i \in Steps : i # gate[req[a].gate].step => step'[i] = step[i]
  BY DEF AdvanceGateStep, TypeOK, StoreType
<1> QED  BY <1>2, <1>3, <1>4 DEF Steps

(* A pass that moves on by one step past one that is behind the run.       *)
LEMMA MoveOn ==
  ASSUME TypeOK, PlacesSound, \A i \in Steps : Passed(i) => Passed(i)',
         NEW w \in Workers, idx[w] \in Steps, Passed(idx[w]),
         idx' = [idx EXCEPT ![w] = idx[w] + 1]
  PROVE  PlacesSound'
<1>1. SUFFICES ASSUME NEW v \in Workers, NEW j \in Steps, j < idx'[v]
               PROVE  Passed(j)'
  BY DEF PlacesSound
<1>2. CASE v = w
  <2>1. j < idx[w] \/ j = idx[w]
    BY <1>1, <1>2 DEF TypeOK, PassType, Steps
  <2> QED  BY <2>1 DEF PlacesSound
<1>3. CASE v # w
  BY <1>1, <1>3 DEF TypeOK, PassType, PlacesSound
<1> QED  BY <1>2, <1>3

(* Every step of the system keeps Sound: one case per action. *)
LEMMA StepSound ==
  TypeOK /\ TypeOK' /\ Located /\ Known /\ Sound /\ Steady /\ [Next]_vars
    => Sound'
<1> SUFFICES ASSUME TypeOK, TypeOK', Located, Known, Sound, Steady
             PROVE  [Next]_vars => Sound'
  OBVIOUS
<1>1. \A i \in Steps : Passed(i) => Passed(i)'
  BY PassedStays
<1>2. \A i \in Steps \ GateSteps : i \in effects' => Passed(i)'
  BY DEF Passed
<1> USE <1>1, <1>2
    DEF TypeOK, StoreType, ProcType, SharedType, PassType, Procs, Located,
        Sound, RowsSound, KeysSound, CopiesSound, PlacesSound, HandledSound,
        OrderSound, EndSound, DoneStatus, store, pass, world, At, Goto
<1>3. ASSUME NEW w \in Workers, Acquire(w) PROVE Sound'
  BY <1>3 DEF Acquire
<1>4. ASSUME NEW w \in Workers, LoadRun(w) PROVE Sound'
  BY <1>4 DEF LoadRun
<1>5. ASSUME NEW w \in Workers, StartRun(w) PROVE Sound'
  BY <1>5 DEF StartRun, UpdateRunStatus
<1>6. ASSUME NEW w \in Workers, GetSteps(w) PROVE Sound'
  <2>1. RowsSound'  BY <1>6 DEF GetSteps
  <2>2. KeysSound'  BY <1>6 DEF GetSteps
  <2>3. CopiesSound'  BY <1>6 DEF GetSteps
  <2>4. PlacesSound'  BY <1>6 DEF GetSteps, Steps
  <2>5. HandledSound'  BY <1>6 DEF GetSteps
  <2>6. OrderSound'  BY <1>6 DEF GetSteps
  <2>7. EndSound'  BY <1>6 DEF GetSteps
  <2> QED  BY <2>1, <2>2, <2>3, <2>4, <2>5, <2>6, <2>7
<1>7. ASSUME NEW w \in Workers, SkipStep(w) PROVE Sound'
  <2>1. RowsSound'  BY <1>7 DEF SkipStep, AtStep, Mine
  <2>2. KeysSound'  BY <1>7 DEF SkipStep, AtStep, Mine
  <2>3. CopiesSound'  BY <1>7 DEF SkipStep, AtStep, Mine
  <2>4. PlacesSound'  BY <1>7 DEF SkipStep, AtStep, Mine, Steps
  <2>5. HandledSound'  BY <1>7 DEF SkipStep, AtStep, Mine
  <2>6. OrderSound'  BY <1>7 DEF SkipStep, AtStep, Mine
  <2>7. EndSound'  BY <1>7 DEF SkipStep, AtStep, Mine
  <2> QED  BY <2>1, <2>2, <2>3, <2>4, <2>5, <2>6, <2>7
<1>8. ASSUME NEW w \in Workers, LookupStep(w) PROVE Sound'
  <2>1. RowsSound'  BY <1>8 DEF LookupStep, AtStep
  <2>2. KeysSound'  BY <1>8 DEF LookupStep, AtStep
  <2>3. CopiesSound'  BY <1>8 DEF LookupStep, AtStep
  <2>4. PlacesSound'
    <3>1. CASE idem[idx[w]] = "recorded"
      BY ONLY <1>1, <1>8, <3>1, TypeOK, Sound, LookupPassed, MoveOn DEF Sound
    <3>2. CASE idem[idx[w]] # "recorded"
      BY <1>8, <3>2 DEF LookupStep
    <3> QED  BY <3>1, <3>2
  <2>5. HandledSound'
    <3>1. CASE idem[idx[w]] = "recorded"
      <4>1. pc' = pc /\ effects' = effects /\ pc[w] = "loop"
        BY ONLY <1>8, <3>1 DEF LookupStep, AtStep, At, world
      <4>2. \A v \in Workers : v # w => idx'[v] = idx[v]
        BY <1>8, <3>1 DEF LookupStep
      <4> QED  BY <4>1, <4>2
    <3>2. CASE idem[idx[w]] # "recorded"
      BY <1>8, <3>2 DEF LookupStep
    <3> QED  BY <3>1, <3>2
  <2>6. OrderSound'  BY <1>8 DEF LookupStep, AtStep
  <2>7. EndSound'  BY <1>8 DEF LookupStep, AtStep
  <2> QED  BY <2>1, <2>2, <2>3, <2>4, <2>5, <2>6, <2>7
<1>9. ASSUME NEW w \in Workers, MarkRunning(w) PROVE Sound'
  <2>1. RowsSound'
    <3>1. \A i \in Steps : step'[i].status \in DoneStatus => step'[i] = step[i]
      BY ONLY <1>9, TypeOK, Located, RunningRow
    <3> QED  BY ONLY <1>1, <3>1, Sound DEF Sound, RowsSound
  <2>2. KeysSound'  BY <1>9 DEF MarkRunning, UpdateStep, Mine, StepWrites
  <2>3. CopiesSound'  BY <1>9 DEF MarkRunning, UpdateStep, Mine, StepWrites
  <2>4. PlacesSound'  BY <1>9 DEF MarkRunning, UpdateStep, Mine, StepWrites
  <2>5. HandledSound'  BY <1>9 DEF MarkRunning, UpdateStep, Mine, StepWrites
  <2>6. OrderSound'  BY <1>9 DEF MarkRunning, UpdateStep, Mine, StepWrites
  <2>7. EndSound'  BY <1>9 DEF MarkRunning, UpdateStep, Mine, StepWrites
  <2> QED  BY <2>1, <2>2, <2>3, <2>4, <2>5, <2>6, <2>7
<1>10. ASSUME NEW w \in Workers, HandlerReturns(w) PROVE Sound'
  BY <1>10 DEF HandlerReturns, Effect
<1>11. ASSUME NEW w \in Workers, HandlerRaises(w) PROVE Sound'
  <2>1. CASE Effect(w)  BY <1>11, <2>1 DEF HandlerRaises, Effect
  <2>2. CASE UNCHANGED <<effects, unreported>>  BY <1>11, <2>2 DEF HandlerRaises
  <2> QED  BY <1>11, <2>1, <2>2 DEF HandlerRaises
<1>12. ASSUME NEW w \in Workers, Reserve(w) PROVE Sound'
  BY <1>12 DEF Reserve
<1>13. ASSUME NEW w \in Workers, Record(w) PROVE Sound'
  BY <1>13 DEF Record
<1>14. ASSUME NEW w \in Workers, MarkSucceeded(w) PROVE Sound'
  <2>0. /\ idx[w] \in Steps
        /\ Passed(idx[w])
        /\ \A i \in Steps : i # idx[w] => step'[i] = step[i]
    BY ONLY <1>14, TypeOK, Located, Sound, SucceededRow DEF Sound
  <2>1. RowsSound'
    BY ONLY <1>1, <2>0, Sound DEF Sound, RowsSound
  <2>2. KeysSound'  BY <1>14 DEF MarkSucceeded, UpdateStep, Mine, StepWrites
  <2>3. CopiesSound'  BY <1>14 DEF MarkSucceeded, UpdateStep, Mine, StepWrites
  <2>4. PlacesSound'
    <3>1. idx' = idx \/ idx' = [idx EXCEPT ![w] = idx[w] + 1]
      BY <1>14 DEF MarkSucceeded
    <3>2. CASE idx' = idx  BY <3>2
    <3>3. CASE idx' = [idx EXCEPT ![w] = idx[w] + 1]
      BY ONLY <1>1, <2>0, <3>3, TypeOK, Sound, MoveOn DEF Sound
    <3> QED  BY <3>1, <3>2, <3>3
  <2>5. HandledSound'  BY <1>14 DEF MarkSucceeded, UpdateStep, Mine, StepWrites
  <2>6. OrderSound'  BY <1>14 DEF MarkSucceeded, UpdateStep, Mine, StepWrites
  <2>7. EndSound'  BY <1>14 DEF MarkSucceeded, UpdateStep, Mine, StepWrites
  <2> QED  BY <2>1, <2>2, <2>3, <2>4, <2>5, <2>6, <2>7
<1>15. ASSUME NEW w \in Workers, MarkFailed(w) PROVE Sound'
  <2>1. RowsSound'
    <3>1. \A i \in Steps : step'[i].status \in DoneStatus => step'[i] = step[i]
      BY ONLY <1>15, TypeOK, Located, FailedRow
    <3> QED  BY ONLY <1>1, <3>1, Sound DEF Sound, RowsSound
  <2>2. KeysSound'  BY <1>15 DEF MarkFailed, UpdateStep, Mine, StepWrites
  <2>3. CopiesSound'  BY <1>15 DEF MarkFailed, UpdateStep, Mine, StepWrites
  <2>4. PlacesSound'  BY <1>15 DEF MarkFailed, UpdateStep, Mine, StepWrites
  <2>5. HandledSound'  BY <1>15 DEF MarkFailed, UpdateStep, Mine, StepWrites, ParkPlace
  <2>6. OrderSound'  BY <1>15 DEF MarkFailed, UpdateStep, Mine, StepWrites
  <2>7. EndSound'  BY <1>15 DEF MarkFailed, UpdateStep, Mine, StepWrites
  <2> QED  BY <2>1, <2>2, <2>3, <2>4, <2>5, <2>6, <2>7
<1>16. ASSUME NEW w \in Workers, RetryStep(w) PROVE Sound'
  <2>1. RowsSound'
    <3>1. \A i \in Steps : step'[i].status \in DoneStatus => step'[i] = step[i]
      BY ONLY <1>16, TypeOK, Located, PendingRow
    <3> QED  BY ONLY <1>1, <3>1, Sound DEF Sound, RowsSound
  <2>2. KeysSound'  BY <1>16 DEF RetryStep, UpdateStep, Mine, StepWrites
  <2>3. CopiesSound'  BY <1>16 DEF RetryStep, UpdateStep, Mine, StepWrites
  <2>4. PlacesSound'  BY <1>16 DEF RetryStep, UpdateStep, Mine, StepWrites
  <2>5. HandledSound'  BY <1>16 DEF RetryStep, UpdateStep, Mine, StepWrites
  <2>6. OrderSound'  BY <1>16 DEF RetryStep, UpdateStep, Mine, StepWrites
  <2>7. EndSound'  BY <1>16 DEF RetryStep, UpdateStep, Mine, StepWrites
  <2> QED  BY <2>1, <2>2, <2>3, <2>4, <2>5, <2>6, <2>7
<1>17. ASSUME NEW w \in Workers, Compensate(w) PROVE Sound'
  BY <1>17 DEF Compensate
<1>18. ASSUME NEW w \in Workers, ParkRun(w) PROVE Sound'
  BY <1>18 DEF ParkRun, UpdateRunStatus
<1>19. ASSUME NEW w \in Workers, FinishLoop(w) PROVE Sound'
  BY <1>19 DEF FinishLoop
<1>20. ASSUME NEW w \in Workers, FinishRun(w) PROVE Sound'
  <2>1. RowsSound'  BY <1>20 DEF FinishRun, UpdateRunStatus
  <2>2. KeysSound'  BY <1>20 DEF FinishRun, UpdateRunStatus
  <2>3. CopiesSound'  BY <1>20 DEF FinishRun, UpdateRunStatus
  <2>4. PlacesSound'  BY <1>20 DEF FinishRun, UpdateRunStatus
  <2>5. HandledSound'  BY <1>20 DEF FinishRun, UpdateRunStatus
  <2>6. OrderSound'  BY <1>20 DEF FinishRun, UpdateRunStatus
  <2>7. EndSound'  BY <1>20 DEF FinishRun, UpdateRunStatus, Steps
  <2> QED  BY <2>1, <2>2, <2>3, <2>4, <2>5, <2>6, <2>7
<1>21. ASSUME NEW w \in Workers, AwaitApproval(w) PROVE Sound'
  BY <1>21 DEF AwaitApproval, UpdateRunStatus
<1>22. ASSUME NEW w \in Workers, Release(w) PROVE Sound'
  <2>1. RowsSound'  BY <1>22 DEF Release, Forget, NewSteps, NewStep
  <2>2. KeysSound'  BY <1>22 DEF Release, Forget, NewSteps, NewStep
  <2>3. CopiesSound'  BY <1>22 DEF Release, Forget, NewSteps, NewStep
  <2>4. PlacesSound'  BY <1>22 DEF Release, Forget, NewSteps, NewStep, Steps
  <2>5. HandledSound'  BY <1>22 DEF Release, Forget, NewSteps, NewStep
  <2>6. OrderSound'  BY <1>22 DEF Release, Forget, NewSteps, NewStep
  <2>7. EndSound'  BY <1>22 DEF Release, Forget, NewSteps, NewStep
  <2> QED  BY <2>1, <2>2, <2>3, <2>4, <2>5, <2>6, <2>7
<1>23. ASSUME NEW w \in Workers, AcquireDegraded(w) PROVE Sound'
  BY <1>23 DEF AcquireDegraded
<1>24. ASSUME NEW w \in Workers, ReleaseFails(w) PROVE Sound'
  <2>1. RowsSound'  BY <1>24 DEF ReleaseFails, Forget, NewSteps, NewStep
  <2>2. KeysSound'  BY <1>24 DEF ReleaseFails, Forget, NewSteps, NewStep
  <2>3. CopiesSound'  BY <1>24 DEF ReleaseFails, Forget, NewSteps, NewStep
  <2>4. PlacesSound'  BY <1>24 DEF ReleaseFails, Forget, NewSteps, NewStep, Steps
  <2>5. HandledSound'  BY <1>24 DEF ReleaseFails, Forget, NewSteps, NewStep
  <2>6. OrderSound'  BY <1>24 DEF ReleaseFails, Forget, NewSteps, NewStep
  <2>7. EndSound'  BY <1>24 DEF ReleaseFails, Forget, NewSteps, NewStep
  <2> QED  BY <2>1, <2>2, <2>3, <2>4, <2>5, <2>6, <2>7
<1>25. ASSUME NEW w \in Workers, CrashWorker(w) PROVE Sound'
  <2>1. RowsSound'  BY <1>25 DEF CrashWorker, Forget, NewSteps, NewStep
  <2>2. KeysSound'  BY <1>25 DEF CrashWorker, Forget, NewSteps, NewStep
  <2>3. CopiesSound'  BY <1>25 DEF CrashWorker, Forget, NewSteps, NewStep
  <2>4. PlacesSound'  BY <1>25 DEF CrashWorker, Forget, NewSteps, NewStep, Steps
  <2>5. HandledSound'  BY <1>25 DEF CrashWorker, Forget, NewSteps, NewStep
  <2>6. OrderSound'  BY <1>25 DEF CrashWorker, Forget, NewSteps, NewStep
  <2>7. EndSound'  BY <1>25 DEF CrashWorker, Forget, NewSteps, NewStep
  <2> QED  BY <2>1, <2>2, <2>3, <2>4, <2>5, <2>6, <2>7
<1>26. ASSUME NEW w \in Workers, CallFails(w) PROVE Sound'
  BY <1>26 DEF CallFails
<1>27. ASSUME NEW w \in Workers, CreateGate(w) PROVE Sound'
  BY <1>27 DEF CreateGate, AtStep
<1>28. ASSUME NEW w \in Workers, IssueToken(w) PROVE Sound'
  BY <1>28 DEF IssueToken
<1>29. ASSUME NEW a \in Approvers, NEW r \in Request, PresentToken(a, r)
       PROVE  Sound'
  BY <1>29 DEF PresentToken
<1>30. ASSUME NEW a \in Approvers, MarkTokenUsed(a) PROVE Sound'
  BY <1>30 DEF MarkTokenUsed, Leave
<1>31. ASSUME NEW a \in Approvers, CheckGate(a) PROVE Sound'
  BY <1>31 DEF CheckGate, Leave
<1>32. ASSUME NEW a \in Approvers, SaveDecision(a) PROVE Sound'
  BY <1>32 DEF SaveDecision
<1>33. ASSUME NEW a \in Approvers, UpdateGate(a) PROVE Sound'
  BY <1>33 DEF UpdateGate
<1>34. ASSUME NEW a \in Approvers, ResumeRun(a) PROVE Sound'
  BY <1>34 DEF ResumeRun, UpdateRunStatus
<1>35. ASSUME NEW a \in Approvers, RejectRun(a) PROVE Sound'
  BY <1>35 DEF RejectRun, UpdateRunStatus
<1>36. ASSUME NEW a \in Approvers, AdvanceGateStep(a) PROVE Sound'
  <2>1. RowsSound'
    <3>1. /\ gate[req[a].gate].step \in Steps
          /\ Passed(gate[req[a].gate].step)
          /\ \A i \in Steps : i # gate[req[a].gate].step => step'[i] = step[i]
      BY ONLY <1>36, TypeOK, Known, AdvancePassed
    <3> QED  BY ONLY <1>1, <3>1, Sound DEF Sound, RowsSound
  <2>2. KeysSound'  BY <1>36 DEF AdvanceGateStep, Leave
  <2>3. CopiesSound'  BY <1>36 DEF AdvanceGateStep, Leave
  <2>4. PlacesSound'  BY <1>36 DEF AdvanceGateStep, Leave
  <2>5. HandledSound'  BY <1>36 DEF AdvanceGateStep, Leave
  <2>6. OrderSound'  BY <1>36 DEF AdvanceGateStep, Leave
  <2>7. EndSound'  BY <1>36 DEF AdvanceGateStep, Leave
  <2> QED  BY <2>1, <2>2, <2>3, <2>4, <2>5, <2>6, <2>7
<1>37. ASSUME NEW a \in Approvers, CrashApprover(a) PROVE Sound'
  BY <1>37 DEF CrashApprover, Leave
<1>38. ASSUME NEW p \in Procs, Select(p) PROVE Sound'
  BY <1>38 DEF Select
<1>39. ASSUME RecoverySweep PROVE Sound'
  BY <1>39 DEF RecoverySweep
<1>40. ASSUME LockExpires PROVE Sound'
  BY <1>40 DEF LockExpires
<1>41. ASSUME LockExpiresEarly PROVE Sound'
  BY <1>41 DEF LockExpiresEarly
<1>42. ASSUME NEW g \in GateIds, TokensExpire(g) PROVE Sound'
  BY <1>42 DEF TokensExpire
<1>43. ASSUME UNCHANGED vars PROVE Sound'
  BY <1>43 DEF vars
<1> QED
  BY <1>3, <1>4, <1>5, <1>6, <1>7, <1>8, <1>9, <1>10, <1>11, <1>12,
     <1>13, <1>14, <1>15, <1>16, <1>17, <1>18, <1>19, <1>20, <1>21,
     <1>22, <1>23, <1>24, <1>25, <1>26, <1>27, <1>28, <1>29, <1>30,
     <1>31, <1>32, <1>33, <1>34, <1>35, <1>36, <1>37, <1>38, <1>39,
     <1>40, <1>41, <1>42, <1>43
     DEF Next, Pass, Resolve, Disturb

-----------------------------------------------------------------------------
(* The theorems *)

(* The inductive invariant holds after start_run. *)
LEMMA InitInv == Init => IInv
<1> SUFFICES ASSUME Init PROVE IInv
  OBVIOUS
<1>1. TypeOK /\ Located  BY InitLocated
<1>2. Known
  BY DEF Init, Known, Requested, Deciding, Procs
<1>3. Sound
  BY DEF Init, Sound, RowsSound, KeysSound, CopiesSound, PlacesSound,
         HandledSound, OrderSound, EndSound, Procs, NewSteps, NewStep,
         DoneStatus, Steps
<1> QED  BY <1>1, <1>2, <1>3 DEF IInv

(* Every step of the system keeps the inductive invariant. *)
LEMMA StepInv == IInv /\ [Next]_vars => IInv'
<1> SUFFICES ASSUME IInv, [Next]_vars PROVE IInv'
  OBVIOUS
<1>1. TypeOK /\ Located /\ Known /\ Sound  BY DEF IInv
<1>2. TypeOK' /\ Located'  BY <1>1, StepLocated
<1>3. Known'  BY <1>1, StepKnown
<1>4. Steady  BY <1>1, StepSteady
<1>5. Sound'  BY <1>1, <1>2, <1>4, StepSound
<1> QED  BY <1>2, <1>3, <1>5 DEF IInv

(* The inductive invariant holds throughout every behaviour. *)
LEMMA Invariance == Spec => []IInv
<1>1. Init => IInv  BY InitInv
<1>2. IInv /\ [Next]_vars => IInv'  BY StepInv
<1> QED  BY <1>1, <1>2, PTL DEF Spec

(* Every variable keeps its type: the rows stay rows of their tables, the  *)
(* processes stay at places of their own code and a pass never indexes a   *)
(* step the workflow does not have (engine._execute, gates.resolve_gate).  *)
THEOREM TypeCorrect == Spec => []TypeOK
<1>1. IInv => TypeOK  BY DEF IInv
<1> QED  BY <1>1, Invariance, PTL

(* No step after a gate has an external effect before an authorized actor  *)
(* has approved that gate (engine._execute, gates.resolve_gate), for any   *)
(* number of workers, approvers, gates and faults and with either store.   *)
THEOREM GateSafety == Spec => []GateRespected
<1>1. IInv => GateRespected
  <2> SUFFICES ASSUME IInv, NEW i \in Steps, i \in effects,
                      NEW g \in GateSteps, g < i
               PROVE  Approved(g)
    BY DEF GateRespected
  <2>1. g \in Steps  BY DEF Steps
  <2>2. Passed(g)  BY <2>1 DEF IInv, Sound, OrderSound
  <2> QED  BY <2>2 DEF Passed
<1> QED  BY <1>1, Invariance, PTL

(* Steps have their effects in declaration order (engine._execute), also   *)
(* across passes, crashes and short-circuits by the idempotency key.       *)
THEOREM OrderSafety == Spec => []StepsInOrder
<1>1. IInv => StepsInOrder
  BY DEF IInv, Sound, OrderSound, StepsInOrder, Passed
<1> QED  BY <1>1, Invariance, PTL

(* A run is recorded as succeeded only when every step has had its effect  *)
(* and every gate was approved (engine._execute, update_run_status).       *)
THEOREM CompletionSafety == Spec => []SucceededComplete
<1>1. IInv => SucceededComplete
  BY DEF IInv, Sound, EndSound, SucceededComplete, Passed
<1> QED  BY <1>1, Invariance, PTL

-----------------------------------------------------------------------------
(* One pass at a time *)

(* A pass that is under way set the key.  (A worker that crashed, or whose *)
(* DEL failed, may have left a key behind: the converse does not hold.)    *)
Mutex == \A w \in Workers : ~At(w, "idle") => lock = w

(* A move of an approver, or of a pass that is under way, keeps it as long *)
(* as the key stays.                                                       *)
LEMMA MutexMove ==
  ASSUME TypeOK, Mutex, NEW p \in Procs, p \in Approvers \/ ~At(p, "idle"),
         NEW l, Goto(p, l), lock' = lock
  PROVE  Mutex'
<1> SUFFICES ASSUME NEW w \in Workers, pc'[w] # "idle" PROVE lock = w
  BY DEF Mutex, At
<1>1. pc \in [Procs -> WorkerLocation \cup ApproverLocation]
  BY DEF TypeOK, ProcType
<1>2. CASE w = p  BY <1>2, ProcAssumption DEF Mutex, At
<1>3. CASE w # p
  <2>1. pc'[w] = pc[w]  BY <1>1, <1>3 DEF Goto, Procs
  <2> QED  BY <2>1 DEF Mutex, At
<1> QED  BY <1>2, <1>3

(* A step that moves nobody and leaves the key keeps it. *)
LEMMA MutexStays ==
  ASSUME Mutex, pc' = pc, lock' = lock
  PROVE  Mutex'
  BY DEF Mutex, At

(* As long as the lock is not lost every step keeps the mutual exclusion.  *)
LEMMA StepMutex == TypeOK /\ Mutex /\ [Next]_vars => lockLost' \/ Mutex'
<1> SUFFICES ASSUME TypeOK, Mutex, [Next]_vars, ~lockLost' PROVE Mutex'
  OBVIOUS
<1> DEFINE Moves(p) == (\E l : Goto(p, l)) \/ pc' = pc
<1>1. ASSUME NEW p \in Procs, p \in Approvers \/ ~At(p, "idle"),
             Moves(p), lock' = lock
      PROVE  Mutex'
  BY <1>1, MutexMove, MutexStays
<1>2. ASSUME NEW w \in Workers, Acquire(w) PROVE Mutex'
  <2>1. CASE lock = NoProc
    <3>1. \A v \in Workers : pc[v] = "idle"
      BY <2>1, ProcAssumption DEF Mutex, At
    <3>2. \A v \in Workers : v # w => pc'[v] = pc[v]
      BY <1>2, <2>1 DEF Acquire, Goto, TypeOK, ProcType, Procs
    <3>3. lock' = w  BY <1>2, <2>1 DEF Acquire
    <3> QED  BY <3>1, <3>2, <3>3 DEF Mutex, At
  <2>2. CASE lock # NoProc
    BY <1>2, <2>2, MutexStays DEF Acquire
  <2> QED  BY <2>1, <2>2
<1>3. ASSUME NEW w \in Workers, Release(w) PROVE Mutex'
  <2>1. \A v \in Workers : v # w => pc[v] = "idle"
    BY <1>3 DEF Release, Mutex, At
  <2>2. \A v \in Workers : pc'[v] = "idle"
    BY <1>3, <2>1 DEF Release, Goto, TypeOK, ProcType, Procs
  <2> QED  BY <2>2 DEF Mutex, At
<1>4. ASSUME NEW w \in Workers, Pass(w) \/ CrashWorker(w) \/ CallFails(w)
      PROVE  Mutex'
  <2>1. CASE Release(w)  BY <1>3, <2>1
  <2>2. CASE CrashWorker(w)
    BY <2>2, <1>1 DEF CrashWorker, Procs
  <2>3. CASE CallFails(w)
    <3>1. ~At(w, "idle") /\ lock' = lock  BY <2>3 DEF CallFails, At
    <3>2. Moves(w)  BY <2>3 DEF CallFails
    <3> QED  BY <1>1, <3>1, <3>2 DEF Procs
  <2>4. CASE Pass(w) /\ ~Release(w)
    <3>1. ~At(w, "idle") /\ lock' = lock
      BY <2>4 DEF Pass, LoadRun, StartRun, GetSteps, SkipStep, LookupStep,
         MarkRunning, HandlerReturns, HandlerRaises, Reserve, Record,
         MarkSucceeded, MarkFailed, RetryStep, Compensate, ParkRun, FinishLoop,
         FinishRun, CreateGate, IssueToken, AwaitApproval, AtStep, At
    <3>2. CASE \/ LoadRun(w) \/ GetSteps(w) \/ SkipStep(w) \/ LookupStep(w)
               \/ HandlerReturns(w) \/ HandlerRaises(w) \/ Reserve(w)
               \/ Record(w) \/ Compensate(w) \/ FinishLoop(w)
               \/ CreateGate(w) \/ IssueToken(w)
      <4>1. Moves(w)
        BY <3>2 DEF LoadRun, GetSteps, SkipStep, LookupStep, HandlerReturns,
           HandlerRaises, Reserve, Record, Compensate, FinishLoop, CreateGate,
           IssueToken
      <4> QED  BY <1>1, <3>1, <4>1 DEF Procs
    <3>3. CASE StartRun(w) \/ ParkRun(w) \/ FinishRun(w) \/ AwaitApproval(w)
      <4>1. Moves(w)
        BY <3>3 DEF StartRun, ParkRun, FinishRun, AwaitApproval, UpdateRunStatus
      <4> QED  BY <1>1, <3>1, <4>1 DEF Procs
    <3>4. CASE MarkRunning(w) \/ MarkSucceeded(w) \/ MarkFailed(w) \/ RetryStep(w)
      <4>1. Moves(w)
        BY <3>4 DEF MarkRunning, MarkSucceeded, MarkFailed, RetryStep, UpdateStep
      <4> QED  BY <1>1, <3>1, <4>1 DEF Procs
    <3> QED  BY <2>4, <3>2, <3>3, <3>4 DEF Pass
  <2> QED  BY <1>4, <2>1, <2>2, <2>3, <2>4
<1>5. ASSUME NEW a \in Approvers, NEW r \in Request, PresentToken(a, r)
      PROVE  Mutex'
  BY <1>5, <1>1 DEF PresentToken, Procs
<1>6. ASSUME NEW a \in Approvers, Resolve(a) \/ CrashApprover(a)
      PROVE  Mutex'
  <2>1. lock' = lock
    BY <1>6 DEF Resolve, CrashApprover, MarkTokenUsed, CheckGate, SaveDecision,
       UpdateGate, ResumeRun, RejectRun, AdvanceGateStep
  <2>2. Moves(a)
    BY <1>6 DEF Resolve, CrashApprover, MarkTokenUsed, CheckGate, SaveDecision,
       UpdateGate, ResumeRun, RejectRun, AdvanceGateStep, UpdateRunStatus, Leave
  <2> QED  BY <1>1, <2>1, <2>2 DEF Procs
<1>7. ASSUME LockExpires PROVE Mutex'
  <2>1. \A v \in Workers : pc[v] = "idle"
    BY <1>7 DEF LockExpires, Mutex, At
  <2> QED  BY <1>7, <2>1 DEF LockExpires, Mutex, At
<1>8. ASSUME LockExpiresEarly \/ \E w \in Workers : AcquireDegraded(w)
      PROVE  FALSE
  BY <1>8 DEF LockExpiresEarly, AcquireDegraded
<1>10. ASSUME NEW w \in Workers, ReleaseFails(w) PROVE Mutex'
  BY <1>10, <1>1 DEF ReleaseFails, At, Procs
<1>9. ASSUME \/ \E p \in Procs : Select(p)
             \/ RecoverySweep
             \/ \E g \in GateIds : TokensExpire(g)
             \/ UNCHANGED vars
      PROVE  Mutex'
  BY <1>9, MutexStays DEF Select, RecoverySweep, TokensExpire, vars
<1> QED
  BY <1>2, <1>4, <1>5, <1>6, <1>7, <1>8, <1>9, <1>10 DEF Next, Disturb

(* As long as Redis answers and no pass outlasts its key, two workers      *)
(* never execute the run at the same time (RunLock.acquire), however       *)
(* workers crash, calls fail and keys of dead workers expire, and although *)
(* release deletes the key whoever set it.  Once the lock is lost the      *)
(* engine relies on the idempotency key and the step rows alone.           *)
THEOREM MutualExclusion == Spec => []OnePass
<1>1. Init => Mutex  BY DEF Init, Mutex, At, Procs
<1>2. TypeOK /\ (lockLost \/ Mutex) /\ [Next]_vars => (lockLost \/ Mutex)'
  BY StepMutex, StepSteady DEF Steady
<1>3. lockLost \/ Mutex => OnePass  BY DEF Mutex, OnePass
<1> QED  BY <1>1, <1>2, <1>3, TypeCorrect, PTL DEF Spec

-----------------------------------------------------------------------------
(***************************************************************************)
(* What the in-memory run store guarantees on top of what both stores do,  *)
(* because its check of a status and its write of it are one step; and     *)
(* what the lock gives back of it on Postgres.                             *)
(***************************************************************************)

-----------------------------------------------------------------------------
(* Between two effects of a step there is a recorded failure *)

(* The places of a pass between marking its step running and marking it    *)
(* succeeded or failed.                                                    *)
Busy == {"handler", "reserve", "record", "succeed", "fail"}

(* The step row is the mutex: a pass between the two marks owns its step,  *)
(* and a step with an effect that is not on record as failed is running    *)
(* (its owner may be dead) or done.                                        *)
Spent ==
    \A i \in Steps : unreported[i] > 0 =>
        /\ unreported[i] = 1
        /\ i \notin GateSteps
        /\ step[i].status \in {"running", "succeeded"}
Owned ==
    \A w \in Workers : pc[w] \in Busy => step[idx[w]].status = "running"
Unspent ==
    \A w \in Workers : pc[w] = "handler" => unreported[idx[w]] = 0
Alone ==
    \A v, w \in Workers :
        pc[v] \in Busy /\ pc[w] \in Busy /\ idx[v] = idx[w] => v = w
Exclusive == Spent /\ Owned /\ Unspent /\ Alone

(* A step of the system that leaves the rows and the effects alone and     *)
(* takes no pass into the critical part keeps Exclusive.                   *)
LEMMA ExclusiveQuiet ==
  ASSUME Exclusive, step' = step, unreported' = unreported,
         \A w \in Workers : pc'[w] \in Busy => pc[w] = pc'[w] /\ idx'[w] = idx[w]
  PROVE  Exclusive'
<1>1. Spent'  BY DEF Exclusive, Spent
<1>2. Owned'  BY DEF Exclusive, Owned
<1>3. Unspent'
  <2> SUFFICES ASSUME NEW w \in Workers, pc'[w] = "handler"
               PROVE  unreported'[idx'[w]] = 0
    BY DEF Unspent
  <2>1. pc[w] = pc'[w] /\ idx'[w] = idx[w]  BY DEF Busy
  <2> QED  BY <2>1 DEF Exclusive, Unspent
<1>4. Alone'
  <2> SUFFICES ASSUME NEW v \in Workers, NEW w \in Workers,
                      pc'[v] \in Busy, pc'[w] \in Busy, idx'[v] = idx'[w]
               PROVE  v = w
    BY DEF Alone
  <2>1. pc[v] = pc'[v] /\ idx'[v] = idx[v] /\ pc[w] = pc'[w] /\ idx'[w] = idx[w]
    OBVIOUS
  <2> QED  BY <2>1 DEF Exclusive, Alone
<1> QED  BY <1>1, <1>2, <1>3, <1>4 DEF Exclusive

(* What update_step checks is the row it writes: the in-memory store looks *)
(* at the row itself, and on Postgres the row has not changed since the    *)
(* SELECT.  A pass has selected only while it waits for a store call.      *)
Fresh ==
    AtomicStore \/
        \A w \in Workers :
            /\ pc[w] \notin RunWrites \cup StepWrites => view[w] = NoView
            /\ pc[w] \in StepWrites =>
                 view[w] \in {NoView, step[idx[w]].status}

(* The status that a step write checks is the status of its row. *)
LEMMA SeenRow ==
  ASSUME Fresh, NEW w \in Workers, CanWrite(w), pc[w] \in StepWrites
  PROVE  Seen(w) = step[idx[w]].status
  BY DEF Fresh, CanWrite, Seen, Target, RunWrites, StepWrites

(* MarkRunning writes the row exactly when its transition is legal. *)
LEMMA RunningWrite ==
  ASSUME Fresh, TypeOK, Located, NEW w \in Workers, MarkRunning(w)
  PROVE  IF <<step[idx[w]].status, "running">> \in StepTransitions
           THEN /\ step' = [step EXCEPT ![idx[w]] =
                              [Mine(w) EXCEPT !.status = "running"]]
                /\ pc' = [pc EXCEPT ![w] = "handler"]
           ELSE step' = step /\ pc' = [pc EXCEPT ![w] = "release"]
<1>1. Seen(w) = step[idx[w]].status
  BY SeenRow DEF MarkRunning, UpdateStep, At, StepWrites
<1>2. Mine(w) \in StepState
  BY DEF MarkRunning, At, StepWrites, Located, Mine, TypeOK, PassType
<1> DEFINE new == [Mine(w) EXCEPT !.status = "running"]
<1>3. new.status = "running"  BY <1>2 DEF StepState
<1>4. UpdateStep(w, new, "handler", "release")  BY DEF MarkRunning
<1> HIDE DEF new
<1>5. IF <<step[idx[w]].status, "running">> \in StepTransitions
        THEN step' = [step EXCEPT ![idx[w]] = new]
             /\ pc' = [pc EXCEPT ![w] = "handler"]
        ELSE step' = step /\ pc' = [pc EXCEPT ![w] = "release"]
  BY <1>1, <1>3, <1>4 DEF UpdateStep, Goto
<1> QED  BY <1>5 DEF new

(* No row ever goes back to PENDING: the retry is an illegal transition. *)
LEMMA PendingWrite ==
  ASSUME Fresh, TypeOK, Located, NEW w \in Workers, RetryStep(w)
  PROVE  step' = step
<1>1. Mine(w) \in StepState
  BY DEF RetryStep, At, StepWrites, Located, Mine, TypeOK, PassType
<1> DEFINE new == [Mine(w) EXCEPT !.status = "pending"]
<1>2. new.status = "pending"  BY <1>1 DEF StepState
<1>3. UpdateStep(w, new, "release", "release")  BY DEF RetryStep
<1> HIDE DEF new
<1>4. <<Seen(w), "pending">> \notin StepTransitions
  BY DEF StepTransitions
<1> QED  BY <1>2, <1>3, <1>4 DEF UpdateStep

(* MarkSucceeded on a running row makes that row succeeded, and no other. *)
LEMMA SucceededWrite ==
  ASSUME Fresh, TypeOK, NEW w \in Workers, MarkSucceeded(w),
         idx[w] \in Steps, step[idx[w]].status = "running"
  PROVE  /\ step'[idx[w]].status = "succeeded"
         /\ \A i \in Steps : i # idx[w] => step'[i] = step[i]
         /\ pc'[w] \notin Busy
         /\ \A v \in Workers : v # w => pc'[v] = pc[v]
         /\ unreported' = unreported
         /\ \A v \in Workers : v # w => idx'[v] = idx[v]
<1>1. <<Seen(w), "succeeded">> \in StepTransitions
  BY SeenRow DEF MarkSucceeded, UpdateStep, At, StepWrites, StepTransitions
<1> DEFINE new == [status |-> "succeeded", attempt |-> Mine(w).attempt + 1]
<1>2. new.status = "succeeded"  OBVIOUS
<1>3. UpdateStep(w, new, "loop", "fail")  BY DEF MarkSucceeded
<1> HIDE DEF new
<1>4. step' = [step EXCEPT ![idx[w]] = new] /\ pc' = [pc EXCEPT ![w] = "loop"]
  BY <1>1, <1>2, <1>3 DEF UpdateStep, Goto
<1>5. /\ step'[idx[w]].status = "succeeded"
      /\ \A i \in Steps : i # idx[w] => step'[i] = step[i]
  BY <1>2, <1>4 DEF TypeOK, StoreType
<1>6. pc'[w] \notin Busy /\ \A v \in Workers : v # w => pc'[v] = pc[v]
  BY <1>4 DEF TypeOK, ProcType, Procs, Busy
<1>7. unreported' = unreported /\ \A v \in Workers : v # w => idx'[v] = idx[v]
  BY DEF MarkSucceeded, world, TypeOK, PassType
<1> QED  BY <1>5, <1>6, <1>7

(* MarkFailed on a running row makes that row failed, and no other. *)
LEMMA FailedWrite ==
  ASSUME Fresh, TypeOK, NEW w \in Workers, MarkFailed(w),
         idx[w] \in Steps, step[idx[w]].status = "running"
  PROVE  /\ step'[idx[w]].status = "failed"
         /\ \A i \in Steps : i # idx[w] => step'[i] = step[i]
         /\ pc'[w] \notin Busy
         /\ \A v \in Workers : v # w => pc'[v] = pc[v]
         /\ unreported' = [unreported EXCEPT ![idx[w]] = 0]
         /\ \A v \in Workers : v # w => idx'[v] = idx[v]
<1>1. <<Seen(w), "failed">> \in StepTransitions
  BY SeenRow DEF MarkFailed, UpdateStep, At, StepWrites, StepTransitions
<1> DEFINE new == [status |-> "failed", attempt |-> Mine(w).attempt + 1]
           good == IF retryable[w] /\ Mine(w).attempt + 1 < MaxAttempts
                     THEN "retry" ELSE ParkPlace(w)
<1>2. new.status = "failed" /\ good \notin Busy  BY DEF Busy, ParkPlace
<1>3. UpdateStep(w, new, good, "release")  BY DEF MarkFailed
<1> HIDE DEF new, good
<1>4. step' = [step EXCEPT ![idx[w]] = new] /\ pc' = [pc EXCEPT ![w] = good]
  BY <1>1, <1>2, <1>3 DEF UpdateStep, Goto
<1>5. /\ step'[idx[w]].status = "failed"
      /\ \A i \in Steps : i # idx[w] => step'[i] = step[i]
  BY <1>2, <1>4 DEF TypeOK, StoreType
<1>6. pc'[w] \notin Busy /\ \A v \in Workers : v # w => pc'[v] = pc[v]
  BY <1>2, <1>4 DEF TypeOK, ProcType, Procs
<1>7. /\ unreported' = [unreported EXCEPT ![idx[w]] = 0]
      /\ \A v \in Workers : v # w => idx'[v] = idx[v]
  BY <1>1 DEF MarkFailed
<1> QED  BY <1>5, <1>6, <1>7

(* advance_gate_step writes the row of a gate step, never of a handler. *)
LEMMA AdvanceAtGate ==
  ASSUME TypeOK, Known, NEW a \in Approvers, AdvanceGateStep(a)
  PROVE  gate[req[a].gate].step \in GateSteps
<1>1. req[a].gate \in GateIds /\ Requested(req[a].gate)
  BY DEF AdvanceGateStep, Known, At, TypeOK, PassType, Request
<1> QED  BY <1>1 DEF Known

(* The effect of a step that a pass owns, whether its handler returns or   *)
(* raises after it. *)
LEMMA EffectExclusive ==
  ASSUME TypeOK, Located, Exclusive, NEW w \in Workers, pc[w] = "handler",
         Effect(w), step' = step, idx' = idx, pc'[w] \in {"reserve", "fail"},
         \A v \in Workers : v # w => pc'[v] = pc[v]
  PROVE  Exclusive'
<1>1. idx[w] \in Steps \ GateSteps
  BY DEF Located
<1>2. /\ unreported'[idx[w]] = unreported[idx[w]] + 1
      /\ \A i \in Steps : i # idx[w] => unreported'[i] = unreported[i]
  BY <1>1 DEF Effect, TypeOK, SharedType
<1>3. unreported[idx[w]] = 0 /\ step[idx[w]].status = "running"
  BY DEF Exclusive, Unspent, Owned, Busy
<1>4. Spent'  BY <1>1, <1>2, <1>3 DEF Exclusive, Spent
<1>5. Owned'  BY DEF Exclusive, Owned, Busy
<1>6. Unspent'
  <2>1. \A v \in Workers : pc[v] \in Busy => idx[v] \in Steps
    BY DEF Located, Busy, StepWrites
  <2>2. \A v \in Workers : v # w /\ pc[v] \in Busy => idx[v] # idx[w]
    BY DEF Exclusive, Alone, Busy
  <2> QED  BY <1>2, <2>1, <2>2 DEF Exclusive, Unspent, Busy
<1>7. Alone'  BY DEF Exclusive, Alone, Busy
<1> QED  BY <1>4, <1>5, <1>6, <1>7 DEF Exclusive

(* Every step of the system keeps Exclusive, as long as what the passes
   check is fresh. *)
LEMMA StepExclusive == IInv /\ Fresh /\ Exclusive /\ [Next]_vars => Exclusive'
<1> SUFFICES ASSUME IInv, Fresh, Exclusive PROVE [Next]_vars => Exclusive'
  OBVIOUS
<1>0. TypeOK /\ Located /\ Known /\ Sound  BY DEF IInv
<1> USE <1>0
<1>1. ASSUME NEW w \in Workers, Acquire(w) PROVE Exclusive'
  BY <1>1, ExclusiveQuiet
  DEF Acquire, Busy, TypeOK, ProcType, Procs, store, pass,
      world, At, Goto
<1>2. ASSUME NEW w \in Workers, LoadRun(w) PROVE Exclusive'
  BY <1>2, ExclusiveQuiet
  DEF LoadRun, Busy, TypeOK, ProcType, Procs, store, pass,
      world, At, Goto
<1>3. ASSUME NEW w \in Workers, StartRun(w) PROVE Exclusive'
  BY <1>3, ExclusiveQuiet
  DEF StartRun, UpdateRunStatus, Busy, TypeOK, ProcType, Procs, store, pass,
      world, At, Goto
<1>4. ASSUME NEW w \in Workers, GetSteps(w) PROVE Exclusive'
  BY <1>4, ExclusiveQuiet
  DEF GetSteps, Busy, TypeOK, ProcType, Procs, store, pass,
      world, At, Goto
<1>5. ASSUME NEW w \in Workers, SkipStep(w) PROVE Exclusive'
  BY <1>5, ExclusiveQuiet
  DEF SkipStep, AtStep, Busy, TypeOK, ProcType, Procs, store, pass,
      world, At, Goto
<1>6. ASSUME NEW w \in Workers, LookupStep(w) PROVE Exclusive'
  <2>1. pc[w] = "loop" /\ step' = step /\ unreported' = unreported
    BY <1>6 DEF LookupStep, AtStep, At, store, world
  <2>2. CASE idem[idx[w]] = "recorded"
    <3>1. pc' = pc /\ \A v \in Workers : v # w => idx'[v] = idx[v]
      BY <1>6, <2>2 DEF LookupStep, TypeOK, PassType
    <3> QED  BY <2>1, <3>1, ExclusiveQuiet DEF Busy
  <2>3. CASE idem[idx[w]] # "recorded"
    <3>1. idx' = idx /\ pc' = [pc EXCEPT ![w] = "mark"]
      BY <1>6, <2>3 DEF LookupStep, Goto
    <3> QED  BY <2>1, <3>1, ExclusiveQuiet DEF Busy, TypeOK, ProcType, Procs
  <2> QED  BY <2>2, <2>3
<1>7. ASSUME NEW w \in Workers, MarkRunning(w) PROVE Exclusive'
  <2>1. idx[w] \in Steps /\ At(w, "mark")
    BY <1>7 DEF MarkRunning, Located, StepWrites, At
  <2>2. CASE <<step[idx[w]].status, "running">> \in StepTransitions
    <3>1. step' = [step EXCEPT ![idx[w]] = [Mine(w) EXCEPT !.status = "running"]]
          /\ pc' = [pc EXCEPT ![w] = "handler"]
      BY <1>7, <2>1, <2>2, RunningWrite
    <3>2. step[idx[w]].status \notin {"running", "succeeded"}
      BY <2>2 DEF StepTransitions
    <3>3. step'[idx[w]].status = "running"
          /\ \A i \in Steps : i # idx[w] => step'[i] = step[i]
      BY <2>1, <3>1 DEF Mine, TypeOK, PassType, StoreType, StepState
    <3>4. unreported[idx[w]] = 0
      BY <2>1, <3>2 DEF Exclusive, Spent, TypeOK, SharedType
    <3>5. idx' = idx /\ unreported' = unreported
      BY <1>7 DEF MarkRunning, world
    <3>6. pc'[w] = "handler" /\ \A v \in Workers : v # w => pc'[v] = pc[v]
      BY <3>1 DEF TypeOK, ProcType, Procs
    <3>7. \A v \in Workers : pc[v] \in Busy => idx[v] # idx[w]
      BY <3>2 DEF Exclusive, Owned
    <3>8. \A v \in Workers : pc[v] \in Busy => idx[v] \in Steps
      BY DEF Located, Busy, StepWrites
    <3>9. Spent'  BY <2>1, <3>3, <3>4, <3>5 DEF Exclusive, Spent
    <3>10. Owned'
      BY <2>1, <3>3, <3>5, <3>6, <3>7, <3>8 DEF Exclusive, Owned
    <3>11. Unspent'
      BY <3>4, <3>5, <3>6 DEF Exclusive, Unspent, Busy
    <3>12. Alone'
      BY <3>5, <3>6, <3>7 DEF Exclusive, Alone
    <3> QED  BY <3>9, <3>10, <3>11, <3>12 DEF Exclusive
  <2>3. CASE <<step[idx[w]].status, "running">> \notin StepTransitions
    <3>1. step' = step /\ pc' = [pc EXCEPT ![w] = "release"]
          /\ idx' = idx /\ unreported' = unreported
      BY <1>7, <2>1, <2>3, RunningWrite DEF MarkRunning, world
    <3> QED  BY <3>1, ExclusiveQuiet DEF Busy, TypeOK, ProcType, Procs
  <2> QED  BY <2>2, <2>3
<1>8. ASSUME NEW w \in Workers, HandlerReturns(w) PROVE Exclusive'
  <2>1. pc[w] = "handler" /\ Effect(w) /\ step' = step /\ idx' = idx
    BY <1>8 DEF HandlerReturns, At, store, pass
  <2>2. pc'[w] = "reserve" /\ \A v \in Workers : v # w => pc'[v] = pc[v]
    BY <1>8 DEF HandlerReturns, Goto, TypeOK, ProcType, Procs
  <2> QED  BY <2>1, <2>2, EffectExclusive
<1>9. ASSUME NEW w \in Workers, HandlerRaises(w) PROVE Exclusive'
  <2>1. pc[w] = "handler" /\ step' = step /\ idx' = idx
    BY <1>9 DEF HandlerRaises, At, store
  <2>2. pc'[w] = "fail" /\ \A v \in Workers : v # w => pc'[v] = pc[v]
    BY <1>9 DEF HandlerRaises, Goto, TypeOK, ProcType, Procs
  <2>3. CASE Effect(w)  BY <2>1, <2>2, <2>3, EffectExclusive
  <2>4. CASE unreported' = unreported
    BY <2>1, <2>2, <2>4 DEF Exclusive, Spent, Owned, Unspent, Alone, Busy
  <2> QED  BY <1>9, <2>3, <2>4 DEF HandlerRaises
<1>10. ASSUME NEW w \in Workers, Reserve(w) PROVE Exclusive'
  <2>1. pc[w] = "reserve" /\ step' = step /\ idx' = idx /\ unreported' = unreported
    BY <1>10 DEF Reserve, At, store, pass, world
  <2>2. pc'[w] = "record" /\ \A v \in Workers : v # w => pc'[v] = pc[v]
    BY <1>10 DEF Reserve, Goto, TypeOK, ProcType, Procs
  <2> QED
    BY <2>1, <2>2 DEF Exclusive, Spent, Owned, Unspent, Alone, Busy
<1>11. ASSUME NEW w \in Workers, Record(w) PROVE Exclusive'
  <2>1. pc[w] = "record" /\ step' = step /\ idx' = idx /\ unreported' = unreported
    BY <1>11 DEF Record, At, store, pass, world
  <2>2. pc'[w] = "succeed" /\ \A v \in Workers : v # w => pc'[v] = pc[v]
    BY <1>11 DEF Record, Goto, TypeOK, ProcType, Procs
  <2> QED
    BY <2>1, <2>2 DEF Exclusive, Spent, Owned, Unspent, Alone, Busy
<1>12. ASSUME NEW w \in Workers, MarkSucceeded(w) PROVE Exclusive'
  <2>1. idx[w] \in Steps /\ pc[w] = "succeed" /\ step[idx[w]].status = "running"
    BY <1>12 DEF MarkSucceeded, Located, StepWrites, At, Exclusive, Owned, Busy
  <2>2. /\ step'[idx[w]].status = "succeeded"
        /\ \A i \in Steps : i # idx[w] => step'[i] = step[i]
        /\ pc'[w] \notin Busy
        /\ \A v \in Workers : v # w => pc'[v] = pc[v]
        /\ unreported' = unreported
        /\ \A v \in Workers : v # w => idx'[v] = idx[v]
    BY <1>12, <2>1, SucceededWrite
  <2>3. \A v \in Workers : pc[v] \in Busy => idx[v] \in Steps
    BY DEF Located, Busy, StepWrites
  <2>4. \A v \in Workers : v # w /\ pc[v] \in Busy => idx[v] # idx[w]
    BY <2>1 DEF Exclusive, Alone, Busy
  <2>5. Spent'
    BY <2>1, <2>2 DEF Exclusive, Spent
  <2>6. Owned'  BY <2>2, <2>3, <2>4 DEF Exclusive, Owned
  <2>7. Unspent'  BY <2>2 DEF Exclusive, Unspent, Busy
  <2>8. Alone'  BY <2>2 DEF Exclusive, Alone
  <2> QED  BY <2>5, <2>6, <2>7, <2>8 DEF Exclusive
<1>13. ASSUME NEW w \in Workers, MarkFailed(w) PROVE Exclusive'
  <2>1. idx[w] \in Steps /\ pc[w] = "fail" /\ step[idx[w]].status = "running"
    BY <1>13 DEF MarkFailed, Located, StepWrites, At, Exclusive, Owned, Busy
  <2>2. /\ step'[idx[w]].status = "failed"
        /\ \A i \in Steps : i # idx[w] => step'[i] = step[i]
        /\ pc'[w] \notin Busy
        /\ \A v \in Workers : v # w => pc'[v] = pc[v]
        /\ unreported' = [unreported EXCEPT ![idx[w]] = 0]
        /\ \A v \in Workers : v # w => idx'[v] = idx[v]
    BY <1>13, <2>1, FailedWrite
  <2>3. \A v \in Workers : pc[v] \in Busy => idx[v] \in Steps
    BY DEF Located, Busy, StepWrites
  <2>4. \A v \in Workers : v # w /\ pc[v] \in Busy => idx[v] # idx[w]
    BY <2>1 DEF Exclusive, Alone, Busy
  <2>5. /\ unreported'[idx[w]] = 0
        /\ \A i \in Steps : i # idx[w] => unreported'[i] = unreported[i]
    BY <2>1, <2>2 DEF TypeOK, SharedType
  <2>9. Spent'  BY <2>1, <2>2, <2>5 DEF Exclusive, Spent
  <2>6. Owned'  BY <2>2, <2>3, <2>4 DEF Exclusive, Owned
  <2>7. Unspent'  BY <2>2, <2>3, <2>4, <2>5 DEF Exclusive, Unspent, Busy
  <2>8. Alone'  BY <2>2 DEF Exclusive, Alone
  <2> QED  BY <2>6, <2>7, <2>8, <2>9 DEF Exclusive
<1>14. ASSUME NEW w \in Workers, RetryStep(w) PROVE Exclusive'
  <2>1. step' = step /\ unreported' = unreported /\ idx' = idx
    BY <1>14, PendingWrite DEF RetryStep, world
  <2>2. pc' = [pc EXCEPT ![w] = "release"]
    BY <1>14 DEF RetryStep, UpdateStep, Goto
  <2> QED  BY <2>1, <2>2, ExclusiveQuiet DEF Busy, TypeOK, ProcType, Procs
<1>15. ASSUME NEW w \in Workers, Compensate(w) PROVE Exclusive'
  BY <1>15, ExclusiveQuiet
  DEF Compensate, Busy, TypeOK, ProcType, Procs, store, pass,
      world, At, Goto
<1>16. ASSUME NEW w \in Workers, ParkRun(w) PROVE Exclusive'
  BY <1>16, ExclusiveQuiet
  DEF ParkRun, UpdateRunStatus, Busy, TypeOK, ProcType, Procs, store, pass,
      world, At, Goto
<1>17. ASSUME NEW w \in Workers, FinishLoop(w) PROVE Exclusive'
  BY <1>17, ExclusiveQuiet
  DEF FinishLoop, Busy, TypeOK, ProcType, Procs, store, pass,
      world, At, Goto
<1>18. ASSUME NEW w \in Workers, FinishRun(w) PROVE Exclusive'
  BY <1>18, ExclusiveQuiet
  DEF FinishRun, UpdateRunStatus, Busy, TypeOK, ProcType, Procs, store, pass,
      world, At, Goto
<1>19. ASSUME NEW w \in Workers, AwaitApproval(w) PROVE Exclusive'
  BY <1>19, ExclusiveQuiet
  DEF AwaitApproval, UpdateRunStatus, Busy, TypeOK, ProcType, Procs, store, pass,
      world, At, Goto
<1>20. ASSUME NEW w \in Workers, Release(w) PROVE Exclusive'
  BY <1>20, ExclusiveQuiet
  DEF Release, Forget, Busy, TypeOK, ProcType, Procs, store, pass,
      world, At, Goto
<1>21. ASSUME NEW w \in Workers, AcquireDegraded(w) PROVE Exclusive'
  BY <1>21, ExclusiveQuiet
  DEF AcquireDegraded, Fault, Busy, TypeOK, ProcType, Procs, store, pass,
      world, At, Goto
<1>22. ASSUME NEW w \in Workers, ReleaseFails(w) PROVE Exclusive'
  BY <1>22, ExclusiveQuiet
  DEF ReleaseFails, Forget, Fault, Busy, TypeOK, ProcType, Procs, store, pass,
      world, At, Goto
<1>23. ASSUME NEW w \in Workers, CrashWorker(w) PROVE Exclusive'
  BY <1>23, ExclusiveQuiet
  DEF CrashWorker, Forget, Fault, Busy, TypeOK, ProcType, Procs, store, pass,
      world, At, Goto
<1>24. ASSUME NEW w \in Workers, CallFails(w) PROVE Exclusive'
  <2>1. step' = step /\ unreported' = unreported /\ idx' = idx /\ pc[w] # "handler"
    BY <1>24 DEF CallFails, store, world
  <2>2. CASE pc[w] \in {"reserve", "record", "succeed"}
    <3>1. pc'[w] = "fail" /\ \A v \in Workers : v # w => pc'[v] = pc[v]
      BY <1>24, <2>2 DEF CallFails, Goto, TypeOK, ProcType, Procs
    <3> QED
      BY <2>1, <2>2, <3>1 DEF Exclusive, Spent, Owned, Unspent, Alone, Busy
  <2>3. CASE pc[w] \notin {"reserve", "record", "succeed"}
    <3>1. pc'[w] = "release" /\ \A v \in Workers : v # w => pc'[v] = pc[v]
      BY <1>24, <2>3 DEF CallFails, Goto, TypeOK, ProcType, Procs
    <3> QED  BY <2>1, <3>1, ExclusiveQuiet DEF Busy
  <2> QED  BY <2>2, <2>3
<1>25. ASSUME NEW w \in Workers, CreateGate(w) PROVE Exclusive'
  BY <1>25, ExclusiveQuiet
  DEF CreateGate, AtStep, Busy, TypeOK, ProcType, Procs, store, pass,
      world, At, Goto
<1>26. ASSUME NEW w \in Workers, IssueToken(w) PROVE Exclusive'
  BY <1>26, ExclusiveQuiet
  DEF IssueToken, Busy, TypeOK, ProcType, Procs, store, pass,
      world, At, Goto
<1>27. ASSUME NEW a \in Approvers, NEW r \in Request, PresentToken(a, r) PROVE Exclusive'
  BY <1>27, ExclusiveQuiet
  DEF PresentToken, Busy, TypeOK, ProcType, Procs, store, pass,
      world, At, Goto
<1>28. ASSUME NEW a \in Approvers, MarkTokenUsed(a) PROVE Exclusive'
  BY <1>28, ExclusiveQuiet
  DEF MarkTokenUsed, Leave, Busy, TypeOK, ProcType, Procs, store, pass,
      world, At, Goto
<1>29. ASSUME NEW a \in Approvers, CheckGate(a) PROVE Exclusive'
  BY <1>29, ExclusiveQuiet
  DEF CheckGate, Leave, Busy, TypeOK, ProcType, Procs, store, pass,
      world, At, Goto
<1>30. ASSUME NEW a \in Approvers, SaveDecision(a) PROVE Exclusive'
  BY <1>30, ExclusiveQuiet
  DEF SaveDecision, Busy, TypeOK, ProcType, Procs, store, pass,
      world, At, Goto
<1>31. ASSUME NEW a \in Approvers, UpdateGate(a) PROVE Exclusive'
  BY <1>31, ExclusiveQuiet
  DEF UpdateGate, Busy, TypeOK, ProcType, Procs, store, pass,
      world, At, Goto
<1>32. ASSUME NEW a \in Approvers, ResumeRun(a) PROVE Exclusive'
  BY <1>32, ExclusiveQuiet
  DEF ResumeRun, UpdateRunStatus, Busy, TypeOK, ProcType, Procs, store, pass,
      world, At, Goto
<1>33. ASSUME NEW a \in Approvers, RejectRun(a) PROVE Exclusive'
  BY <1>33, ExclusiveQuiet
  DEF RejectRun, UpdateRunStatus, Busy, TypeOK, ProcType, Procs, store, pass,
      world, At, Goto
<1>34. ASSUME NEW a \in Approvers, AdvanceGateStep(a) PROVE Exclusive'
  <2>1. gate[req[a].gate].step \in GateSteps
    BY <1>34, AdvanceAtGate
  <2>2. \A i \in Steps \ GateSteps : step'[i] = step[i]
    BY <1>34, <2>1 DEF AdvanceGateStep, TypeOK, StoreType
  <2>3. unreported' = unreported /\ idx' = idx
    BY <1>34 DEF AdvanceGateStep, world, pass
  <2>4. \A w \in Workers : pc'[w] = pc[w]
    <3>1. pc' = [pc EXCEPT ![a] = "idle"] /\ a \notin Workers
      BY <1>34, ProcAssumption DEF AdvanceGateStep, Leave, Goto
    <3> QED  BY <3>1 DEF TypeOK, ProcType, Procs
  <2>5. \A w \in Workers : pc[w] \in Busy => idx[w] \in Steps \ GateSteps
    BY DEF Located, Busy, StepWrites
  <2>6. Spent'  BY <2>2, <2>3 DEF Exclusive, Spent
  <2>7. Owned'  BY <2>2, <2>3, <2>4, <2>5 DEF Exclusive, Owned
  <2>8. Unspent'  BY <2>3, <2>4 DEF Exclusive, Unspent
  <2>9. Alone'  BY <2>3, <2>4 DEF Exclusive, Alone
  <2> QED  BY <2>6, <2>7, <2>8, <2>9 DEF Exclusive
<1>35. ASSUME NEW a \in Approvers, CrashApprover(a) PROVE Exclusive'
  BY <1>35, ExclusiveQuiet
  DEF CrashApprover, Leave, Fault, Busy, TypeOK, ProcType, Procs, store, pass,
      world, At, Goto
<1>36. ASSUME NEW p \in Procs, Select(p) PROVE Exclusive'
  BY <1>36, ExclusiveQuiet
  DEF Select, Busy, TypeOK, ProcType, Procs, store, pass,
      world, At, Goto
<1>37. ASSUME RecoverySweep PROVE Exclusive'
  BY <1>37, ExclusiveQuiet
  DEF RecoverySweep, Busy, TypeOK, ProcType, Procs, store, pass,
      world, At, Goto
<1>38. ASSUME LockExpires PROVE Exclusive'
  BY <1>38, ExclusiveQuiet
  DEF LockExpires, Busy, TypeOK, ProcType, Procs, store, pass,
      world, At, Goto
<1>39. ASSUME LockExpiresEarly PROVE Exclusive'
  BY <1>39, ExclusiveQuiet
  DEF LockExpiresEarly, Busy, TypeOK, ProcType, Procs, store, pass,
      world, At, Goto
<1>40. ASSUME NEW g \in GateIds, TokensExpire(g) PROVE Exclusive'
  BY <1>40, ExclusiveQuiet
  DEF TokensExpire, Busy, TypeOK, ProcType, Procs, store, pass,
      world, At, Goto
<1>41. ASSUME UNCHANGED vars PROVE Exclusive'
  BY <1>41, ExclusiveQuiet
  DEF vars, Busy, TypeOK, ProcType, Procs, store, pass,
      world, At, Goto
<1> QED
  BY <1>1, <1>2, <1>3, <1>4, <1>5, <1>6, <1>7, <1>8, <1>9, <1>10,
     <1>11, <1>12, <1>13, <1>14, <1>15, <1>16, <1>17, <1>18, <1>19,
     <1>20, <1>21, <1>22, <1>23, <1>24, <1>25, <1>26, <1>27, <1>28,
     <1>29, <1>30, <1>31, <1>32, <1>33, <1>34, <1>35, <1>36, <1>37,
     <1>38, <1>39, <1>40, <1>41
     DEF Next, Pass, Resolve, Disturb

(* Nothing has happened in the initial state. *)
LEMMA InitExclusive == Init => Exclusive
  BY DEF Init, Exclusive, Spent, Owned, Unspent, Alone, Busy, Procs

(* On Postgres another pass may write the row between the SELECT and the   *)
(* write.  The lock keeps it out: a worker that acts is alone, so after    *)
(* its step no worker has selected anything; and approvals write the rows  *)
(* of gate steps only.                                                     *)
LEMMA FreshAlone ==
  ASSUME TypeOK, Mutex, Fresh, ~AtomicStore, NEW w \in Workers,
         \/ view' = [view EXCEPT ![w] = NoView]
         \/ view' = view /\ pc[w] \notin RunWrites \cup StepWrites,
         ~At(w, "idle") \/ \A v \in Workers : At(v, "idle")
  PROVE  Fresh'
<1>1. \A v \in Workers : v # w => At(v, "idle")  BY DEF Mutex
<1>2. \A v \in Workers : v # w => view[v] = NoView
  BY <1>1 DEF Fresh, At, RunWrites, StepWrites
<1>3. \A v \in Workers : view'[v] = NoView
  BY <1>2 DEF Fresh, TypeOK, ProcType, Procs
<1> QED  BY <1>3 DEF Fresh

(* A step that leaves the passes and the rows of their steps alone. *)
LEMMA FreshQuiet ==
  ASSUME Located, Fresh,
         \A v \in Workers : pc'[v] = pc[v] /\ view'[v] = view[v] /\ idx'[v] = idx[v],
         \A i \in Steps \ GateSteps : step'[i] = step[i]
  PROVE  Fresh'
<1>1. \A v \in Workers : pc[v] \in StepWrites => idx[v] \in Steps \ GateSteps
  BY DEF Located
<1> QED  BY <1>1 DEF Fresh

(* As long as the lock is not lost every step keeps what was selected      *)
(* fresh. *)
LEMMA StepFresh == IInv /\ Mutex /\ Fresh /\ [Next]_vars => lockLost' \/ Fresh'
<1> SUFFICES ASSUME IInv, Mutex, Fresh, [Next]_vars, ~AtomicStore, ~lockLost'
             PROVE  Fresh'
  BY DEF Fresh
<1>0. TypeOK /\ Located /\ Known  BY DEF IInv
<1> USE <1>0
<1>1. ASSUME NEW w \in Workers, Acquire(w) PROVE Fresh'
  <2>1. view' = view /\ idx' = idx /\ step' = step /\ pc[w] = "idle"
    BY <1>1 DEF Acquire, At, pass, store
  <2>2. CASE lock = NoProc
    <3>1. \A v \in Workers : At(v, "idle")
      BY <2>2, ProcAssumption DEF Mutex
    <3> QED  BY <2>1, <3>1, FreshAlone DEF RunWrites, StepWrites
  <2>3. CASE lock # NoProc
    BY <1>1, <2>1, <2>3, FreshQuiet DEF Acquire
  <2> QED  BY <2>2, <2>3
<1>2. ASSUME NEW w \in Workers, Pass(w) \/ CrashWorker(w) \/ CallFails(w)
      PROVE  Fresh'
  <2>1. CASE \/ LoadRun(w) \/ GetSteps(w) \/ SkipStep(w) \/ LookupStep(w)
             \/ HandlerReturns(w) \/ HandlerRaises(w) \/ Reserve(w)
             \/ Record(w) \/ Compensate(w) \/ FinishLoop(w)
             \/ CreateGate(w) \/ IssueToken(w) \/ Release(w)
    <3>1. view' = view /\ ~At(w, "idle") /\ pc[w] \notin RunWrites \cup StepWrites
      BY <2>1 DEF LoadRun, GetSteps, SkipStep, LookupStep, HandlerReturns,
         HandlerRaises, Reserve, Record, Compensate, FinishLoop, CreateGate,
         IssueToken, Release, AtStep, At, RunWrites, StepWrites
    <3> QED  BY <3>1, FreshAlone
  <2>2. CASE StartRun(w) \/ ParkRun(w) \/ FinishRun(w) \/ AwaitApproval(w)
    <3>1. EndWrite(w) /\ ~At(w, "idle")
      BY <2>2 DEF StartRun, ParkRun, FinishRun, AwaitApproval, UpdateRunStatus, At
    <3> QED  BY <3>1, FreshAlone DEF EndWrite
  <2>3. CASE MarkRunning(w) \/ MarkSucceeded(w) \/ MarkFailed(w) \/ RetryStep(w)
    <3>1. EndWrite(w) /\ ~At(w, "idle")
      BY <2>3 DEF MarkRunning, MarkSucceeded, MarkFailed, RetryStep, UpdateStep, At
    <3> QED  BY <3>1, FreshAlone DEF EndWrite
  <2>4. CASE CrashWorker(w) \/ CallFails(w)
    <3>1. EndWrite(w) /\ ~At(w, "idle")
      BY <2>4 DEF CrashWorker, CallFails, At
    <3> QED  BY <3>1, FreshAlone DEF EndWrite
  <2> QED  BY <1>2, <2>1, <2>2, <2>3, <2>4 DEF Pass
<1>3. ASSUME NEW a \in Approvers,
             \/ Resolve(a) \/ CrashApprover(a)
             \/ \E r \in Request : PresentToken(a, r)
      PROVE  Fresh'
  <2>1. a \notin Workers /\ a \in Procs  BY ProcAssumption DEF Procs
  <2>2. /\ idx' = idx
        /\ view' = view \/ EndWrite(a)
        /\ pc' = pc \/ \E l : Goto(a, l)
    <3>1. CASE MarkTokenUsed(a) \/ CheckGate(a)
      BY <3>1 DEF MarkTokenUsed, CheckGate, Leave, pass
    <3>2. CASE SaveDecision(a) \/ UpdateGate(a) \/ AdvanceGateStep(a)
      BY <3>2 DEF SaveDecision, UpdateGate, AdvanceGateStep, Leave, pass
    <3>3. CASE ResumeRun(a) \/ RejectRun(a)
      BY <3>3 DEF ResumeRun, RejectRun, UpdateRunStatus, pass
    <3>4. CASE CrashApprover(a) \/ \E r \in Request : PresentToken(a, r)
      BY <3>4 DEF CrashApprover, PresentToken, Leave, pass
    <3> QED  BY <1>3, <3>1, <3>2, <3>3, <3>4 DEF Resolve
  <2>3. \A v \in Workers : pc'[v] = pc[v] /\ view'[v] = view[v] /\ idx'[v] = idx[v]
    BY <2>1, <2>2 DEF EndWrite, Goto, TypeOK, ProcType, Procs
  <2>4. \A i \in Steps \ GateSteps : step'[i] = step[i]
    <3>1. CASE AdvanceGateStep(a)
      BY <3>1, AdvanceAtGate DEF AdvanceGateStep, TypeOK, StoreType
    <3>2. CASE ~AdvanceGateStep(a)
      <4>1. step' = step
        BY <1>3, <3>2 DEF Resolve, CrashApprover, PresentToken, MarkTokenUsed,
           CheckGate, SaveDecision, UpdateGate, ResumeRun, RejectRun, store
      <4> QED  BY <4>1
    <3> QED  BY <3>1, <3>2
  <2> QED  BY <2>3, <2>4, FreshQuiet
<1>4. ASSUME NEW p \in Procs, Select(p) PROVE Fresh'
  <2>1. pc' = pc /\ idx' = idx /\ step' = step /\ view' = [view EXCEPT ![p] = Target(p)]
    BY <1>4 DEF Select, pass, store
  <2>2. CASE p \in Workers
    <3>1. pc[p] \in RunWrites \cup StepWrites
      BY <1>4, <2>2 DEF Select, TokenWrites, TypeOK, ProcType, WorkerLocation
    <3>2. pc[p] \in StepWrites => view'[p] = step[idx[p]].status
      BY <2>1 DEF Target, RunWrites, StepWrites, TypeOK, ProcType
    <3>3. \A v \in Workers : v # p => view'[v] = view[v]
      BY <2>1 DEF TypeOK, ProcType, Procs
    <3> QED  BY <2>1, <3>1, <3>2, <3>3 DEF Fresh
  <2>3. CASE p \notin Workers
    <3>1. \A v \in Workers : view'[v] = view[v]
      BY <2>1, <2>3 DEF TypeOK, ProcType, Procs
    <3> QED  BY <2>1, <3>1, FreshQuiet
  <2> QED  BY <2>2, <2>3
<1>5. ASSUME LockExpiresEarly \/ \E w \in Workers : AcquireDegraded(w)
      PROVE  FALSE
  BY <1>5 DEF LockExpiresEarly, AcquireDegraded
<1>7. ASSUME NEW w \in Workers, ReleaseFails(w) PROVE Fresh'
  BY <1>7, FreshAlone DEF ReleaseFails, At, RunWrites, StepWrites
<1>6. ASSUME \/ RecoverySweep \/ LockExpires
             \/ \E g \in GateIds : TokensExpire(g)
             \/ UNCHANGED vars
      PROVE  Fresh'
  BY <1>6, FreshQuiet DEF RecoverySweep, LockExpires, TokensExpire, vars, pass, store
<1> QED
  BY <1>1, <1>2, <1>3, <1>4, <1>5, <1>6, <1>7 DEF Next, Disturb

(* What the property needs: with the in-memory store the rows keep the     *)
(* passes apart, with Postgres the lock does until it is lost.             *)
Apart == (AtomicStore => Exclusive) /\ (lockLost \/ (Mutex /\ Fresh /\ Exclusive))

(* Between two effects of a step a pass has recorded it as failed: with    *)
(* the in-memory store whatever happens to the lock, with Postgres as long *)
(* as the lock does its work; wherever workers and approvers crash,        *)
(* whichever calls fail, and although a handler may raise after its effect *)
(* (engine._execute, RunLock, update_step of both stores).                 *)
THEOREM RepeatSafety == Spec => []RepeatsReported
<1>1. Init => Apart
  <2>1. Init => Mutex  BY DEF Init, Mutex, At, Procs
  <2>2. Init => Fresh  BY DEF Init, Fresh, Procs
  <2> QED  BY <2>1, <2>2, InitExclusive DEF Apart
<1>2. IInv /\ Apart /\ [Next]_vars => Apart'
  <2> SUFFICES ASSUME IInv, Apart, [Next]_vars PROVE Apart'
    OBVIOUS
  <2>1. TypeOK /\ Steady  BY StepSteady DEF IInv
  <2>2. AtomicStore => Exclusive'
    BY StepExclusive DEF Apart, Fresh
  <2>3. lockLost => lockLost'  BY <2>1 DEF Steady
  <2>4. CASE Mutex /\ Fresh /\ Exclusive
    BY <2>1, <2>2, <2>4, StepMutex, StepFresh, StepExclusive DEF Apart
  <2> QED  BY <2>2, <2>3, <2>4 DEF Apart
<1>3. IInv /\ Apart => RepeatsReported
  <2> SUFFICES ASSUME IInv, Exclusive, NEW i \in Steps PROVE unreported[i] <= 1
    BY DEF Apart, RepeatsReported
  <2> QED  BY DEF IInv, TypeOK, SharedType, Exclusive, Spent
<1> QED  BY <1>1, <1>2, <1>3, Invariance, PTL DEF Spec

-----------------------------------------------------------------------------
(* A token decides once *)

(* The places of an approval between the first use of its token and the    *)
(* decision it saves.                                                      *)
Holding == {"load_gate", "decide"}
SameToken(d, e) == d.gate = e.gate /\ d.channel = e.channel

(* The first use of a token is a right to one decision: whoever holds it   *)
(* holds it alone, has not decided yet, and has left the token used.       *)
Counted == \A d \in decisions : tok[d.gate][d.channel] = "used"
Held ==
    \A a \in Approvers :
        pc[a] \in Holding => tok[req[a].gate][req[a].channel] = "used"
Undecided ==
    \A a \in Approvers :
        pc[a] \in Holding => \A d \in decisions : ~SameToken(d, req[a])
OneHolder ==
    \A a, b \in Approvers :
        pc[a] \in Holding /\ pc[b] \in Holding /\ SameToken(req[a], req[b])
          => a = b
Spending == Counted /\ Held /\ Undecided /\ OneHolder /\ TokenOnce

(* A step of the system that makes no token unused again, decides nothing  *)
(* and gives no approver a token keeps Spending.                           *)
LEMMA SpendingQuiet ==
  ASSUME TypeOK, Spending, decisions' = decisions,
         \A g \in GateIds : \A c \in Channels :
             tok[g][c] = "used" => tok'[g][c] = "used",
         \A a \in Approvers :
             pc'[a] \in Holding => pc'[a] = pc[a] /\ req'[a] = req[a]
  PROVE  Spending'
<1>1. decisions \subseteq Request /\ \A a \in Approvers : req[a] \in Request
  BY DEF TypeOK, StoreType, PassType
<1>2. Counted'  BY <1>1 DEF Spending, Counted, Request
<1>3. Held'  BY <1>1 DEF Spending, Held, Request
<1>4. Undecided'  BY DEF Spending, Undecided
<1>5. OneHolder'  BY DEF Spending, OneHolder
<1>6. TokenOnce'  BY DEF Spending, TokenOnce
<1> QED  BY <1>2, <1>3, <1>4, <1>5, <1>6 DEF Spending

(* Every step of the system keeps Spending, with the in-memory store. *)
LEMMA StepSpending ==
  ASSUME AtomicStore
  PROVE  IInv /\ Spending /\ [Next]_vars => Spending'
<1> SUFFICES ASSUME IInv, Spending PROVE [Next]_vars => Spending'
  OBVIOUS
<1>0. TypeOK  BY DEF IInv
<1> USE <1>0, ProcAssumption
<1>1. ASSUME NEW w \in Workers, Acquire(w) PROVE Spending'
  BY <1>1, SpendingQuiet
  DEF Acquire, Holding, TypeOK, ProcType, PassType,
      Procs, store, At, Goto
<1>2. ASSUME NEW w \in Workers, LoadRun(w) PROVE Spending'
  BY <1>2, SpendingQuiet
  DEF LoadRun, Holding, TypeOK, ProcType, PassType,
      Procs, store, At, Goto
<1>3. ASSUME NEW w \in Workers, StartRun(w) PROVE Spending'
  BY <1>3, SpendingQuiet
  DEF StartRun, UpdateRunStatus, Holding, TypeOK, ProcType, PassType,
      Procs, store, At, Goto
<1>4. ASSUME NEW w \in Workers, GetSteps(w) PROVE Spending'
  BY <1>4, SpendingQuiet
  DEF GetSteps, Holding, TypeOK, ProcType, PassType,
      Procs, store, At, Goto
<1>5. ASSUME NEW w \in Workers, SkipStep(w) PROVE Spending'
  BY <1>5, SpendingQuiet
  DEF SkipStep, AtStep, Holding, TypeOK, ProcType, PassType,
      Procs, store, At, Goto
<1>6. ASSUME NEW w \in Workers, LookupStep(w) PROVE Spending'
  BY <1>6, SpendingQuiet
  DEF LookupStep, AtStep, Holding, TypeOK, ProcType, PassType,
      Procs, store, At, Goto
<1>7. ASSUME NEW w \in Workers, MarkRunning(w) PROVE Spending'
  BY <1>7, SpendingQuiet
  DEF MarkRunning, UpdateStep, Holding, TypeOK, ProcType, PassType,
      Procs, store, At, Goto
<1>8. ASSUME NEW w \in Workers, HandlerReturns(w) PROVE Spending'
  BY <1>8, SpendingQuiet
  DEF HandlerReturns, Holding, TypeOK, ProcType, PassType,
      Procs, store, At, Goto
<1>9. ASSUME NEW w \in Workers, HandlerRaises(w) PROVE Spending'
  BY <1>9, SpendingQuiet
  DEF HandlerRaises, Holding, TypeOK, ProcType, PassType,
      Procs, store, At, Goto
<1>10. ASSUME NEW w \in Workers, Reserve(w) PROVE Spending'
  BY <1>10, SpendingQuiet
  DEF Reserve, Holding, TypeOK, ProcType, PassType,
      Procs, store, At, Goto
<1>11. ASSUME NEW w \in Workers, Record(w) PROVE Spending'
  BY <1>11, SpendingQuiet
  DEF Record, Holding, TypeOK, ProcType, PassType,
      Procs, store, At, Goto
<1>12. ASSUME NEW w \in Workers, MarkSucceeded(w) PROVE Spending'
  BY <1>12, SpendingQuiet
  DEF MarkSucceeded, UpdateStep, Holding, TypeOK, ProcType, PassType,
      Procs, store, At, Goto
<1>13. ASSUME NEW w \in Workers, MarkFailed(w) PROVE Spending'
  BY <1>13, SpendingQuiet
  DEF MarkFailed, UpdateStep, Holding, TypeOK, ProcType, PassType,
      Procs, store, At, Goto
<1>14. ASSUME NEW w \in Workers, RetryStep(w) PROVE Spending'
  BY <1>14, SpendingQuiet
  DEF RetryStep, UpdateStep, Holding, TypeOK, ProcType, PassType,
      Procs, store, At, Goto
<1>15. ASSUME NEW w \in Workers, Compensate(w) PROVE Spending'
  BY <1>15, SpendingQuiet
  DEF Compensate, Holding, TypeOK, ProcType, PassType,
      Procs, store, At, Goto
<1>16. ASSUME NEW w \in Workers, ParkRun(w) PROVE Spending'
  BY <1>16, SpendingQuiet
  DEF ParkRun, UpdateRunStatus, Holding, TypeOK, ProcType, PassType,
      Procs, store, At, Goto
<1>17. ASSUME NEW w \in Workers, FinishLoop(w) PROVE Spending'
  BY <1>17, SpendingQuiet
  DEF FinishLoop, Holding, TypeOK, ProcType, PassType,
      Procs, store, At, Goto
<1>18. ASSUME NEW w \in Workers, FinishRun(w) PROVE Spending'
  BY <1>18, SpendingQuiet
  DEF FinishRun, UpdateRunStatus, Holding, TypeOK, ProcType, PassType,
      Procs, store, At, Goto
<1>19. ASSUME NEW w \in Workers, AwaitApproval(w) PROVE Spending'
  BY <1>19, SpendingQuiet
  DEF AwaitApproval, UpdateRunStatus, Holding, TypeOK, ProcType, PassType,
      Procs, store, At, Goto
<1>20. ASSUME NEW w \in Workers, Release(w) PROVE Spending'
  BY <1>20, SpendingQuiet
  DEF Release, Forget, Holding, TypeOK, ProcType, PassType,
      Procs, store, At, Goto
<1>21. ASSUME NEW w \in Workers, AcquireDegraded(w) PROVE Spending'
  BY <1>21, SpendingQuiet
  DEF AcquireDegraded, Fault, Holding, TypeOK, ProcType, PassType,
      Procs, store, At, Goto
<1>22. ASSUME NEW w \in Workers, ReleaseFails(w) PROVE Spending'
  BY <1>22, SpendingQuiet
  DEF ReleaseFails, Forget, Fault, Holding, TypeOK, ProcType, PassType,
      Procs, store, At, Goto
<1>23. ASSUME NEW w \in Workers, CrashWorker(w) PROVE Spending'
  BY <1>23, SpendingQuiet
  DEF CrashWorker, Forget, Fault, Holding, TypeOK, ProcType, PassType,
      Procs, store, At, Goto
<1>24. ASSUME NEW w \in Workers, CallFails(w) PROVE Spending'
  BY <1>24, SpendingQuiet
  DEF CallFails, Fault, AtStep, Holding, TypeOK, ProcType, PassType,
      Procs, store, At, Goto
<1>25. ASSUME NEW w \in Workers, CreateGate(w) PROVE Spending'
  BY <1>25, SpendingQuiet
  DEF CreateGate, AtStep, Holding, TypeOK, ProcType, PassType,
      Procs, store, At, Goto
<1>26. ASSUME NEW w \in Workers, IssueToken(w) PROVE Spending'
  <2>1. PICK c \in Channels :
          /\ tok[myGate[w]][c] = "none"
          /\ tok' = [tok EXCEPT ![myGate[w]][c] = "fresh"]
    BY <1>26 DEF IssueToken
  <2>2. \A g \in GateIds : \A d \in Channels :
           tok[g][d] = "used" => tok'[g][d] = "used"
    BY <2>1 DEF TypeOK, StoreType, PassType
  <2>3. decisions' = decisions /\ req' = req
    BY <1>26 DEF IssueToken
  <2>4. \A a \in Approvers : pc'[a] = pc[a]
    BY <1>26 DEF IssueToken, Goto, TypeOK, ProcType, Procs
  <2> QED  BY <2>2, <2>3, <2>4, SpendingQuiet
<1>27. ASSUME NEW a \in Approvers, NEW r \in Request, PresentToken(a, r) PROVE Spending'
  <2>1. req' = [req EXCEPT ![a] = r] /\ pc' = [pc EXCEPT ![a] = "mark_used"]
    BY <1>27 DEF PresentToken, Goto
  <2>2. \A b \in Approvers : pc'[b] \in Holding => pc'[b] = pc[b] /\ req'[b] = req[b]
    BY <2>1 DEF Holding, TypeOK, ProcType, PassType, Procs
  <2>3. tok' = tok /\ decisions' = decisions
    BY <1>27 DEF PresentToken, store
  <2> QED  BY <2>2, <2>3, SpendingQuiet
<1>28. ASSUME NEW a \in Approvers, MarkTokenUsed(a) PROVE Spending'
  <2>1. decisions' = decisions /\ pc[a] = "mark_used" /\ req[a] \in Request
    BY <1>28 DEF MarkTokenUsed, At, TypeOK, PassType
  <2>2. Seen(a) = tok[req[a].gate][req[a].channel]
    BY <2>1 DEF Seen, Target, RunWrites, StepWrites
  <2>3. CASE Seen(a) = "fresh"
    <3>1. /\ tok' = [tok EXCEPT ![req[a].gate][req[a].channel] = "used"]
          /\ pc' = [pc EXCEPT ![a] = "load_gate"]
          /\ req' = req
      BY <1>28, <2>3 DEF MarkTokenUsed, Goto
    <3>2. /\ tok'[req[a].gate][req[a].channel] = "used"
          /\ \A g \in GateIds : \A c \in Channels :
               tok[g][c] = "used" => tok'[g][c] = "used"
      BY <2>1, <3>1 DEF TypeOK, StoreType, Request
    <3>3. pc'[a] = "load_gate" /\ \A b \in Approvers : b # a => pc'[b] = pc[b]
      BY <3>1 DEF TypeOK, ProcType, Procs
    <3>4. \A d \in decisions : ~SameToken(d, req[a])
      BY <2>2, <2>3 DEF Spending, Counted, SameToken
    <3>5. \A b \in Approvers : pc[b] \in Holding => ~SameToken(req[b], req[a])
      BY <2>2, <2>3 DEF Spending, Held, SameToken
    <3>6. Counted'  BY <2>1, <3>2 DEF Spending, Counted, TypeOK, StoreType, Request
    <3>7. Held'
      BY <2>1, <3>1, <3>2, <3>3 DEF Spending, Held, TypeOK, PassType, Request
    <3>8. Undecided'
      BY <2>1, <3>1, <3>3, <3>4 DEF Spending, Undecided
    <3>9. OneHolder'
      <4> SUFFICES ASSUME NEW b \in Approvers, NEW e \in Approvers,
                          pc'[b] \in Holding, pc'[e] \in Holding,
                          SameToken(req[b], req[e])
                   PROVE  b = e
        BY <3>1 DEF OneHolder
      <4>1. SameToken(req[e], req[b])  BY DEF SameToken
      <4> QED  BY <3>3, <3>5, <4>1 DEF Spending, OneHolder
    <3>10. TokenOnce'  BY <2>1 DEF Spending, TokenOnce
    <3> QED  BY <3>6, <3>7, <3>8, <3>9, <3>10 DEF Spending
  <2>4. CASE Seen(a) # "fresh"
    <3>1. /\ tok' = tok
          /\ pc' = [pc EXCEPT ![a] = "idle"]
          /\ req' = [req EXCEPT ![a] = NoRequest]
      BY <1>28, <2>4 DEF MarkTokenUsed, Leave, Goto
    <3>2. \A b \in Approvers : pc'[b] \in Holding => pc'[b] = pc[b] /\ req'[b] = req[b]
      BY <3>1 DEF Holding, TypeOK, ProcType, PassType, Procs
    <3> QED  BY <2>1, <3>1, <3>2, SpendingQuiet
  <2> QED  BY <2>3, <2>4
<1>29. ASSUME NEW a \in Approvers, CheckGate(a) PROVE Spending'
  <2>1. pc[a] = "load_gate" /\ tok' = tok /\ decisions' = decisions
    BY <1>29 DEF CheckGate, At, store
  <2>2. CASE gate[req[a].gate].status = "pending" /\ req[a].actor \in Authorized
    <3>1. req' = req /\ pc' = [pc EXCEPT ![a] = "decide"]
      BY <1>29, <2>2 DEF CheckGate, Goto
    <3>2. \A b \in Approvers : pc'[b] \in Holding => pc[b] \in Holding
      BY <2>1, <3>1 DEF Holding, TypeOK, ProcType, Procs
    <3> QED
      BY <2>1, <3>1, <3>2
      DEF Spending, Counted, Held, Undecided, OneHolder, TokenOnce
  <2>3. CASE ~(gate[req[a].gate].status = "pending" /\ req[a].actor \in Authorized)
    <3>1. pc' = [pc EXCEPT ![a] = "idle"] /\ req' = [req EXCEPT ![a] = NoRequest]
      BY <1>29, <2>3 DEF CheckGate, Leave, Goto
    <3>2. \A b \in Approvers : pc'[b] \in Holding => pc'[b] = pc[b] /\ req'[b] = req[b]
      BY <3>1 DEF Holding, TypeOK, ProcType, PassType, Procs
    <3> QED  BY <2>1, <3>2, SpendingQuiet
  <2> QED  BY <2>2, <2>3
<1>30. ASSUME NEW a \in Approvers, SaveDecision(a) PROVE Spending'
  <2>1. /\ pc[a] = "decide" /\ tok' = tok /\ req' = req
        /\ decisions' = decisions \cup {req[a]}
    BY <1>30 DEF SaveDecision, At
  <2>2. pc'[a] = "update_gate" /\ \A b \in Approvers : b # a => pc'[b] = pc[b]
    BY <1>30 DEF SaveDecision, Goto, TypeOK, ProcType, Procs
  <2>3. tok[req[a].gate][req[a].channel] = "used"
        /\ \A d \in decisions : ~SameToken(d, req[a])
    BY <2>1 DEF Spending, Held, Undecided, Holding
  <2>4. \A b \in Approvers : b # a /\ pc[b] \in Holding => ~SameToken(req[a], req[b])
    BY <2>1 DEF Spending, OneHolder, Holding
  <2>5. \A b \in Approvers : pc'[b] \in Holding => b # a /\ pc[b] \in Holding
    BY <2>2 DEF Holding
  <2>6. Counted'  BY <2>1, <2>3 DEF Spending, Counted
  <2>7. Held'  BY <2>1, <2>5 DEF Spending, Held
  <2>8. Undecided'  BY <2>1, <2>4, <2>5 DEF Spending, Undecided
  <2>9. OneHolder'  BY <2>1, <2>5 DEF Spending, OneHolder
  <2>10. TokenOnce'  BY <2>1, <2>3 DEF Spending, TokenOnce, SameToken
  <2> QED  BY <2>6, <2>7, <2>8, <2>9, <2>10 DEF Spending
<1>31. ASSUME NEW a \in Approvers, UpdateGate(a) PROVE Spending'
  BY <1>31, SpendingQuiet
  DEF UpdateGate, Holding, TypeOK, ProcType, PassType,
      Procs, store, At, Goto
<1>32. ASSUME NEW a \in Approvers, ResumeRun(a) PROVE Spending'
  BY <1>32, SpendingQuiet
  DEF ResumeRun, UpdateRunStatus, Holding, TypeOK, ProcType, PassType,
      Procs, store, At, Goto
<1>33. ASSUME NEW a \in Approvers, RejectRun(a) PROVE Spending'
  BY <1>33, SpendingQuiet
  DEF RejectRun, UpdateRunStatus, Holding, TypeOK, ProcType, PassType,
      Procs, store, At, Goto
<1>34. ASSUME NEW a \in Approvers, AdvanceGateStep(a) PROVE Spending'
  BY <1>34, SpendingQuiet
  DEF AdvanceGateStep, Leave, Holding, TypeOK, ProcType, PassType,
      Procs, store, At, Goto
<1>35. ASSUME NEW a \in Approvers, CrashApprover(a) PROVE Spending'
  BY <1>35, SpendingQuiet
  DEF CrashApprover, Leave, Fault, Holding, TypeOK, ProcType, PassType,
      Procs, store, At, Goto
<1>36. ASSUME NEW p \in Procs, Select(p) PROVE Spending'
  BY <1>36, SpendingQuiet
  DEF Select, Holding, TypeOK, ProcType, PassType,
      Procs, store, At, Goto
<1>37. ASSUME RecoverySweep PROVE Spending'
  BY <1>37, SpendingQuiet
  DEF RecoverySweep, Holding, TypeOK, ProcType, PassType,
      Procs, store, At, Goto
<1>38. ASSUME LockExpires PROVE Spending'
  BY <1>38, SpendingQuiet
  DEF LockExpires, Holding, TypeOK, ProcType, PassType,
      Procs, store, At, Goto
<1>39. ASSUME LockExpiresEarly PROVE Spending'
  BY <1>39, SpendingQuiet
  DEF LockExpiresEarly, Holding, TypeOK, ProcType, PassType,
      Procs, store, At, Goto
<1>40. ASSUME NEW g \in GateIds, TokensExpire(g) PROVE Spending'
  BY <1>40, SpendingQuiet
  DEF TokensExpire, Holding, TypeOK, ProcType, PassType,
      Procs, store, At, Goto
<1>41. ASSUME UNCHANGED vars PROVE Spending'
  BY <1>41, SpendingQuiet
  DEF vars, Holding, TypeOK, ProcType, PassType,
      Procs, store, At, Goto
<1> QED
  BY <1>1, <1>2, <1>3, <1>4, <1>5, <1>6, <1>7, <1>8, <1>9, <1>10,
     <1>11, <1>12, <1>13, <1>14, <1>15, <1>16, <1>17, <1>18, <1>19,
     <1>20, <1>21, <1>22, <1>23, <1>24, <1>25, <1>26, <1>27, <1>28,
     <1>29, <1>30, <1>31, <1>32, <1>33, <1>34, <1>35, <1>36, <1>37,
     <1>38, <1>39, <1>40, <1>41
     DEF Next, Pass, Resolve, Disturb

(* With the in-memory store one approval token never records two different *)
(* decisions, however many callers present it at the same time             *)
(* (gates.resolve_gate, InMemoryRunStore.mark_token_used).                 *)
THEOREM TokenOnceInMemory ==
  ASSUME AtomicStore
  PROVE  Spec => []TokenOnce
<1>1. Init => Spending
  BY DEF Init, Spending, Counted, Held, Undecided, OneHolder, TokenOnce,
         Holding, Procs
<1>2. IInv /\ Spending /\ [Next]_vars => Spending'
  BY StepSpending
<1>3. Spending => TokenOnce  BY DEF Spending
<1> QED  BY <1>1, <1>2, <1>3, Invariance, PTL DEF Spec

-----------------------------------------------------------------------------
(* The run row moves along the transition table *)

Edge == run' = run \/ <<run, run'>> \in RunTransitions

(* With the in-memory store update_run_status checks the row it writes.    *)
LEMMA RunEdge ==
  ASSUME AtomicStore, NEW p \in Procs, pc[p] \in RunWrites,
         NEW new, NEW good, NEW bad, UpdateRunStatus(p, new, good, bad)
  PROVE  Edge
  BY DEF UpdateRunStatus, Seen, Target, Edge

(* With the in-memory store every change of the run row is an edge of the
   transition table of states.py. *)
LEMMA StepEdge == ASSUME AtomicStore PROVE [Next]_vars => Edge
<1>1. ASSUME NEW w \in Workers, Acquire(w) PROVE Edge
  BY <1>1 DEF Acquire, Edge, store
<1>2. ASSUME NEW w \in Workers, LoadRun(w) PROVE Edge
  BY <1>2 DEF LoadRun, Edge, store
<1>3. ASSUME NEW w \in Workers, StartRun(w) PROVE Edge
  BY <1>3, RunEdge DEF StartRun, At, RunWrites, Edge, Procs
<1>4. ASSUME NEW w \in Workers, GetSteps(w) PROVE Edge
  BY <1>4 DEF GetSteps, Edge, store
<1>5. ASSUME NEW w \in Workers, SkipStep(w) PROVE Edge
  BY <1>5 DEF SkipStep, AtStep, Edge, store
<1>6. ASSUME NEW w \in Workers, LookupStep(w) PROVE Edge
  BY <1>6 DEF LookupStep, AtStep, Edge, store
<1>7. ASSUME NEW w \in Workers, MarkRunning(w) PROVE Edge
  BY <1>7 DEF MarkRunning, UpdateStep, Edge, store
<1>8. ASSUME NEW w \in Workers, HandlerReturns(w) PROVE Edge
  BY <1>8 DEF HandlerReturns, Edge, store
<1>9. ASSUME NEW w \in Workers, HandlerRaises(w) PROVE Edge
  BY <1>9 DEF HandlerRaises, Edge, store
<1>10. ASSUME NEW w \in Workers, Reserve(w) PROVE Edge
  BY <1>10 DEF Reserve, Edge, store
<1>11. ASSUME NEW w \in Workers, Record(w) PROVE Edge
  BY <1>11 DEF Record, Edge, store
<1>12. ASSUME NEW w \in Workers, MarkSucceeded(w) PROVE Edge
  BY <1>12 DEF MarkSucceeded, UpdateStep, Edge, store
<1>13. ASSUME NEW w \in Workers, MarkFailed(w) PROVE Edge
  BY <1>13 DEF MarkFailed, UpdateStep, Edge, store
<1>14. ASSUME NEW w \in Workers, RetryStep(w) PROVE Edge
  BY <1>14 DEF RetryStep, UpdateStep, Edge, store
<1>15. ASSUME NEW w \in Workers, Compensate(w) PROVE Edge
  BY <1>15 DEF Compensate, Edge, store
<1>16. ASSUME NEW w \in Workers, ParkRun(w) PROVE Edge
  BY <1>16, RunEdge DEF ParkRun, At, RunWrites, Edge, Procs
<1>17. ASSUME NEW w \in Workers, FinishLoop(w) PROVE Edge
  BY <1>17 DEF FinishLoop, Edge, store
<1>18. ASSUME NEW w \in Workers, FinishRun(w) PROVE Edge
  BY <1>18, RunEdge DEF FinishRun, At, RunWrites, Edge, Procs
<1>19. ASSUME NEW w \in Workers, AwaitApproval(w) PROVE Edge
  BY <1>19, RunEdge DEF AwaitApproval, At, RunWrites, Edge, Procs
<1>20. ASSUME NEW w \in Workers, Release(w) PROVE Edge
  BY <1>20 DEF Release, Forget, Edge, store
<1>21. ASSUME NEW w \in Workers, AcquireDegraded(w) PROVE Edge
  BY <1>21 DEF AcquireDegraded, Fault, Edge, store
<1>22. ASSUME NEW w \in Workers, ReleaseFails(w) PROVE Edge
  BY <1>22 DEF ReleaseFails, Forget, Fault, Edge, store
<1>23. ASSUME NEW w \in Workers, CrashWorker(w) PROVE Edge
  BY <1>23 DEF CrashWorker, Forget, Fault, Edge, store
<1>24. ASSUME NEW w \in Workers, CallFails(w) PROVE Edge
  BY <1>24 DEF CallFails, Fault, AtStep, Edge, store
<1>25. ASSUME NEW w \in Workers, CreateGate(w) PROVE Edge
  BY <1>25 DEF CreateGate, AtStep, Edge, store
<1>26. ASSUME NEW w \in Workers, IssueToken(w) PROVE Edge
  BY <1>26 DEF IssueToken, Edge, store
<1>27. ASSUME NEW a \in Approvers, NEW r \in Request, PresentToken(a, r) PROVE Edge
  BY <1>27 DEF PresentToken, Edge, store
<1>28. ASSUME NEW a \in Approvers, MarkTokenUsed(a) PROVE Edge
  BY <1>28 DEF MarkTokenUsed, Leave, Edge, store
<1>29. ASSUME NEW a \in Approvers, CheckGate(a) PROVE Edge
  BY <1>29 DEF CheckGate, Leave, Edge, store
<1>30. ASSUME NEW a \in Approvers, SaveDecision(a) PROVE Edge
  BY <1>30 DEF SaveDecision, Edge, store
<1>31. ASSUME NEW a \in Approvers, UpdateGate(a) PROVE Edge
  BY <1>31 DEF UpdateGate, Edge, store
<1>32. ASSUME NEW a \in Approvers, ResumeRun(a) PROVE Edge
  BY <1>32, RunEdge DEF ResumeRun, At, RunWrites, Edge, Procs
<1>33. ASSUME NEW a \in Approvers, RejectRun(a) PROVE Edge
  BY <1>33, RunEdge DEF RejectRun, At, RunWrites, Edge, Procs
<1>34. ASSUME NEW a \in Approvers, AdvanceGateStep(a) PROVE Edge
  BY <1>34 DEF AdvanceGateStep, Leave, Edge, store
<1>35. ASSUME NEW a \in Approvers, CrashApprover(a) PROVE Edge
  BY <1>35 DEF CrashApprover, Leave, Fault, Edge, store
<1>36. ASSUME NEW p \in Procs, Select(p) PROVE Edge
  BY <1>36 DEF Select, Edge, store
<1>37. ASSUME RecoverySweep PROVE Edge
  BY <1>37 DEF RecoverySweep, Edge, store
<1>38. ASSUME LockExpires PROVE Edge
  BY <1>38 DEF LockExpires, Edge, store
<1>39. ASSUME LockExpiresEarly PROVE Edge
  BY <1>39 DEF LockExpiresEarly, Edge, store
<1>40. ASSUME NEW g \in GateIds, TokensExpire(g) PROVE Edge
  BY <1>40 DEF TokensExpire, Edge, store
<1>41. ASSUME UNCHANGED vars PROVE Edge
  BY <1>41 DEF vars, Edge, store
<1> QED
  BY <1>1, <1>2, <1>3, <1>4, <1>5, <1>6, <1>7, <1>8, <1>9, <1>10,
     <1>11, <1>12, <1>13, <1>14, <1>15, <1>16, <1>17, <1>18, <1>19,
     <1>20, <1>21, <1>22, <1>23, <1>24, <1>25, <1>26, <1>27, <1>28,
     <1>29, <1>30, <1>31, <1>32, <1>33, <1>34, <1>35, <1>36, <1>37,
     <1>38, <1>39, <1>40, <1>41
     DEF Next, Pass, Resolve, Disturb

(* With the in-memory store a run that is succeeded, rejected or cancelled *)
(* stays so, whatever late passes and late approvals do                    *)
(* (InMemoryRunStore.update_run_status, the tables of states.py).          *)
THEOREM TerminalInMemory ==
  ASSUME AtomicStore
  PROVE  Spec => TerminalIsFinal
<1>1. [Next]_vars =>
        [(run \in {"succeeded", "rejected", "cancelled"}) => (run' = run)]_vars
  BY StepEdge DEF Edge, RunTransitions
<1> QED  BY <1>1, PTL DEF Spec, TerminalIsFinal

-----------------------------------------------------------------------------
(* The contract of a run *)

(* A gate that was requested has been reached: the pass that requested it  *)
(* had everything before it behind.                                        *)
GatesReached ==
    \A g \in GateIds : Requested(g) =>
        \A j \in Steps : j < gate[g].step => Passed(j)

(* What the contract is about stays as it is. *)
Still == UNCHANGED <<run, gate, decisions, effects>>

(* The step only makes the run row move, to a status that is not an end of *)
(* the run, from one that is not an end either.                            *)
Ends == {"succeeded", "rejected", "cancelled"}
Moves ==
    /\ UNCHANGED <<gate, decisions, effects>>
    /\ run' = run \/ (run \notin Ends /\ run' \notin Ends)

(* The step is the effect of the step that pass w is at.                   *)
Affects(w) == At(w, "handler") /\ Effect(w) /\ UNCHANGED <<run, gate, decisions>>

(* With the in-memory store update_run_status leaves no end of the run.    *)
LEMMA RunMove ==
  ASSUME AtomicStore, NEW p \in Procs, pc[p] \in RunWrites,
         NEW new, NEW good, NEW bad, UpdateRunStatus(p, new, good, bad)
  PROVE  run' = run \/ (run \notin Ends /\ run' = new)
  BY RunEdge DEF Edge, RunTransitions, Ends, UpdateRunStatus

(* What each step of the system does to the things the contract speaks of: *)
(* only seven kinds of steps touch them.                                   *)
LEMMA StepKinds ==
  ASSUME AtomicStore, [Next]_vars
  PROVE  \/ Still
         \/ Moves
         \/ \E w \in Workers : \/ Affects(w)
                              \/ FinishRun(w)
                              \/ CreateGate(w)
         \/ \E a \in Approvers : \/ SaveDecision(a)
                                \/ UpdateGate(a)
                                \/ RejectRun(a)
<1> USE DEF Still, store, world
<1>1. ASSUME NEW w \in Workers, Acquire(w) PROVE Still
  BY <1>1 DEF Acquire
<1>2. ASSUME NEW w \in Workers, LoadRun(w) PROVE Still
  BY <1>2 DEF LoadRun
<1>3. ASSUME NEW w \in Workers, GetSteps(w) PROVE Still
  BY <1>3 DEF GetSteps
<1>4. ASSUME NEW w \in Workers, SkipStep(w) PROVE Still
  BY <1>4 DEF SkipStep
<1>5. ASSUME NEW w \in Workers, LookupStep(w) PROVE Still
  BY <1>5 DEF LookupStep
<1>6. ASSUME NEW w \in Workers, MarkRunning(w) PROVE Still
  BY <1>6 DEF MarkRunning, UpdateStep
<1>7. ASSUME NEW w \in Workers, HandlerRaises(w) PROVE Still \/ Affects(w)
  BY <1>7 DEF HandlerRaises, Affects
<1>36. ASSUME NEW w \in Workers, HandlerReturns(w) PROVE Affects(w)
  BY <1>36 DEF HandlerReturns, Affects
<1>8. ASSUME NEW w \in Workers, Reserve(w) PROVE Still
  BY <1>8 DEF Reserve
<1>9. ASSUME NEW w \in Workers, Record(w) PROVE Still
  BY <1>9 DEF Record
<1>10. ASSUME NEW w \in Workers, MarkSucceeded(w) PROVE Still
  BY <1>10 DEF MarkSucceeded, UpdateStep
<1>11. ASSUME NEW w \in Workers, MarkFailed(w) PROVE Still
  BY <1>11 DEF MarkFailed, UpdateStep
<1>12. ASSUME NEW w \in Workers, RetryStep(w) PROVE Still
  BY <1>12 DEF RetryStep, UpdateStep
<1>13. ASSUME NEW w \in Workers, Compensate(w) PROVE Still
  BY <1>13 DEF Compensate
<1>14. ASSUME NEW w \in Workers, FinishLoop(w) PROVE Still
  BY <1>14 DEF FinishLoop
<1>15. ASSUME NEW w \in Workers, Release(w) PROVE Still
  BY <1>15 DEF Release
<1>16. ASSUME NEW w \in Workers, AcquireDegraded(w) PROVE Still
  BY <1>16 DEF AcquireDegraded
<1>17. ASSUME NEW w \in Workers, ReleaseFails(w) PROVE Still
  BY <1>17 DEF ReleaseFails
<1>18. ASSUME NEW w \in Workers, CrashWorker(w) PROVE Still
  BY <1>18 DEF CrashWorker
<1>19. ASSUME NEW w \in Workers, CallFails(w) PROVE Still
  BY <1>19 DEF CallFails
<1>20. ASSUME NEW w \in Workers, IssueToken(w) PROVE Still
  BY <1>20 DEF IssueToken
<1>21. ASSUME NEW a \in Approvers, MarkTokenUsed(a) PROVE Still
  BY <1>21 DEF MarkTokenUsed
<1>22. ASSUME NEW a \in Approvers, CheckGate(a) PROVE Still
  BY <1>22 DEF CheckGate
<1>23. ASSUME NEW a \in Approvers, AdvanceGateStep(a) PROVE Still
  BY <1>23 DEF AdvanceGateStep
<1>24. ASSUME NEW a \in Approvers, CrashApprover(a) PROVE Still
  BY <1>24 DEF CrashApprover
<1>25. ASSUME NEW a \in Approvers, NEW r \in Request, PresentToken(a, r) PROVE Still
  BY <1>25 DEF PresentToken
<1>26. ASSUME NEW p \in Procs, Select(p) PROVE Still
  BY <1>26 DEF Select
<1>27. ASSUME RecoverySweep PROVE Still
  BY <1>27 DEF RecoverySweep
<1>28. ASSUME LockExpires PROVE Still
  BY <1>28 DEF LockExpires
<1>29. ASSUME LockExpiresEarly PROVE Still
  BY <1>29 DEF LockExpiresEarly
<1>30. ASSUME NEW g \in GateIds, TokensExpire(g) PROVE Still
  BY <1>30 DEF TokensExpire
<1>31. ASSUME UNCHANGED vars PROVE Still
  BY <1>31 DEF vars
<1>32. ASSUME NEW w \in Workers, StartRun(w) PROVE Moves
  BY <1>32, RunMove DEF StartRun, Moves, Ends, At, RunWrites, Procs
<1>33. ASSUME NEW w \in Workers, ParkRun(w) PROVE Moves
  BY <1>33, RunMove DEF ParkRun, Moves, Ends, At, RunWrites, Procs
<1>34. ASSUME NEW w \in Workers, AwaitApproval(w) PROVE Moves
  BY <1>34, RunMove DEF AwaitApproval, Moves, Ends, At, RunWrites, Procs
<1>35. ASSUME NEW a \in Approvers, ResumeRun(a) PROVE Moves
  BY <1>35, RunMove DEF ResumeRun, Moves, Ends, At, RunWrites, Procs
<1> QED
  BY <1>1, <1>2, <1>3, <1>4, <1>5, <1>6, <1>7, <1>8, <1>9, <1>10, <1>11,
     <1>12, <1>13, <1>14, <1>15, <1>16, <1>17, <1>18, <1>19, <1>20, <1>21,
     <1>22, <1>23, <1>24, <1>25, <1>26, <1>27, <1>28, <1>29, <1>30, <1>31,
     <1>32, <1>33, <1>34, <1>35, <1>36
     DEF Next, Pass, Resolve, Disturb

(* The gate requests of the next state are those of this one, or new ones  *)
(* for the step a pass is at.                                              *)
LEMMA RequestsStay ==
  ASSUME AtomicStore, TypeOK, Known, [Next]_vars, NEW g \in GateIds, Requested(g)'
  PROVE  \/ Requested(g) /\ gate'[g].step = gate[g].step
         \/ \E w \in Workers : gate'[g].step = idx[w]
<1> USE DEF TypeOK, StoreType, Requested
<1>1. CASE Still \/ Moves
  BY <1>1 DEF Still, Moves
<1>2. ASSUME NEW w \in Workers, Affects(w) \/ FinishRun(w) PROVE gate' = gate
  BY <1>2 DEF Affects, FinishRun
<1>3. ASSUME NEW a \in Approvers, SaveDecision(a) \/ RejectRun(a) PROVE gate' = gate
  BY <1>3 DEF SaveDecision, RejectRun
<1>4. ASSUME NEW w \in Workers, CreateGate(w)
      PROVE  gate'[g] = gate[g] \/ gate'[g].step = idx[w]
  BY <1>4 DEF CreateGate
<1>5. ASSUME NEW a \in Approvers, UpdateGate(a)
      PROVE  Requested(g) /\ gate'[g].step = gate[g].step
  BY <1>5 DEF UpdateGate, Known, At, GateRequest, PassType, Request
<1> QED
  BY <1>1, <1>2, <1>3, <1>4, <1>5, StepKinds

(* A gate that is requested stays reached, and so is a new one. *)
LEMMA StepReached ==
  ASSUME AtomicStore, IInv, IInv', GatesReached, [Next]_vars
  PROVE  GatesReached'
<1> SUFFICES ASSUME NEW g \in GateIds, Requested(g)',
                    NEW j \in Steps, j < gate'[g].step
             PROVE  Passed(j)'
  BY DEF GatesReached
<1>1. TypeOK /\ TypeOK' /\ Known /\ PlacesSound
  BY DEF IInv, Sound
<1>2. Steady
  BY <1>1, StepSteady
<1>3. Passed(j)
  <2>1. CASE Requested(g) /\ gate'[g].step = gate[g].step
    BY <2>1 DEF GatesReached
  <2>2. ASSUME NEW w \in Workers, gate'[g].step = idx[w] PROVE Passed(j)
    BY <1>1, <2>2 DEF PlacesSound
  <2> QED
    BY <1>1, <2>1, <2>2, RequestsStay
<1> QED
  BY <1>1, <1>2, <1>3, PassedStays

(* The variables of the contract. *)
Done == {i \in Steps : Passed(i)}
RefusedGates == {i \in GateSteps : Refused(i)}
Outcome == IF run \in Ends THEN run ELSE "open"

(* As long as no decision is recorded the gates are as approved and as     *)
(* refused as before: no request changes the step it is for.               *)
LEMMA GatesSettled ==
  ASSUME TypeOK, Known, Steady, decisions' = decisions
  PROVE  \A i \in GateSteps : (Approved(i)' <=> Approved(i)) /\ (Refused(i)' <=> Refused(i))
<1>1. \A d \in decisions : gate'[d.gate].step = gate[d.gate].step
  BY DEF TypeOK, StoreType, Known, Steady, Request
<1> QED
  BY <1>1 DEF Approved, Refused

(* Without a new decision or effect the contract sees only the outcome.    *)
LEMMA DoneSettled ==
  ASSUME TypeOK, Known, Steady, decisions' = decisions, effects' = effects
  PROVE  Done' = Done /\ RefusedGates' = RefusedGates
<1>1. \A i \in GateSteps : (Approved(i)' <=> Approved(i)) /\ (Refused(i)' <=> Refused(i))
  BY GatesSettled
<1>2. \A i \in Steps : Passed(i)' <=> Passed(i)
  BY <1>1 DEF Passed
<1> QED
  BY <1>1, <1>2 DEF Done, RefusedGates

(* An effect completes the step the pass is at, unless it was complete     *)
(* before (engine._execute).                                               *)
LEMMA EffectCompletes ==
  ASSUME IInv, Steady, NEW w \in Workers, Affects(w)
  PROVE  /\ RefusedGates' = RefusedGates /\ run' = run
         /\ \/ Done' = Done
            \/ /\ idx[w] \in Steps \ Done
               /\ Done' = Done \cup {idx[w]}
               /\ \A j \in Steps : j < idx[w] => j \in Done
<1> DEFINE i == idx[w]
<1>0. TypeOK /\ Known /\ PlacesSound /\ Located
  BY DEF IInv, Sound
<1>1. i \in Steps \ GateSteps
  BY <1>0 DEF Located, Affects, At
<1>2. effects' = effects \cup {i}
  BY DEF Affects, Effect
<1>3. decisions' = decisions /\ run' = run
  BY DEF Affects
<1>4. \A k \in GateSteps : (Approved(k)' <=> Approved(k)) /\ (Refused(k)' <=> Refused(k))
  BY <1>0, <1>3, GatesSettled
<1>5. RefusedGates' = RefusedGates
  BY <1>4 DEF RefusedGates
<1>6. Done' = Done \cup {i}
  <2> HIDE DEF i
  <2>1. ASSUME NEW k \in Steps PROVE Passed(k)' <=> (Passed(k) \/ k = i)
    <3>1. CASE k \in GateSteps
      BY <1>1, <1>4, <3>1 DEF Passed
    <3>2. CASE k \notin GateSteps
      BY <1>2, <3>2 DEF Passed
    <3> QED
      BY <3>1, <3>2
  <2> QED
    BY <1>1, <2>1 DEF Done
<1>7. \A j \in Steps : j < i => j \in Done
  BY <1>0 DEF PlacesSound, Done
<1> QED
  BY <1>1, <1>3, <1>5, <1>6, <1>7

(* A decision approves or refuses the gate it is about, which has been     *)
(* reached, unless that was decided so before (gates.resolve_gate).        *)
LEMMA DecisionCompletes ==
  ASSUME IInv, GatesReached, NEW a \in Approvers, SaveDecision(a)
  PROVE  /\ run' = run
         /\ \E i \in GateSteps :
              /\ \A j \in Steps : j < i => j \in Done
              /\ \/ Done' = Done /\ RefusedGates' = RefusedGates
                 \/ i \notin Done /\ Done' = Done \cup {i} /\ RefusedGates' = RefusedGates
                 \/ i \notin RefusedGates /\ RefusedGates' = RefusedGates \cup {i} /\ Done' = Done
<1> DEFINE r == req[a]
           i == gate[r.gate].step
<1>0. TypeOK /\ Known
  BY DEF IInv
<1>1. r \in Request /\ Requested(r.gate) /\ r.actor \in Authorized
  BY <1>0 DEF TypeOK, PassType, Known, SaveDecision, At, Deciding
<1>2. r.gate \in GateIds /\ i \in GateSteps /\ i \in Steps /\ r.decision \in {"approve", "reject"}
  <2>1. r.gate \in GateIds /\ r.decision \in Decisions
    BY <1>1 DEF Request
  <2>2. i \in GateSteps
    BY <1>0, <1>1, <2>1 DEF Known
  <2> QED
    BY <2>1, <2>2 DEF Steps
<1>3. decisions' = decisions \cup {r} /\ gate' = gate /\ effects' = effects /\ run' = run
  BY DEF SaveDecision, world
<1>4. \A j \in Steps : j < i => j \in Done
  BY <1>1, <1>2 DEF GatesReached, Done
<1> HIDE DEF r, i
<1>5. CASE r.decision = "approve"
  <2>1. \A k \in GateSteps : Approved(k)' <=> (Approved(k) \/ k = i)
    BY <1>1, <1>3, <1>5 DEF Approved, i
  <2>2. \A k \in GateSteps : Refused(k)' <=> Refused(k)
    BY <1>3, <1>5 DEF Refused
  <2>3. \A k \in Steps : Passed(k)' <=> (Passed(k) \/ k = i)
    BY <1>2, <1>3, <2>1 DEF Passed
  <2>4. Done' = Done \cup {i} /\ RefusedGates' = RefusedGates
    BY <1>2, <2>2, <2>3 DEF Done, RefusedGates
  <2> QED
    BY <1>2, <1>3, <1>4, <2>4
<1>6. CASE r.decision = "reject"
  <2>1. \A k \in GateSteps : Approved(k)' <=> Approved(k)
    BY <1>3, <1>6 DEF Approved
  <2>2. \A k \in GateSteps : Refused(k)' <=> (Refused(k) \/ k = i)
    BY <1>1, <1>3, <1>6 DEF Refused, i
  <2>3. \A k \in Steps : Passed(k)' <=> Passed(k)
    BY <1>3, <2>1 DEF Passed
  <2>4. Done' = Done /\ RefusedGates' = RefusedGates \cup {i}
    BY <1>2, <2>2, <2>3 DEF Done, RefusedGates
  <2> QED
    BY <1>2, <1>3, <1>4, <2>4
<1> QED
  BY <1>2, <1>5, <1>6

(* A run that is finished has every step behind it (engine._execute).      *)
LEMMA FinishComplete ==
  ASSUME AtomicStore, IInv, NEW w \in Workers, FinishRun(w)
  PROVE  run' = run \/ (run \notin Ends /\ run' = "succeeded" /\ Done = Steps)
<1>1. pc[w] = "finish" /\ w \in Procs /\ UpdateRunStatus(w, "succeeded", "release", "release")
  BY DEF FinishRun, At, Procs
<1>2. run' = run \/ (run \notin Ends /\ run' = "succeeded")
  BY <1>1, RunMove DEF RunWrites
<1>3. \A j \in Steps : Passed(j)
  <2>1. idx[w] = NSteps + 1 /\ \A j \in Steps : j < idx[w] => Passed(j)
    BY <1>1 DEF IInv, Located, Sound, PlacesSound
  <2> QED
    BY <2>1 DEF Steps
<1> QED
  BY <1>2, <1>3 DEF Done

(* A run that is rejected has a gate that was refused (gates.resolve_gate). *)
LEMMA RejectRefused ==
  ASSUME AtomicStore, IInv, NEW a \in Approvers, RejectRun(a)
  PROVE  run' = run \/ (run \notin Ends /\ run' = "rejected" /\ RefusedGates # {})
<1>1. /\ pc[a] = "update_run" /\ a \in Procs /\ req[a].decision = "reject"
      /\ UpdateRunStatus(a, "rejected", "idle", "idle")
  BY DEF RejectRun, At, Procs
<1>2. run' = run \/ (run \notin Ends /\ run' = "rejected")
  BY <1>1, RunMove DEF RunWrites
<1>3. /\ req[a] \in decisions /\ req[a].actor \in Authorized
      /\ Requested(req[a].gate) /\ req[a].gate \in GateIds
  BY <1>1 DEF IInv, TypeOK, PassType, Known, Deciding, Request
<1>4. gate[req[a].gate].step \in GateSteps
  BY <1>3 DEF IInv, Known
<1>5. Refused(gate[req[a].gate].step)
  BY <1>1, <1>3 DEF Refused
<1> QED
  BY <1>2, <1>4, <1>5 DEF RefusedGates

(* Every step of the system is a step of the contract, or none at all. *)
LEMMA ContractStep ==
  ASSUME AtomicStore, IInv, IInv', GatesReached, [Next]_vars
  PROVE  [Contract!ContractNext]_(Contract!contractVars)
<1> USE DEF Contract!contractVars
<1>0. TypeOK /\ Known /\ Steady
  BY StepSteady DEF IInv
<1>9. /\ Contract!contractVars = <<Done, RefusedGates, Outcome>>
      /\ Contract!contractVars' = <<Done', RefusedGates', Outcome'>>
  BY DEF Done, RefusedGates, Outcome, Ends
<1>1. ASSUME decisions' = decisions, effects' = effects, run' = run
      PROVE  UNCHANGED Contract!contractVars
  BY <1>0, <1>1, <1>9, DoneSettled DEF Outcome
<1>2. CASE Still \/ Moves
  <2>1. decisions' = decisions /\ effects' = effects /\ Outcome' = Outcome
    BY <1>2 DEF Still, Moves, Outcome
  <2> QED
    BY <1>0, <1>9, <2>1, DoneSettled
<1>3. ASSUME NEW w \in Workers, Affects(w)
      PROVE  [Contract!ContractNext]_(Contract!contractVars)
  <2>1. Outcome' = Outcome
    BY <1>0, <1>3, EffectCompletes DEF Outcome
  <2>2. CASE Done' = Done
    BY <1>0, <1>3, <1>9, <2>1, <2>2, EffectCompletes
  <2>3. CASE Done' # Done
    <3>1. Contract!Complete(idx[w]) /\ idx[w] \in Steps
      BY <1>0, <1>3, <2>1, <2>3, EffectCompletes
         DEF Contract!Complete, Contract!Reached, Done, RefusedGates, Outcome, Ends
    <3> QED
      BY <3>1 DEF Contract!ContractNext
  <2> QED
    BY <2>2, <2>3
<1>4. ASSUME NEW a \in Approvers, SaveDecision(a)
      PROVE  [Contract!ContractNext]_(Contract!contractVars)
  <2>1. PICK i \in GateSteps :
              /\ \A j \in Steps : j < i => j \in Done
              /\ \/ Done' = Done /\ RefusedGates' = RefusedGates
                 \/ i \notin Done /\ Done' = Done \cup {i} /\ RefusedGates' = RefusedGates
                 \/ i \notin RefusedGates /\ RefusedGates' = RefusedGates \cup {i} /\ Done' = Done
    BY <1>4, DecisionCompletes
  <2>2. Outcome' = Outcome /\ i \in Steps
    BY <1>4, DecisionCompletes DEF Outcome, Steps
  <2>3. CASE Done' = Done /\ RefusedGates' = RefusedGates
    BY <1>9, <2>2, <2>3
  <2>4. CASE i \notin Done /\ Done' = Done \cup {i} /\ RefusedGates' = RefusedGates
    <3>1. Contract!Complete(i)
      BY <2>1, <2>2, <2>4
         DEF Contract!Complete, Contract!Reached, Done, RefusedGates, Outcome, Ends
    <3> QED
      BY <2>2, <3>1 DEF Contract!ContractNext
  <2>5. CASE i \notin RefusedGates /\ RefusedGates' = RefusedGates \cup {i} /\ Done' = Done
    <3>1. Contract!Refuse(i)
      BY <2>1, <2>2, <2>5
         DEF Contract!Refuse, Contract!Reached, Done, RefusedGates, Outcome, Ends
    <3> QED
      BY <2>2, <3>1 DEF Contract!ContractNext
  <2> QED
    BY <2>1, <2>3, <2>4, <2>5
<1>5. ASSUME NEW w \in Workers, FinishRun(w)
      PROVE  [Contract!ContractNext]_(Contract!contractVars)
  <2>1. decisions' = decisions /\ effects' = effects
    BY <1>5 DEF FinishRun, world
  <2>2. Done' = Done /\ RefusedGates' = RefusedGates
    BY <1>0, <2>1, DoneSettled
  <2>3. CASE run' = run
    BY <1>1, <2>1, <2>3
  <2>4. CASE run \notin Ends /\ run' = "succeeded" /\ Done = Steps
    <3>1. Contract!Succeed
      BY <2>2, <2>4 DEF Contract!Succeed, Done, RefusedGates, Ends
    <3> QED
      BY <3>1 DEF Contract!ContractNext
  <2> QED
    BY <1>5, <2>3, <2>4, FinishComplete
<1>6. ASSUME NEW a \in Approvers, RejectRun(a)
      PROVE  [Contract!ContractNext]_(Contract!contractVars)
  <2>1. decisions' = decisions /\ effects' = effects
    BY <1>6 DEF RejectRun, world
  <2>2. Done' = Done /\ RefusedGates' = RefusedGates
    BY <1>0, <2>1, DoneSettled
  <2>3. CASE run' = run
    BY <1>1, <2>1, <2>3
  <2>4. CASE run \notin Ends /\ run' = "rejected" /\ RefusedGates # {}
    <3>1. Contract!Reject
      BY <2>2, <2>4 DEF Contract!Reject, Done, RefusedGates, Ends
    <3> QED
      BY <3>1 DEF Contract!ContractNext
  <2> QED
    BY <1>6, <2>3, <2>4, RejectRefused
<1>7. ASSUME NEW w \in Workers, CreateGate(w) PROVE UNCHANGED Contract!contractVars
  BY <1>1, <1>7 DEF CreateGate, world
<1>8. ASSUME NEW a \in Approvers, UpdateGate(a) PROVE UNCHANGED Contract!contractVars
  BY <1>1, <1>8 DEF UpdateGate, world
<1> QED
  BY <1>2, <1>3, <1>4, <1>5, <1>6, <1>7, <1>8, StepKinds

(***************************************************************************)
(* With the in-memory store the engine, the gates and the recovery sweep   *)
(* implement the contract of a run, for any number of workers, approvers,  *)
(* steps, gates and tokens and under every fault: the steps are done one   *)
(* at a time and in order, no gate is passed without an authorized         *)
(* approval, and the run ends at most once - succeeded with everything     *)
(* done, or rejected by an authorized actor (engine.py, gates.py,          *)
(* store.py).                                                              *)
(***************************************************************************)
THEOREM ContractImplemented ==
  ASSUME AtomicStore
  PROVE  Spec => ContractKept
<1>1. Init => GatesReached
  BY DEF Init, GatesReached, Requested
<1>2. Init => Contract!ContractInit
  BY DEF Init, Contract!ContractInit, Passed, Approved, Refused
<1>3. IInv /\ GatesReached /\ [Next]_vars => GatesReached'
  BY StepInv, StepReached
<1>4. IInv /\ GatesReached /\ [Next]_vars => [Contract!ContractNext]_(Contract!contractVars)
  BY StepInv, ContractStep
<1> QED
  BY <1>1, <1>2, <1>3, <1>4, Invariance, PTL DEF Spec, ContractKept, Contract!ContractSpec
=============================================================================
