# Case Automation MCP: a TLA+ development

TLA+ models of the control logic of Case Automation MCP (`src/src/cam/`), the TLC runs that check
them on small instances and the TLAPS proofs that hold for every value of the constants.
`PROJECT.json` lists components, runs, mutants, the lines each definition models, hazards, findings
and theorems.

## The system

An automation server for law firms. Events and tools start *workflow runs*; an engine executes their
steps, waits at gates for a human, survives crashes through a recovery sweep, and reaches vendors
through connectors. Beside it a deadline engine computes due dates and sends reminders.

| Component | State | Operations | Interacts with |
|---|---|---|---|
| Workflow engine (`core/orchestrator/engine.py`, `states.py`, `recovery.py`) | run row, step rows, locals of each pass | `execute`, `_execute`, `_handle_gate`, `_park`, `recovery_sweep` | run store, run lock, idempotency store, handlers |
| Gates (`gates.py`) | gate rows, token rows, decision rows | `issue_token`, `resolve_gate` | run store; called from MCP, web and mail |
| Run lock, idempotency (`locking.py`, `idempotency.py`) | Redis keys with TTL | `acquire`, `release`; `reserve`, `record`, `lookup` | engine |
| Run stores (`store.py`, `postgres_store.py`) | the rows | guarded status updates, `create_run` | engine, gates, triggers |
| Webhook endpoint (`sidecar/webhooks.py`, `connectors/webhook/pipeline.py`) | dedup keys in Redis | `process_webhook` | providers, trigger sink |
| Status-update workflow (`core/workflows/status_update/`) | last-known status, transition counter, seals (in memory) | `handle_status_change_event`, `sweep_matters`, seven steps and a gate | trigger sink, case system, engine, mail |
| Deadlines (`core/services/deadline/schedule.py`, `firing.py`; `sidecar/scheduler_celery.py`, `celery_app.py`) | scheduled deadlines, armed jobs, Redis keys | `deadline.schedule`, `fire_reminder`, `escalate`, `mark_done` | Celery, notification port |
| Deadline computation (`compute.py`, `calendar.py`, `rules.py`) | registry of rule versions | date arithmetic over rules and holidays | `deadline.schedule` |
| Reconciliation, dead-man's switch (`reconcile.py`, `deadman.py`) | none / last alert | compare with the case system; compare heartbeat | Celery beat |
| Connector middleware and circuit breaker (`connectors/middleware.py`, `health.py`, `redis_health.py`, `errors.py`) | breaker of each worker; open flag and idempotency records in Redis | `request`, `record_success`, `record_failure` | every vendor call |
| Document generation (`core/workflows/document_gen/`) | templates, version ledger, idempotency ledger | `document.generate`, registration, `form.prefill` | document store, QC |
| Document routing (`core/workflows/document_routing/`) | decision store | `document.route` | document store |
| Client intake (`core/workflows/intake/`) | the run and its outputs | `intake.run`, nine steps and a gate | CRM, case system, mailbox, deadlines, engine |
| Audit log and persistence (`core/audit/service.py`, `persistence/`) | tables with foreign keys, hash-chained log | units of work: repositories, `record`; `verify` | every tool that changes a row |
| QC (`core/services/qc/`) | registry of seven checks | `qc.verify` | generation, status updates |
| Extraction (`core/services/extraction/`) | none | `document.extract` | intake, OCR, language model |
| Security, packs, MCP tools, sidecar wiring, CLI, settings, observability | configuration | wiring | the above |

**What is hard.** Two engine passes of one run can interleave (the lock has a TTL, fails open when
Redis is down, and the sweep enqueues the same run again); workers die between any two awaits; the
Postgres store checks a status it read earlier; several people decide one gate through several
channels; every deduplication is a read and a later write; stores that look persistent live in
memory; retries follow failures that may have happened after the effect.

**What makes it correct.** Effects happen in order, not before their gate is approved by somebody
who may, and no effect is repeated unnoticed; a finished run stays finished and a run is never
locked for good; an event that was acknowledged reaches the sink; a client is not told twice of one
change and a seal stands for a sent mail; a reminder that counts as sent was sent; a vendor that
keeps failing is left alone and a write that was reported done was done; versions are distinct and
privileged documents stay inside; a change and its audit entries appear together and the chain has
no loose ends; a lead becomes a matter of the right client; a due date is the day a calendar gives;
a check that breaks blocks.

**What one would wish and the code does not keep.** Effects exactly once (`idempotency.py:6`,
`recovery.py:5-6`, `_engine.md:26`): an answer that is lost after the effect, and on Postgres a lost
lock, repeat it. No run stays queued or running (`_engine.md:9,16,40`): see `orch_v_stuck`; and the
retry of a failed step is refused, so that only `recovery_sweep` brings the run back, which is meant
for a start of the process (`recovery.py:3`) and which nothing but tests calls. An armed reminder is
sent: see `dl_v_celery`. A key that is set before the event is enqueued is no "crash safety"
(`pipeline.py:152`): a crash or a failing sink between the two loses the event. A sensitive field is
always flagged, a holiday observed on 31 December is a holiday, the chain verifies: see the
violation runs.

## Modules

| Module | Models | Composes |
|---|---|---|
| `RunContract` | what a workflow run promises (abstract specification) | – |
| `Orchestrator` | one run: engine passes, lock, idempotency keys, stores, gates, sweep; on the in-memory store it implements `RunContract` | instantiates `RunContract` |
| `WebhookIngest` | the endpoint between a provider and the trigger sink | – |
| `StatusUpdate` | one matter: case system, event consumer, sweep, runs of `status_update_email` | extends `WebhookIngest` |
| `Deadlines` | one idempotency key of the deadline engine | – |
| `Connector` | requests of several workers, their breakers, the shared flag, idempotency records | – |
| `DocStore` | the document store behind its port | – |
| `DocumentGen` | calls of `document.generate` | extends `DocStore` |
| `RoutingRules` | classification, destination, access list and privilege gate as functions | – |
| `DocumentRouting` | calls of `document.route` | extends `DocStore`, `RoutingRules` |
| `Documents` | generation and routing on one store | extends `DocumentGen`, `DocumentRouting` |
| `Persistence` | six tables with foreign keys, row locks and the statements a flush issues | – |
| `AuditLedger` | what a unit of work promises (abstract specification) | – |
| `AuditChain` | units of work over the tables and the hash chain; implements `AuditLedger` | extends `Persistence`, instantiates `AuditLedger` |
| `Intake` | intake runs on one CRM, case system and mailbox | – |
| `DueDates`, `Qc`, `Extraction` | the three services that answer a question, as functions | – |
| `Services` | one question to one of them | extends `DueDates`, `Qc`, `Extraction` |
| `MC...` | constants for TLC | the module of that name; `MCDocuments` puts `Documents` and `Deadlines` in one run, `MCIntake` `Intake` and `Services` |
| `OrchestratorProofs`, `StatusUpdateProofs`, `DeadlinesProofs`, `ConnectorProofs`, `DocumentsProofs`, `AuditProofs`, `IntakeProofs`, `ServicesProofs` | theorems | the module of that name |

### Orchestrator

State: the rows (`run`, `step`, `gate`, `tok`, `decisions`), the Redis keys (`idem`, `lock`), the
job queue (`jobs`), and for each worker or approver its place (`pc`), its locals (`idx`, `snap`,
`retryable`, `comps`, `myGate`, `req`) and the status its `SELECT` returned (`view`). One action per
await of `execute` and `resolve_gate`. A write on Postgres is two steps, `Select` and the write,
which checks the transition against what was selected; with `AtomicStore` it is one step.

A handler may raise before its effect or after it (`HandlerRaises`): a vendor call that was carried
out may end in a timeout all the same. Compensations are awaited one by one, the last one first
(`Compensate`), and each may raise, which is logged and passed over. History: `effects`, the steps
whose effect has happened; `unreported`, how often since the step was last recorded as failed;
`undone`, the steps compensated; `lockLost`, whether a pass has gone on without the key it should
hold.

Left out, because no guard reads it: `current_step`, outputs, audit records, timestamps. The 24 h
TTL of an idempotency key is longer than any run of the model; `RunLock.extend` exists but nobody
calls it, so a pass longer than the TTL loses its lock (`LockExpiresEarly`). Tokens reach the people
they are for by themselves; an actor may present any issued token.

Departures of the code from what one would expect, kept as they are: the retry of a failed step asks
for `failed -> pending`, which is no legal edge, so the in-process retry ends with an exception and
the run stays `running` until a sweep, if one comes; `reserve` is called after the handler and its
answer ignored; compensations are those of the current pass only; the quorum of a gate is not
enforced; a crash between the gate row and the run row leaves a run waiting for an approval it has.

What is left of "exactly once" is `RepeatsReported`: between two effects of a step some pass has
recorded it as failed, so that a repetition is always visible in the step row, as long as on
Postgres the lock was not lost. `LockReturned` is what the engine itself keeps alive: every pass
comes to its end and the key of a dead one expires.

`RunContract` has no workers, rows or tokens: steps get done one at a time and in order (a gate by
an authorized approval), gates are refused, and the run ends at most once. The mapping takes the
steps that are *passed* (effect had, gate approved), the gates with an authorized rejection, and the
run row where it is an end. It does not say that a rejected run is at rest: a second approver who
was deciding the same gate may still approve it, and a pass that lost its lock may still be under
way.

### WebhookIngest and StatusUpdate

A provider delivers event *n* until a 2xx answers it, and may deliver it again. `CheckDuplicate`,
`MarkProcessed` and `Enqueue` are the three awaits of `process_webhook`; 503 comes from a failing
Redis call (the `SET` may have been carried out) or a failing sink. Requests are alike, so a
delivery takes any idle one. `sidecar/main.py` installs a sink that only logs; the model has the
sink that the `TriggerSink` protocol of `ports.py` describes, which keeps events until a consumer
calls `handle_status_change_event`. Nothing in the code makes a consumer take an event, and the
sweep is "not scheduled" (`docs/ASSUMPTIONS.md:97`): `HandleEvent` and the sweep are steps that may
happen, without fairness, and the module has safety properties only. `enqueued` and `stranded` are
history: events given to the sink, and events whose delivery ended between the dedup key and the
sink; `AckedReachSink` says that this is the only way an acknowledged event is lost.

`ChangeIds` are the inputs of `derive_change_id`; the hash is taken to be injective. A run has a
stage per visible effect: `ComputeDelta` (`detect_change`, `compute_delta`), `Approve`/`Reject`
(recipients, draft, QC and the gate), `SendEmail`/`SendFails`, `RecordOutcome`. A send that fails
may have sent, and its run is parked or sends again under the same email key; `answered` is the
history of sends that returned. How a single run survives crashes is the subject of `Orchestrator`.
The status store is in memory and forgotten by `Restart`, the runs are not. `create_run` is atomic
here: the column `dedupe_key` is unique, so the loser of a race on Postgres gets an error and no
run. `MailedOnce` is about a change id, not about a change: webhook and sweep derive different ids
for one.

### Deadlines

`rec` is the record under one idempotency key, `job` the two jobs of each reminder of each call,
`copy` the record a job read before it notified and stores afterwards. `Schedule...` are the paths
through `tool_deadline_schedule`, which suspends only where `arm` may fail; `StartJob`,
`CheckReminder`, `Notify`, `MarkFired`, `RememberDedup` are `fire_reminder` between its awaits;
`JobFails` is Celery's retry. Due time and offsets are constants (how they are computed is
`DueDates`), the clock is a variable.

The constant `Celery` says who calls `fire_reminder`. `TRUE` is the path of `src/`: the job is given
what `CeleryScheduler.arm` gives it, the idempotency key in place of the deadline id, and a store of
its own, and finds nothing (`dl_v_celery`). `FALSE` is a scheduler that the port leaves open and
`src/` does not have (`InMemoryScheduler` only keeps the arms; the tests call `fire_reminder` for
it): under it the safety of `fire_reminder`, `escalate` and `mark_done` is checked, and no delivery
is claimed. `by` is the call that stored the record: `MarkDone` cancels the arms of that call
(`redundant_arm_ids`) and not those a failed call left behind. Escalation is not sent twice or
retried; only the level it stores is kept, and what it sends is no reminder (`FlaggedSilent`).
`MarkDone` happens once to a record.

### Connector

A request is an asyncio task of one worker and yields only at its awaits: `Begin` (the guard),
`Lookup`, the attempt (`AnswerOk`, `AnswerError`), the sleep (`Wake`) and `Store`. Between two
awaits a breaker is read and written without interference, so the breaker methods are functions on
its record. `shared` chooses between `ConnectorHealth` and `RedisConnectorHealth`; both are explored
from the initial states. `admitted`, `blind` and `late` are history. The vendor is external: it
applies what it answers with success, never what it refuses, and perhaps what it answers with a
server error or not at all. A client without Redis is a request with `NoKey`. Jitter is any wait up
to `MaxDelay`. Left out: gauges, audit of a call, bodies, the 24 h expiry of a record
(`NoResendAfterStore` holds within it), and the time that Redis calls take. `Timeout` bounds a whole
attempt; the 10 s given to httpx bound each phase of it. A Redis outage has no probability, only a
number (`MaxOutages`).

### Documents

`Generate` runs to the await of QC, `Verified` from there to the await of `put`, `Store` to the end;
the second idempotency look-up and the version come in `Verified`, as in the code. `Register` takes
the version its caller names, and one that exists is overwritten with other bytes; the store is kept
as its latest version, which is all `get` answers. Content is the pair of bytes and context, so a
checksum is that pair, while the derived key has the version in place of the bytes. `registered` is
history. QC and the rendering may raise. `put` and `record_idem` are one step: nothing that falls
between them can tell.

`Route` is everything up to the await of `move`. `MoveDone` is its effect in the store,
`MoveAnswered` the answer, or an error instead of it, with the stored decision, and `MoveFails` a
move that was not carried out; other calls run between effect and answer, so answers may cross.
`places`, in the document, is history: the folders it was moved to. The content of a document does
not change after `put`, so document and recipients stand for the routing key. There is one template
with the default `doc_key`; versions are counted per matter, template and `doc_key`. Naming, formats
and the hints in file names (no rule of the default configuration has any in this instance) are left
out of the composition; `Classify` has them.

### AuditChain, Persistence and AuditLedger

A unit of work makes one repository call, then perhaps audit records, each a read of the latest row
and an append (`ReadLatest`, `AppendRow`), and then commits or rolls back; `Rollback` may happen at
any await and also stands for the death of the process. `update` and `delete` read the row in a step
of their own (`Load`) and flush in a later one (`Flush`). The session issues what is needed only: an
update writes the columns that differ from the row it read, none when there is no difference, and
then takes no lock; the delete of a row that is not there, or has gone since it was read, writes
nothing (`Issued`). Row locks are external (PostgreSQL): a call that conflicts with one under way
waits, and an update merges its columns into the row as it is by then. A unit sees committed rows
and its own. `Commit` needs no record (`uow.py:47-50`): `silent` is the history of the tables that
units without a record have changed. Ids come from a sequence and are not given back. One row per
table is enough for a foreign key to hold or to dangle. A hash is the pair it was computed from, so
it is injective. `verify` is `FirstBad`.

Nothing under `src/` calls `record()` so far. The units of the model are the ones that `uow.py` and
`service.py` are written for.

`AuditLedger` knows only which units are visible, which entries there are and the tables; a unit and
its entries, if it made any, appear in one step, an entry never disappears. The mapping takes the
committed units, the committed log and the tables, and every other step stutters.

### Intake

One action per step, with the two searches of `find_contact` apart, because another run may create
the contact between them. A step ends well, with a transient error before or after its effect, or
for good; `Raised` is what the engine then does, which `Orchestrator` models in full. `Submit` on a
known key returns the earlier run. Substring search is the relation `Contains`.

### DueDates, Qc, Extraction

Functions of their inputs; the only state is the registry of rule versions and the answer under
examination. `Load` validates a rule text and makes its version from it; `RegisterRule` is
`register_rule`, which validates nothing, takes a version that is given, and ignores a version that
is in use. Dates are day numbers, with the leap years of 1901 to 2099, which include the supported
ones. The loops over business days are `CHOOSE` of the first day at which the loop stops (a window
of seven days always has one, which is proved), the year and month offsets follow `compute.py` with
its fallback to the 28th. The reference definitions use none of it: a holiday is recognised by its
place in the month, a distance is a number of working days, and a month without the trigger's day
gives the 28th. The reference calendar observes a Saturday New Year's Day on 31 December
(`ObservedOn`), where the code looks it up in the wrong year's table: `DueDateRight` leaves that day
open, `DueDateObserved` claims it and is violated. The active rule is the last one loaded for its
jurisdiction.

A packet of QC is reduced to what the seven checks read, a page to how much text it has. An endpoint
is a sequence and `IsAllowed` asks whether an entry of the allow-list is a prefix of it
(`llm.py:140`). The profile has `sensitive`, which nothing but the prompt reads (`SensitiveFlagged`
is violated). A page that OCR could not read is counted as an OCR page, as the pipeline does, where
`ocr.py:5` and `coverage.py:6` speak of skipped pages.

## Runs

Every bound is a CONSTANT with its meaning beside it. `MaxFaults` limits how many faults of
`FaultKinds` one behaviour has; without faults all processes are reliable (how a handler ends is no
fault and is not limited).

| Run | Instance | Shows |
|---|---|---|
| `orch_recovery` | 2 workers, 2 steps, no gate, Postgres store, 1 fault among crash, lock expiry, Redis refusing the lock, failing call; handlers that end well or raise, before or after their effect; 1 attempt | no effect repeated behind the engine's back; in order; a succeeded run is complete; never two passes at once; the lock comes free again |
| `orch_gates` | 1 worker, 2 approvers, 2 channels, an authorized and another actor, approve and reject, in-memory store, 1 fault among crash, token expiry, failing call; 2 attempts | nothing past a gate without approval; a token decides once; `RunContract` implemented, so final states are final |
| `st_notices` | 2 requests, 2 events, 3 faults among duplicate delivery, Redis, sink, mail, run store, restart | no id sent again once its send was answered; seals are honest; an acknowledged event is lost only between key and sink |
| `cn_requests` | 2 workers, 3 requests (two writes under one key, one read), threshold 2, cool-down 2, 2 attempts, one outage of Redis, either breaker | state follows the failure count; an open breaker stops later requests; success means applied; a recorded write is not resent; the retry budget holds; every request ends |
| `doc_deadlines` | documents: 2 generations, 2 routes, one matter, 2 versions of a template and 2 contents for them (2 pairs registered), 2 contexts, one override key, 2 folders and a confidence below the threshold, calls that fail or lose their answer. Deadlines: 1 reminder with 2 jobs, 2 calls, 2 retries, 1 fault among notification, Redis, arm, restart | versions distinct; content as asked; privileged documents not shared; filings and decisions account for each other; fired means sent; past due stays silent |
| `au_ledger` | 3 units with up to 2 records, contact, matter and communication, 2 columns, 2 values that differ in both | tables and chain sound; one writer at a time verifies; the trail explains the tables; tampering shows; `AuditLedger` implemented |
| `in_services` | intake: 2 runs, 5 leads, 2 known contacts, 3 faults, 2 attempts. Services: 143 days with 9 rule texts and 2 rules of a pack, 2 loads, some 5000 packets, 176 inputs under 722 settings | the right client; no needless duplicate; one welcome, after approval; no rule forgotten; due dates against the calendar; QC fails closed; every page counted, nothing sent past the residency policy |

Two workers, two requests or two jobs are what a race needs; two steps give an order and a gate
something to guard. In `orch_recovery` handlers raise whenever they like, and the run is parked
after the first failure; a crash or a failing call before the parking lets a sweep bring it back,
and a lost lock a second pass, so that effects do repeat there. Refused retries are in `orch_gates`,
whose one gate identity admits one request for the gate. The third fault of `st_notices` lets a
duplicate meet a failing sink and a restart, and its two decided gates are those of the two ids one
change can get. In `cn_requests` the last request begins after the cool-down of a breaker that
opened at the start is over, so probes happen, and a `Retry-After` exceeds the whole budget; the
clock ends after the last possible end of a request, so `RequestsSettle` is not cut. The third unit
of `au_ledger` lets one roll back between two that append. The third fault of `in_services` lets a
step exhaust its attempts while another loses its answer; its days lie around year ends, leap days,
the end of the supported years and every kind of holiday.

`doc_deadlines` and `in_services` each hold two systems that share no state: in every behaviour only
one of them leaves its initial state, so the states are the sum and not the product of the two. For
documents, states that differ only in what no action and no property reads count as one (`VIEW`),
and routes are explored on documents of the first version of the template (`CONSTRAINT`), since they
read nothing of a document that depends on it; the theorems about both modules have neither limit.
One fault is enough for a failure to meet its retry; the deadline theorems hold for any number.

Deadlock checking is off except in `cn_requests`, whose end is an explicit step: runs end, reminders
are sent and the systems stop.

Five runs show a disagreement between the code and what the repository says of it:

| Run | Property | What happens |
|---|---|---|
| `orch_v_stuck` | `RunSettles` | after a crash inside a step its row is `running`, and `running -> running` is refused for ever, even if the sweep came back for ever |
| `dl_v_celery` | `ReminderDelivered` | without any fault the task of an armed reminder looks for the wrong id in an empty store and sends nothing |
| `au_v_fork` | `LogVerifies` | two units read the same latest row and both append to it; `verify` reports the second although nobody tampered |
| `sv_v_observed` | `DueDateObserved` | a due date falls on Friday 31 December 2021, on which New Year's Day 2022 is observed |
| `sv_v_sensitive` | `SensitiveFlagged` | a sensitive field with a high confidence is proposed without the flag |

### Departures the models take and no run claims away

* Engine: a handler whose answer is lost after its effect is run again by a later pass, with the
  effect (`RepeatsReported` asks only that the failure was recorded); on Postgres, after a lock has
  expired, two passes read a step as pending and both have its effect; two channels can resolve one
  gate with opposite decisions, and on Postgres one token can be used twice (`TokenOnce` is for the
  in-memory store); a late approval of a second request can revive a parked run whose effects were
  compensated; a failed step asks for `failed -> pending`, which the table refuses, and its run
  stays `running` without a sweep; a crash between the gate row and the run row, or between
  compensation and park, leaves a run waiting or recoverable.
* Status updates: a sink that fails after the dedup key is set, or a restart at that point, loses
  the event, because the retry is a duplicate; webhook and sweep derive different ids for one
  change, and the client is told twice; a late `compute_delta` puts back an older status; after a
  restart the sweep's counter begins again and may reuse an old id; a mail whose answer was lost is
  sent once only because the mail service honours the key of the second send.
* Deadlines: both jobs of a reminder can read the Redis key before either sets it, so that "exactly
  once" (`firing.py:3`) is not kept; a second call for a past-due key returns without the error of
  the first; the escalation level can be lowered by a stale copy; `escalate` notifies for a record
  past due too.
* Connector: after the cool-down every caller is a probe, where `health.py` speaks of one.
* Documents: a hit on an idempotency key says `ready` whatever the first answer was, and the key
  leaves out the matter; after a version was overwritten a hit returns a document with the older
  bytes; a dry run or a blocked decision answers the real request as a duplicate; of two overlapping
  moves of a document the decision that is saved last may name the folder it was in before, or say
  blocked (`FilingRecorded` asks that the document was really moved to the folder, and for some
  decision that says moved or blocked).
* Audit: `verify` of a range that begins after the first row compares it with the genesis hash; a
  removed last row cannot be noticed; a unit may commit without a record; the entry of an update
  that wrote nothing may follow that of a change it has not seen (`TrailExplains` lets such an entry
  explain nothing).
* Intake: the blocking gaps are shown to the reviewer and never checked; a lost answer of a creation
  leaves a second contact or matter.
* Services: loading an older rule text again does not make it active, and a rule registered under a
  version in use is ignored; OCR text never reaches the structuring step, and pages OCR could not
  read count as OCR; an empty list of checks passes, and one more check that does its work is not
  shown to keep the answer's rank (`QcFailClosed` adds broken ones).
* Not in a module: `heartbeat` of the Celery scheduler is always the present, so the dead-man's
  switch cannot fire; an error in reconciliation reports no drift.

**Fairness.** Only what the code or the deployment keeps running is fair. `Orchestrator`
(`FairSpec`): a pass or an approval that is under way goes on, and Redis removes expired keys;
nobody has to start a pass, sweep or approve. `SweptSpec` assumes more than the code promises (the
sweep comes back for ever, its jobs are served, every issued token is presented in the end) and
serves only `orch_v_stuck`, to show that even then a run stays stuck. `Deadlines`, for `dl_v_celery`
only: time passes and due jobs run. `Connector`: a single weak fairness of `Next` (the event loop
runs what is ready, an attempt ends by its timeout and the clock advances); `RequestsSettle` needs
no more because outages and starts are finite. The other modules have safety properties only. No
fault is ever fair.

**Mutants.** Each property of a passing run has a mutant, an operator defined just before the one it
replaces, that changes the code the way a plausible slip would (a dropped `NX`, a lookup that fails
open, a key claimed before the notification); under it the property fails.

## Proofs

All for arbitrary constants satisfying the named assumptions, which only give the constants their
kinds.

* **Orchestrator** (`OrchestratorProofs`): `TypeCorrect`, `GateSafety`, `OrderSafety`,
  `CompletionSafety`, with either store and any faults. None of the properties is inductive, because
  a pass acts on copies. `IInv = TypeOK /\ Located /\ Known /\ Sound`: `Located` says that a pass
  working on a step is at a step that is no gate and that one about to finish has gone through all,
  `Known` that tokens, decisions and what an approver holds belong to a requested gate and are
  authorized, and `Sound` that a step counts as *passed* (effect had, gate approved) wherever
  anything says so: in the rows, the idempotency keys, the snapshots, and for all steps before a
  pass's position. That passed steps stay passed (`StepSteady`, `PassedStays`) makes stale copies
  harmless.
* **Repeated effects** (`OrchestratorProofs`): `RepeatSafety`, with either store and any faults,
  lost answers and failing calls included. `Exclusive` says that a pass between its two marks owns
  its step alone, and what `unreported` may be at each place: a step that is not running, or not yet
  in its handler, has no effect since it was last recorded as failed, unless it has succeeded. On
  the in-memory store the transition table is the mutual exclusion, not the lock. On Postgres the
  check acts on what an earlier `SELECT` returned; `Fresh` says that this is still the status of the
  row, because the pass is alone while the lock is not lost and approvals write the rows of gate
  steps only.
* **On the in-memory store** (`OrchestratorProofs`): `TokenOnceInMemory` and `TerminalInMemory`.
  `Spending` says of tokens what `Exclusive` says of steps.
* **The contract of a run** (`OrchestratorProofs`): `ContractImplemented`, on the in-memory store
  and under every fault: `Spec` implements `RunContract`. `StepKinds` sorts the actions: all but six
  leave alone what the contract speaks of, or move the run row between statuses that are no ends. Of
  those six `HandlerReturns` completes a step or repeats an effect, `SaveDecision` completes or
  refuses a gate, `FinishRun` and `RejectRun` end the run, and the writes of gate rows stutter
  because a request never changes the step it is for. `IInv` is not enough: `GatesReached` adds that
  everything before a requested gate is behind the run, so that an approval, however late, is in
  order. The property implies `TerminalIsFinal`, which remains as a theorem of its own.
* **The run lock** (`OrchestratorProofs`): `MutualExclusion`, with either store and any faults, as
  long as Redis has not failed on the lock and no pass has outlasted its key (`lockLost`). `Mutex`:
  a pass that is under way finds its own name in the key. The converse is not invariant: a dead
  worker leaves its key behind. `release` deletes the key without looking whose it is; that is
  harmless here exactly because of `Mutex`.
* **StatusUpdate** (`StatusUpdateProofs`): `MailedOnceSafety`, `SealSafety`, `AckSafety`. `Mails`: a
  change whose send was answered has a run past `send_email`, and a run that has just sent is
  mailed. Rows are never replaced, so nothing about requests or sweeps is needed. `AckSafety` goes
  the other way, through the requests: a dedup key that is set has its event in the sink, before it,
  or stranded. `TypeCorrect` needs more: `Announced` says that an event offered, in a request or in
  the sink is about a change the history already has, so that the consumer derives an id from
  statuses that exist; `History`, that the history fits its bound. On top of it `NoticesGenuine`: a
  run that an event started names a change the case system made.
* **Deadlines** (`DeadlinesProofs`): `TypeCorrect`, `FiredSafety`, `FlaggedSafety`. `Sent` extends
  the property to the copies that jobs may still store and to the places of the jobs; `Current` says
  that only an active record has reminders and that a job between check and mark belongs to an
  active record.
* **Connector** (`ConnectorProofs`): `TypeCorrect`, `BreakerSafety`, `OpenSafety`, `AppliedSafety`,
  `NoResendSafety`, `BudgetSafety`, for any thresholds, times, workers and requests. The invariant
  adds to `TypeOK`, and to the fact that a recorded key was applied, three parts: `Coherent`, that
  count, state and opening time of a breaker belong together; `Local`, what each place in a request
  says of its own deadline and timer and of the key it writes under; `LetThrough`, that a request
  under way was admitted no later than the opening of its breaker or the setting of the flag, which
  needs that the flag is set to exactly one cool-down from now.
* **AuditChain** (`AuditProofs`): `ChainSafety`, and `Refinement`: the specification implements
  `AuditLedger` with the mapping of the module. `Shape` and `Pending` say that ids are never shared
  between the log and the pending rows of two units and that a pending row is about its unit;
  `Rooted`, that what a unit has read or appended continues a row it can see. A commit needs the
  last: what the unit sees is what becomes the log. Why ids do not run backwards rests on `LatestId`
  being one of the ids seen, proved from the well-foundedness of the naturals.
* **AuditChain, the data and the check** (`AuditProofs`): `TypeCorrect`, `TrailSafety`,
  `SerialSafety`, `TamperSafety`. A second layer `JInv` on top of the first. For the tables: `Held`
  says that the call of a unit under way would still be accepted, whatever the others commit, and
  that no two of them conflict, which is what the row locks are for; with it the foreign keys of
  `Tables` survive every commit, and `Later` (a pending row of a unit that writes comes after the
  committed ones about what it writes) gives that the last entry explains row and column. A call
  that issued no statement holds no lock, and neither part says anything of it: its entries are in
  no `About`. For the chain: `AllHashed`, that rows are hashed over their own fields, and `Serial`,
  that without overlap what a unit sees, and what it is about to append, verifies. `Counted` bounds
  the ids: it charges every id ever taken, also one that was rolled back, to a unit and a number,
  injectively. `TamperEvident` follows from `AllHashed` and `Shape`, overlap or not. The assumptions
  `KindsAssumption` and `UnitsAssumption` say that the parents of the tables are among them, that
  the rows present at the start have their parents, and that there are finitely many units.
* **Documents** (`DocumentsProofs`): `VersionSafety`, `ContentSafety`, `PrivilegeSafety`,
  `FilingSafety`, for any number of generations and routes that overlap and fail. `Numbered`: a
  version on its way to the store came from the ledger, is held by one call and is in no stored
  document; `Faithful`: a derived key stands for one context and one template version, and its
  content was registered as that version, in the calls, in the idempotency records and in the
  documents these name; `Guarded`: a move under way has passed the privilege gate with the very
  recipients it will write, and one that was carried out finds its folder among the places of the
  document; `Filed`: decisions are about stored documents. Each extends its property to what a call
  holds between two awaits.
* **Intake** (`IntakeProofs`): `ClientSafety`, `DuplicateSafety`, `WelcomeSafety`, `DeadlineSafety`,
  for any leads and contacts, overlaps and lost answers. The assumption says that the contacts known
  at the start were made by no run, and that the case types have rules. What is true of a run's own
  record (`Searched`, `Matched`, `Drafted`, `Complete`) depends on the records of the connectors,
  which only grow (`OwnStays`): so a step of another run cannot disturb it. `Records` says that a
  contact made by a run came after its search and that a matter's client is its run's own or agrees
  with the lead; `Posted`, that the idempotency key of the send is taken exactly when a message of
  the run has gone out.
* **Qc and Extraction** (`ServicesProofs`): `FailClosed`, `ExtractionSafety`, for any packets,
  requests, documents and configurations. The invariant is only that an answer is the answer to some
  question; the substance is in the lemmas about the operators: a disclosing packet fails the
  privilege check, a failing check blocks, a broken check that is added to the request never lowers
  the rank of the aggregate, text pages and OCR pages partition the document, and a clamped
  confidence is a percentage. `InputsAssumption` says that pages are a sequence and that thresholds
  and confidences are numbers or `NaN`.
* **DueDates** (`ServicesProofs`): `DueDateSafety`, for any set of rules, offsets and reminders of
  any size and sign, and any trigger day. The invariant adds to the property that the registry holds
  typed rules, each version once; the substance is again in the lemmas. *Calendar*: a day taken
  apart and put together is the same day (`DayParts`, `PartsUnique`, `DateParts`), and k months are
  28k to 31k days (`MonthsSpan`), so years and months lead where counting on the calendar leads
  (`MonthsMoved`). *Holidays*: the table that is computed is the list that is read off
  (`HolidayTable`), so that in a supported year the loops stop on exactly the working days and in
  any other year they pass over none (`StopsOnWorkingDays`). *Loops*: of a Tuesday and a Wednesday
  at most six days apart one is no holiday (`FreeMidweek`), so every loop ends within a week.
  *Counting*: after k steps the loop stands on the k-th working day (`StepsForward`,
  `StepsBackward`). The last, and that the recursive function exists at all (`StepsExist`), are
  inductions; the provers cannot use the induction theorems, which take an operator, but
  `SetInduction` says the same of a set and follows from the well-foundedness of the naturals.
  `RulesAssumption` gives offsets, amounts and trigger days their types, as `DeadlineRule` does.

The attempt to prove `DueDateRight` changed the model in three places. The reference definition
looked for the moved date in an interval that is empty for a negative number of months, and too
short when years and months cancel out on 29 February: it now reaches as far as the months do in
either direction. `Adjust` was a `CASE` with overlapping guards, of which TLC takes the first and
TLA+ does not: it is now an `IF`, in the order of the code. The year of a day was an estimate that
is off by one some decades away from 2020 and is now an exact quotient.

Only model-checked: liveness (`LockReturned`, `RequestsSettle`, and in violation runs `RunSettles`
and `ReminderDelivered`), because the provers know nothing of fairness and `ENABLED`. Every safety
property of the passing runs is a theorem, two of them under the condition of their run: `TokenOnce`
and `ContractKept` on the in-memory store. `RepeatsReported` and `OnePass` carry their condition,
that the lock was not lost, in the property.

## Not modelled

* Reconciliation and the dead-man's switch compare and report and change nothing.
* Practice-area packs, settings, Celery beat, the connector registry, the workflow DSL: values fixed
  at start, constants of the models.
* MCP tools, sidecar routes, CLI, docs generator: argument checks and wiring around operations that
  are modelled.
* Observability, audit formatting, approval messages: output only.
* Encryption and signatures: data. The role check is the authorization of an approver.
* The query methods of the repositories and the migrations.

Times are ordinal; sizes, signatures and texts are not represented.

## What could be added

A contract that `Orchestrator` keeps on Postgres as long as the lock does its work (the run row is
also written by approvers, who take no lock, so it is weaker than `RunContract`); abstract
specifications of the deadline engine and of the webhook pipeline.
