----------------------------- MODULE Deadlines ------------------------------
(***************************************************************************)
(* The deadline engine for one idempotency key: deadline.schedule and its  *)
(* store (schedule.py), the reminder jobs, escalation and completion       *)
(* (firing.py) and the wiring of the reminder jobs by Celery               *)
(* (scheduler_celery.py, celery_app.py).                                   *)
(*                                                                         *)
(* One action per stretch of code between two suspensions of the event     *)
(* loop: the Redis calls and the notification of fire_reminder suspend,    *)
(* arm, cancel and the store do not.  The clock is a variable.             *)
(***************************************************************************)
EXTENDS Integers

CONSTANTS
    NReminders,     \* reminder offsets of the rule
    Offset,         \* when each fires, relative to the due time
    DueTimes,       \* due times the computation may yield
    MaxTime,        \* bound: end of the clock
    MaxCalls,       \* bound: calls of deadline.schedule with the key
    MaxLevel,       \* bound: escalation level
    MaxRetries,     \* max_retries of task_fire_reminder
    FaultKinds,     \* the faults a run of the model admits
    MaxFaults,      \* bound: faults in one behaviour
    Celery          \* CeleryScheduler and its tasks, or a Scheduler whose
                    \* jobs call fire_reminder with the record's id and store

Reminders == 1..NReminders
Calls == 1..MaxCalls
Paths == 1..2

ASSUME RuleAssumption ==
    /\ NReminders \in Nat
    /\ Offset \in [Reminders -> Int]
    /\ DueTimes \subseteq Int

ASSUME LimitAssumption ==
    /\ MaxTime \in Nat
    /\ MaxCalls \in Nat
    /\ MaxLevel \in Nat
    /\ MaxRetries \in Nat
    /\ MaxFaults \in Nat
    /\ FaultKinds \subseteq {"notify", "redis", "arm", "restart"}
    /\ Celery \in BOOLEAN

(* One reminder job: the call that armed it, its reminder, its path. *)
Arms == Calls \X Reminders \X Paths
ReminderOf(a) == a[2]

(* The stored deadline; `by' is the call that armed its redundant_arm_ids. *)
ReminderStatus == {"none", "armed", "fired", "skipped_past"}
Record == [state : {"none", "active", "flagged"},
           rem : [Reminders -> ReminderStatus],
           level : Nat,
           by : Nat]
JobLocation == {"none", "waiting", "check", "notify", "mark",
                "remember", "over"}

VARIABLES
    now,        \* the clock
    rec,        \* the record stored under the key
    closed,     \* history: mark_done has run on the record
    calls,      \* calls of deadline.schedule so far
    job,        \* where each reminder job is
    eta,        \* the time each job was armed for
    copy,       \* the record a job read before it notified
    tries,      \* retries of each job
    dedup,      \* reminders whose Redis key cam:reminder_fired is set
    delivered,  \* history: notifications sent for each reminder
    faults      \* faults so far

jobs == <<job, eta, copy, tries>>
vars == <<now, rec, closed, calls, jobs, dedup, delivered, faults>>

NoRecord == [state |-> "none", rem |-> [r \in Reminders |-> "none"],
             level |-> 0, by |-> 0]

Init ==
    /\ now = 0
    /\ rec = NoRecord
    /\ closed = FALSE
    /\ calls = 0
    /\ job = [a \in Arms |-> "none"]
    /\ eta = [a \in Arms |-> 0]
    /\ copy = [a \in Arms |-> NoRecord]
    /\ tries = [a \in Arms |-> 0]
    /\ dedup = {}
    /\ delivered = [r \in Reminders |-> 0]
    /\ faults = 0

Fault(kind) ==
    /\ kind \in FaultKinds
    /\ faults < MaxFaults
    /\ faults' = faults + 1

Tick ==
    /\ now < MaxTime
    /\ now' = now + 1
    /\ UNCHANGED <<rec, closed, calls, jobs, dedup, delivered, faults>>

-----------------------------------------------------------------------------
(* deadline.schedule *)

Call ==
    /\ calls < MaxCalls
    /\ calls' = calls + 1

FireAt(r, due) == due + Offset[r]

(* The key is known: the stored record is returned. *)
ScheduleAgain ==
    /\ Call
    /\ rec.state # "none"
    /\ UNCHANGED <<now, rec, closed, jobs, dedup, delivered, faults>>

(* Arm the jobs in `set', each for the time of its reminder. *)
ArmJobs(set, due) ==
    /\ job' = [a \in Arms |-> IF a \in set THEN "waiting" ELSE job[a]]
    /\ eta' = [a \in Arms |-> IF a \in set THEN FireAt(ReminderOf(a), due)
                                           ELSE eta[a]]
    /\ UNCHANGED <<copy, tries>>

(* Two paths for every reminder that is not past. *)
ArmSet(due) ==
    {a \in Arms : a[1] = calls + 1 /\ FireAt(ReminderOf(a), due) >= now}

NewRecord(due) ==
    [state |-> "active",
     rem |-> [r \in Reminders |->
                IF FireAt(r, due) >= now THEN "armed" ELSE "skipped_past"],
     level |-> 0,
     by |-> calls + 1]

ScheduleNew(due) ==
    /\ Call
    /\ rec.state = "none"
    /\ due >= now
    /\ ArmJobs(ArmSet(due), due)
    /\ rec' = NewRecord(due)
    /\ UNCHANGED <<now, closed, dedup, delivered, faults>>

(* Mutant: a deadline that is past due is stored and armed like any other. *)
SchedulePastDueArmed(due) ==
    /\ Call
    /\ rec.state = "none"
    /\ due < now
    /\ ArmJobs({a \in Arms : a[1] = calls + 1}, due)
    /\ rec' = [NewRecord(now) EXCEPT !.state = "flagged",
                 !.rem = [r \in Reminders |-> "armed"]]
    /\ UNCHANGED <<now, closed, dedup, delivered, faults>>

(* Past due on create: the record is stored flagged, without reminders,    *)
(* and PastDueOnCreateError is raised.                                     *)
SchedulePastDue(due) ==
    /\ Call
    /\ rec.state = "none"
    /\ due < now
    /\ rec' = [NoRecord EXCEPT !.state = "flagged"]
    /\ UNCHANGED <<now, closed, jobs, dedup, delivered, faults>>

(* scheduler.arm raises: the jobs armed before it stay, nothing is stored. *)
ScheduleFails(due) ==
    /\ Call
    /\ rec.state = "none"
    /\ due >= now
    /\ Fault("arm")
    /\ \E failed \in ArmSet(due) :
         ArmJobs({a \in ArmSet(due) :
                    \/ ReminderOf(a) < ReminderOf(failed)
                    \/ ReminderOf(a) = ReminderOf(failed) /\ a[3] < failed[3]},
                 due)
    /\ UNCHANGED <<now, rec, closed, dedup, delivered>>

-----------------------------------------------------------------------------
(* task_fire_reminder and fire_reminder *)

Goto(a, l) == job' = [job EXCEPT ![a] = l]

(* Mutant: the key is claimed when the job starts. *)
StartJobClaiming(a) ==
    /\ job[a] = "waiting"
    /\ eta[a] <= now
    /\ Goto(a, IF ReminderOf(a) \in dedup THEN "over" ELSE "check")
    /\ dedup' = dedup \cup {ReminderOf(a)}
    /\ UNCHANGED <<now, rec, closed, calls, eta, copy, tries, delivered, faults>>

(* A job that is due starts, and reads the Redis key first of all. *)
StartJob(a) ==
    /\ job[a] = "waiting"
    /\ eta[a] <= now
    /\ Goto(a, IF ReminderOf(a) \in dedup THEN "over" ELSE "check")
    /\ UNCHANGED <<now, rec, closed, calls, eta, copy, tries, dedup, delivered, faults>>

(* CeleryScheduler.arm passes the idempotency key as deadline_id, and each *)
(* task has a DeadlineStore of its own: no record is found.  The other     *)
(* case is a Scheduler that src/ leaves open: its InMemoryScheduler keeps  *)
(* the arms and fires nothing, and the tests call fire_reminder for it.    *)
Found(a) == ~Celery /\ rec.rem[ReminderOf(a)] = "armed"

CheckReminder(a) ==
    /\ job[a] = "check"
    /\ IF Found(a)
         THEN copy' = [copy EXCEPT ![a] = rec] /\ Goto(a, "notify")
         ELSE copy' = copy /\ Goto(a, "over")
    /\ UNCHANGED <<now, rec, closed, calls, eta, tries, dedup, delivered, faults>>

Notify(a) ==
    /\ job[a] = "notify"
    /\ delivered' = [delivered EXCEPT ![ReminderOf(a)] = @ + 1]
    /\ Goto(a, "mark")
    /\ UNCHANGED <<now, rec, closed, calls, eta, copy, tries, dedup, faults>>

(* Mutant: a status outside the Literal of types.py. *)
MarkDelivered(a) ==
    /\ job[a] = "mark"
    /\ rec' = [copy[a] EXCEPT !.rem[ReminderOf(a)] = "delivered"]
    /\ copy' = [copy EXCEPT ![a] = NoRecord]
    /\ Goto(a, "remember")
    /\ UNCHANGED <<now, closed, calls, eta, tries, dedup, delivered, faults>>

(* The copy read before the notification is stored, marked fired. *)
MarkFired(a) ==
    /\ job[a] = "mark"
    /\ rec' = [copy[a] EXCEPT !.rem[ReminderOf(a)] = "fired"]
    /\ copy' = [copy EXCEPT ![a] = NoRecord]
    /\ Goto(a, "remember")
    /\ UNCHANGED <<now, closed, calls, eta, tries, dedup, delivered, faults>>

RememberDedup(a) ==
    /\ job[a] = "remember"
    /\ dedup' = dedup \cup {ReminderOf(a)}
    /\ Goto(a, "over")
    /\ UNCHANGED <<now, rec, closed, calls, eta, copy, tries, delivered, faults>>

(* self.retry: the task goes back to the queue until it has no retry left. *)
RetryJob(a) ==
    /\ tries' = [tries EXCEPT ![a] = @ + 1]
    /\ Goto(a, IF tries[a] < MaxRetries THEN "waiting" ELSE "over")
    /\ copy' = [copy EXCEPT ![a] = NoRecord]

(* The notification or one of the Redis calls raises. *)
CallFails(a) ==
    \/ job[a] = "notify" /\ Fault("notify")
    \/ job[a] = "remember" /\ Fault("redis")
    \/ job[a] = "waiting" /\ eta[a] <= now /\ Fault("redis")

JobFails(a) ==
    /\ CallFails(a)
    /\ RetryJob(a)
    /\ UNCHANGED <<now, rec, closed, calls, eta, dedup, delivered>>

-----------------------------------------------------------------------------
(* escalate and mark_done *)

Escalate ==
    /\ rec.state # "none"
    /\ rec.level < MaxLevel
    /\ rec' = [rec EXCEPT !.level = @ + 1]
    /\ UNCHANGED <<now, closed, calls, jobs, dedup, delivered, faults>>

(* The arms of the record's armed reminders are cancelled, not those that  *)
(* a failed call left behind, and the reminders skipped.                   *)
Redundant(a) == a[1] = rec.by /\ rec.rem[ReminderOf(a)] = "armed"

MarkDone ==
    /\ rec.state # "none"
    /\ ~closed
    /\ closed' = TRUE
    /\ job' = [a \in Arms |-> IF job[a] = "waiting" /\ Redundant(a)
                                THEN "over" ELSE job[a]]
    /\ rec' = [rec EXCEPT !.rem =
                 [r \in Reminders |->
                    IF @[r] = "armed" THEN "skipped_past" ELSE @[r]]]
    /\ UNCHANGED <<now, calls, eta, copy, tries, dedup, delivered, faults>>

-----------------------------------------------------------------------------
(* The store is in memory; jobs under way are delivered again (acks_late). *)
Restart ==
    /\ Fault("restart")
    /\ rec' = NoRecord
    /\ closed' = FALSE
    /\ job' = [a \in Arms |-> IF job[a] \in {"none", "over"} THEN job[a]
                                                             ELSE "waiting"]
    /\ copy' = [a \in Arms |-> NoRecord]
    /\ UNCHANGED <<now, calls, eta, tries, dedup, delivered>>

-----------------------------------------------------------------------------
Schedule ==
    \/ ScheduleAgain
    \/ \E due \in DueTimes : \/ ScheduleNew(due)
                             \/ SchedulePastDue(due)
                             \/ ScheduleFails(due)

RunJob(a) ==
    \/ StartJob(a)
    \/ CheckReminder(a)
    \/ Notify(a)
    \/ MarkFired(a)
    \/ RememberDedup(a)

Next ==
    \/ Tick
    \/ Schedule
    \/ \E a \in Arms : RunJob(a) \/ JobFails(a)
    \/ Escalate
    \/ MarkDone
    \/ Restart

Spec == Init /\ [][Next]_vars

(* Time passes and the workers run the jobs that are due.                  *)
Fairness ==
    /\ WF_vars(Tick)
    /\ \A a \in Arms : WF_vars(RunJob(a))

FairSpec == Spec /\ Fairness

-----------------------------------------------------------------------------
(* Properties *)

(* Every variable holds a value of its kind. *)
TypeOK ==
    /\ now \in 0..MaxTime
    /\ rec \in Record
    /\ closed \in BOOLEAN
    /\ calls \in 0..MaxCalls
    /\ job \in [Arms -> JobLocation]
    /\ eta \in [Arms -> Int]
    /\ copy \in [Arms -> Record]
    /\ tries \in [Arms -> Nat]
    /\ dedup \subseteq Reminders
    /\ delivered \in [Reminders -> Nat]
    /\ faults \in 0..MaxFaults

(* A reminder that the record calls fired, or whose Redis key suppresses   *)
(* further jobs, has really been sent (fire_reminder), although jobs store *)
(* stale copies over each other and processes restart.                     *)
FiredDelivered ==
    \A r \in Reminders :
        rec.rem[r] = "fired" \/ r \in dedup => delivered[r] > 0

(* No reminder is sent for a deadline that was past due when it was        *)
(* created, whatever an earlier, failed call has left armed (schedule.py,  *)
(* fire_reminder).  What escalate() sends is no reminder.                  *)
FlaggedSilent == [][rec.state = "flagged" => delivered' = delivered]_vars

(* A reminder that is stored armed is sent, unless the deadline is done    *)
(* or the store was lost (task_fire_reminder, fire_reminder).              *)
ReminderDelivered ==
    \A r \in Reminders :
        rec.rem[r] = "armed" ~>
            delivered[r] > 0 \/ closed \/ rec.state = "none"
=============================================================================
