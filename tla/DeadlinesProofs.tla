-------------------------- MODULE DeadlinesProofs ---------------------------
(***************************************************************************)
(* Proofs about Deadlines, for any number of reminders, calls, retries and *)
(* faults, with Celery and without.                                        *)
(***************************************************************************)
EXTENDS Deadlines, TLAPS

USE RuleAssumption, LimitAssumption

-----------------------------------------------------------------------------
(* The inductive invariant *)

(* Whatever says that a reminder was sent is right: the record, the copies *)
(* jobs may still store over it, the Redis key and the place of a job.     *)
Sent ==
    /\ \A r \in Reminders : rec.rem[r] = "fired" => delivered[r] > 0
    /\ \A r \in dedup : delivered[r] > 0
    /\ \A a \in Arms : \A r \in Reminders :
         copy[a].rem[r] = "fired" => delivered[r] > 0
    /\ \A a \in Arms :
         job[a] \in {"mark", "remember"} => delivered[ReminderOf(a)] > 0

(* Only an active deadline has reminders, and a job that is about to send  *)
(* or to store belongs to the deadline that is stored.                     *)
Active(d) == \A r \in Reminders : d.rem[r] # "none" => d.state = "active"
Current ==
    /\ Active(rec)
    /\ \A a \in Arms :
         job[a] \in {"notify", "mark"} =>
             rec.state = "active" /\ copy[a].state = "active"

IInv == TypeOK /\ Sent /\ Current

-----------------------------------------------------------------------------
(* The reminder of a job is a reminder of the rule. *)
LEMMA ReminderType == \A a \in Arms : ReminderOf(a) \in Reminders
  BY DEF Arms, ReminderOf

(* The empty record is a record. *)
LEMMA NoRecordType ==
    /\ NoRecord \in Record
    /\ NoRecord.state = "none"
    /\ \A r \in Reminders : NoRecord.rem[r] = "none"
  BY DEF NoRecord, Record, ReminderStatus

(* Moving one job keeps the places well typed. *)
LEMMA GotoType ==
  ASSUME TypeOK, NEW a \in Arms, NEW l \in JobLocation, Goto(a, l)
  PROVE  /\ job' \in [Arms -> JobLocation]
         /\ job'[a] = l
         /\ \A b \in Arms : b # a => job'[b] = job[b]
  BY DEF Goto, TypeOK

(* The invariant holds before the first call. *)
LEMMA InitInv == Init => IInv
<1> SUFFICES ASSUME Init PROVE IInv
  OBVIOUS
<1>1. TypeOK
  <2>1. copy \in [Arms -> Record]  BY NoRecordType DEF Init
  <2>2. job \in [Arms -> JobLocation]  BY DEF Init, JobLocation
  <2>3. closed \in BOOLEAN  BY DEF Init
  <2> QED  BY <2>1, <2>2, <2>3, NoRecordType DEF Init, TypeOK
<1>2. Sent
  BY NoRecordType DEF Init, Sent
<1>3. Current
  BY NoRecordType DEF Init, Current, Active
<1> QED
  BY <1>1, <1>2, <1>3 DEF IInv

(* deadline.schedule keeps the invariant. *)
LEMMA ScheduleInv == IInv /\ Schedule => IInv'
<1> SUFFICES ASSUME IInv, Schedule PROVE IInv'
  OBVIOUS
<1> USE DEF IInv
<1>0. \A l \in {"waiting", "over"} : l \in JobLocation  BY DEF JobLocation
<1>1. CASE ScheduleAgain
  <2>1. TypeOK'  BY <1>1 DEF ScheduleAgain, Call, TypeOK, jobs
  <2>2. Sent'  BY <1>1 DEF ScheduleAgain, Sent, jobs
  <2>3. Current'  BY <1>1 DEF ScheduleAgain, Current, Active, jobs
  <2> QED  BY <2>1, <2>2, <2>3
<1>a. ASSUME NEW set \in SUBSET Arms, NEW due \in DueTimes, ArmJobs(set, due)
      PROVE  /\ job' \in [Arms -> JobLocation]
             /\ eta' \in [Arms -> Int]
             /\ UNCHANGED <<copy, tries>>
             /\ \A a \in Arms : job'[a] # "waiting" => job'[a] = job[a]
  BY <1>0, <1>a, ReminderType DEF ArmJobs, TypeOK, FireAt
<1>2. ASSUME NEW due \in DueTimes, ScheduleNew(due) PROVE IInv'
  <2>1. NewRecord(due) \in Record
    BY DEF NewRecord, Record, ReminderStatus, TypeOK
  <2>2. ArmSet(due) \in SUBSET Arms  BY DEF ArmSet
  <2>3. ArmJobs(ArmSet(due), due) /\ rec' = NewRecord(due)
        /\ UNCHANGED <<now, closed, dedup, delivered, faults>>
        /\ calls' = calls + 1 /\ calls < MaxCalls /\ rec.state = "none"
    BY <1>2 DEF ScheduleNew, Call
  <2>4. /\ job' \in [Arms -> JobLocation]
        /\ eta' \in [Arms -> Int]
        /\ UNCHANGED <<copy, tries>>
        /\ \A a \in Arms : job'[a] # "waiting" => job'[a] = job[a]
    BY <1>a, <2>2, <2>3
  <2>5. TypeOK'  BY <2>1, <2>3, <2>4 DEF TypeOK
  <2>6. rec'.state = "active" /\ \A r \in Reminders : rec'.rem[r] # "fired"
    BY <2>3 DEF NewRecord
  <2>7. Sent'  BY <2>3, <2>4, <2>6 DEF Sent
  <2>8. Current'  BY <2>3, <2>4, <2>6 DEF Current, Active
  <2> QED  BY <2>5, <2>7, <2>8
<1>3. ASSUME NEW due \in DueTimes, SchedulePastDue(due) PROVE IInv'
  <2>1. rec' \in Record /\ rec'.state = "flagged"
        /\ \A r \in Reminders : rec'.rem[r] = "none"
    BY <1>3, NoRecordType DEF SchedulePastDue, Record
  <2>2. rec.state = "none" /\ UNCHANGED <<now, closed, jobs, dedup, delivered, faults>>
        /\ calls' = calls + 1 /\ calls < MaxCalls
    BY <1>3 DEF SchedulePastDue, Call
  <2>3. TypeOK'  BY <2>1, <2>2 DEF TypeOK, jobs
  <2>4. Sent'  BY <2>1, <2>2 DEF Sent, jobs
  <2>5. Current'  BY <2>1, <2>2 DEF Current, Active, jobs
  <2> QED  BY <2>3, <2>4, <2>5
<1>4. ASSUME NEW due \in DueTimes, ScheduleFails(due) PROVE IInv'
  <2>1. PICK failed \in ArmSet(due) :
          ArmJobs({a \in ArmSet(due) :
                    \/ ReminderOf(a) < ReminderOf(failed)
                    \/ ReminderOf(a) = ReminderOf(failed) /\ a[3] < failed[3]},
                  due)
    BY <1>4 DEF ScheduleFails
  <2>2. /\ job' \in [Arms -> JobLocation]
        /\ eta' \in [Arms -> Int]
        /\ UNCHANGED <<copy, tries>>
        /\ \A a \in Arms : job'[a] # "waiting" => job'[a] = job[a]
    BY <1>a, <2>1 DEF ArmSet
  <2>3. UNCHANGED <<now, rec, closed, dedup, delivered>>
        /\ calls' = calls + 1 /\ calls < MaxCalls
        /\ faults' = faults + 1 /\ faults < MaxFaults
    BY <1>4 DEF ScheduleFails, Call, Fault
  <2>4. TypeOK'  BY <2>2, <2>3 DEF TypeOK
  <2>5. Sent'  BY <2>2, <2>3 DEF Sent
  <2>6. Current'  BY <2>2, <2>3 DEF Current, Active
  <2> QED  BY <2>4, <2>5, <2>6
<1> QED
  BY <1>1, <1>2, <1>3, <1>4 DEF Schedule

(* A reminder job keeps the invariant, in each of its steps. *)
LEMMA JobInv ==
  ASSUME IInv, NEW a \in Arms, RunJob(a) \/ JobFails(a)
  PROVE  IInv'
<1> USE DEF IInv
<1> DEFINE r == ReminderOf(a)
<1>0. r \in Reminders  BY ReminderType
<1>l. \A l \in {"waiting", "check", "notify", "mark", "remember", "over"} :
        l \in JobLocation
  BY DEF JobLocation
<1>1. CASE StartJob(a)
  <2>1. PICK l \in {"over", "check"} : Goto(a, l)  BY <1>1 DEF StartJob
  <2>2. UNCHANGED <<now, rec, closed, calls, eta, copy, tries, dedup, delivered, faults>>
    BY <1>1 DEF StartJob
  <2>3. job' \in [Arms -> JobLocation] /\ job'[a] = l
        /\ \A b \in Arms : b # a => job'[b] = job[b]
    BY <1>l, <2>1, GotoType
  <2>4. TypeOK'  BY <2>2, <2>3 DEF TypeOK
  <2>5. Sent'  BY <2>2, <2>3 DEF Sent
  <2>6. Current'  BY <2>2, <2>3 DEF Current, Active
  <2> QED  BY <2>4, <2>5, <2>6
<1>2. CASE CheckReminder(a)
  <2>1. UNCHANGED <<now, rec, closed, calls, eta, tries, dedup, delivered, faults>>
    BY <1>2 DEF CheckReminder
  <2>2. CASE Found(a)
    <3>1. copy' = [copy EXCEPT ![a] = rec] /\ Goto(a, "notify")
      BY <1>2, <2>2 DEF CheckReminder
    <3>2. job' \in [Arms -> JobLocation] /\ job'[a] = "notify"
          /\ \A b \in Arms : b # a => job'[b] = job[b]
      BY <1>l, <3>1, GotoType
    <3>3. copy' \in [Arms -> Record] /\ copy'[a] = rec
          /\ \A b \in Arms : b # a => copy'[b] = copy[b]
      BY <3>1 DEF TypeOK
    <3>4. rec.state = "active"
      BY <1>0, <2>2 DEF Found, Current, Active
    <3>5. TypeOK'  BY <2>1, <3>2, <3>3 DEF TypeOK
    <3>6. Sent'  BY <2>1, <3>2, <3>3 DEF Sent
    <3>7. Current'  BY <2>1, <3>2, <3>3, <3>4 DEF Current, Active
    <3> QED  BY <3>5, <3>6, <3>7
  <2>3. CASE ~Found(a)
    <3>1. copy' = copy /\ Goto(a, "over")
      BY <1>2, <2>3 DEF CheckReminder
    <3>2. job' \in [Arms -> JobLocation] /\ job'[a] = "over"
          /\ \A b \in Arms : b # a => job'[b] = job[b]
      BY <1>l, <3>1, GotoType
    <3>3. TypeOK'  BY <2>1, <3>1, <3>2 DEF TypeOK
    <3>4. Sent'  BY <2>1, <3>1, <3>2 DEF Sent
    <3>5. Current'  BY <2>1, <3>1, <3>2 DEF Current, Active
    <3> QED  BY <3>3, <3>4, <3>5
  <2> QED  BY <2>2, <2>3
<1>3. CASE Notify(a)
  <2>1. UNCHANGED <<now, rec, closed, calls, eta, copy, tries, dedup, faults>>
        /\ job[a] = "notify" /\ Goto(a, "mark")
        /\ delivered' = [delivered EXCEPT ![r] = @ + 1]
    BY <1>3 DEF Notify
  <2>2. job' \in [Arms -> JobLocation] /\ job'[a] = "mark"
        /\ \A b \in Arms : b # a => job'[b] = job[b]
    BY <1>l, <2>1, GotoType
  <2>3. delivered' \in [Reminders -> Nat] /\ delivered'[r] > 0
        /\ \A q \in Reminders : delivered[q] > 0 => delivered'[q] > 0
    BY <1>0, <2>1 DEF TypeOK
  <2>4. TypeOK'  BY <2>1, <2>2, <2>3 DEF TypeOK
  <2>5. Sent'
    <3>1. \A b \in Arms : job'[b] \in {"mark", "remember"}
                            => delivered'[ReminderOf(b)] > 0
      BY <2>2, <2>3, ReminderType DEF Sent
    <3> QED  BY <2>1, <2>3, <3>1 DEF Sent, TypeOK
  <2>6. Current'  BY <2>1, <2>2 DEF Current, Active
  <2> QED  BY <2>4, <2>5, <2>6
<1>4. CASE MarkFired(a)
  <2>1. UNCHANGED <<now, closed, calls, eta, tries, dedup, delivered, faults>>
        /\ job[a] = "mark" /\ Goto(a, "remember")
        /\ rec' = [copy[a] EXCEPT !.rem[r] = "fired"]
        /\ copy' = [copy EXCEPT ![a] = NoRecord]
    BY <1>4 DEF MarkFired
  <2>2. job' \in [Arms -> JobLocation] /\ job'[a] = "remember"
        /\ \A b \in Arms : b # a => job'[b] = job[b]
    BY <1>l, <2>1, GotoType
  <2>3. copy[a] \in Record  BY DEF TypeOK
  <2>4. rec' \in Record /\ rec'.state = copy[a].state /\ rec'.rem[r] = "fired"
        /\ \A q \in Reminders : q # r => rec'.rem[q] = copy[a].rem[q]
    BY <1>0, <2>1, <2>3 DEF Record, ReminderStatus
  <2>5. copy' \in [Arms -> Record] /\ copy'[a] = NoRecord
        /\ \A b \in Arms : b # a => copy'[b] = copy[b]
    BY <2>1, NoRecordType DEF TypeOK
  <2>6. TypeOK'  BY <2>1, <2>2, <2>4, <2>5 DEF TypeOK
  <2>7. delivered[r] > 0  BY <2>1 DEF Sent
  <2>8. Sent'  BY <2>1, <2>2, <2>4, <2>5, <2>7, NoRecordType DEF Sent
  <2>9. rec'.state = "active"  BY <2>1, <2>4 DEF Current
  <2>10. Current'  BY <2>1, <2>2, <2>5, <2>9 DEF Current, Active
  <2> QED  BY <2>6, <2>8, <2>10
<1>5. CASE RememberDedup(a)
  <2>1. UNCHANGED <<now, rec, closed, calls, eta, copy, tries, delivered, faults>>
        /\ job[a] = "remember" /\ Goto(a, "over") /\ dedup' = dedup \cup {r}
    BY <1>5 DEF RememberDedup
  <2>2. job' \in [Arms -> JobLocation] /\ job'[a] = "over"
        /\ \A b \in Arms : b # a => job'[b] = job[b]
    BY <1>l, <2>1, GotoType
  <2>3. TypeOK'  BY <1>0, <2>1, <2>2 DEF TypeOK
  <2>4. Sent'  BY <2>1, <2>2 DEF Sent
  <2>5. Current'  BY <2>1, <2>2 DEF Current, Active
  <2> QED  BY <2>3, <2>4, <2>5
<1>6. CASE JobFails(a)
  <2>1. UNCHANGED <<now, rec, closed, calls, eta, dedup, delivered>>
        /\ faults' = faults + 1 /\ faults < MaxFaults
    BY <1>6 DEF JobFails, CallFails, Fault
  <2>2. RetryJob(a)  BY <1>6 DEF JobFails
  <2>3. PICK l \in {"waiting", "over"} : Goto(a, l)  BY <2>2 DEF RetryJob
  <2>4. job' \in [Arms -> JobLocation] /\ job'[a] = l
        /\ \A b \in Arms : b # a => job'[b] = job[b]
    BY <1>l, <2>3, GotoType
  <2>5. copy' \in [Arms -> Record] /\ copy'[a] = NoRecord
        /\ \A b \in Arms : b # a => copy'[b] = copy[b]
    BY <2>2, NoRecordType DEF RetryJob, TypeOK
  <2>6. tries' \in [Arms -> Nat]  BY <2>2 DEF RetryJob, TypeOK
  <2>7. TypeOK'  BY <2>1, <2>4, <2>5, <2>6 DEF TypeOK
  <2>8. Sent'  BY <2>1, <2>4, <2>5, NoRecordType DEF Sent
  <2>9. Current'  BY <2>1, <2>4, <2>5 DEF Current, Active
  <2> QED  BY <2>7, <2>8, <2>9
<1> QED
  BY <1>1, <1>2, <1>3, <1>4, <1>5, <1>6 DEF RunJob

(* Every step of the engine keeps the invariant. *)
LEMMA StepInv == IInv /\ [Next]_vars => IInv'
<1> SUFFICES ASSUME IInv, [Next]_vars PROVE IInv'
  OBVIOUS
<1> USE DEF IInv
<1>1. CASE Tick
  <2>1. TypeOK'  BY <1>1 DEF Tick, TypeOK, jobs
  <2>2. Sent'  BY <1>1 DEF Tick, Sent, jobs
  <2>3. Current'  BY <1>1 DEF Tick, Current, Active, jobs
  <2> QED  BY <2>1, <2>2, <2>3
<1>2. CASE Schedule  BY <1>2, ScheduleInv
<1>3. CASE \E a \in Arms : RunJob(a) \/ JobFails(a)  BY <1>3, JobInv
<1>4. CASE Escalate
  <2>1. UNCHANGED <<now, closed, calls, jobs, dedup, delivered, faults>>
        /\ rec' = [rec EXCEPT !.level = @ + 1]
    BY <1>4 DEF Escalate
  <2>2. rec' \in Record /\ rec'.state = rec.state /\ rec'.rem = rec.rem
    <3>1. rec \in Record /\ rec.level + 1 \in Nat  BY DEF TypeOK, Record
    <3> QED  BY <2>1, <3>1 DEF Record
  <2>3. TypeOK'  BY <2>1, <2>2 DEF TypeOK, jobs
  <2>4. Sent'  BY <2>1, <2>2 DEF Sent, jobs
  <2>5. Current'  BY <2>1, <2>2 DEF Current, Active, jobs
  <2> QED  BY <2>3, <2>4, <2>5
<1>5. CASE MarkDone
  <2>1. UNCHANGED <<now, calls, eta, copy, tries, dedup, delivered, faults>>
        /\ closed' = TRUE
        /\ rec' = [rec EXCEPT !.rem =
                     [r \in Reminders |->
                        IF rec.rem[r] = "armed" THEN "skipped_past"
                                                ELSE rec.rem[r]]]
        /\ job' = [a \in Arms |->
                     IF job[a] = "waiting" /\ Redundant(a)
                       THEN "over" ELSE job[a]]
    BY <1>5 DEF MarkDone
  <2>2. rec' \in Record /\ rec'.state = rec.state
        /\ \A r \in Reminders : /\ rec'.rem[r] = "fired" => rec.rem[r] = "fired"
                                /\ rec'.rem[r] # "none" => rec.rem[r] # "none"
    BY <2>1 DEF TypeOK, Record, ReminderStatus
  <2>3. job' \in [Arms -> JobLocation]
        /\ \A a \in Arms : job'[a] # "over" => job'[a] = job[a]
    BY <2>1 DEF TypeOK, JobLocation
  <2>4. TypeOK'  BY <2>1, <2>2, <2>3 DEF TypeOK
  <2>5. Sent'  BY <2>1, <2>2, <2>3 DEF Sent
  <2>6. Current'  BY <2>1, <2>2, <2>3 DEF Current, Active
  <2> QED  BY <2>4, <2>5, <2>6
<1>6. CASE Restart
  <2>1. UNCHANGED <<now, calls, eta, tries, dedup, delivered>>
        /\ rec' = NoRecord /\ closed' = FALSE
        /\ faults' = faults + 1 /\ faults < MaxFaults
        /\ job' = [a \in Arms |-> IF job[a] \in {"none", "over"}
                                    THEN job[a] ELSE "waiting"]
        /\ copy' = [a \in Arms |-> NoRecord]
    BY <1>6 DEF Restart, Fault
  <2>2. job' \in [Arms -> JobLocation]
        /\ \A a \in Arms : job'[a] \in {"none", "over", "waiting"}
    BY <2>1 DEF TypeOK, JobLocation
  <2>6. copy' \in [Arms -> Record]  BY <2>1, NoRecordType
  <2>7. closed' \in BOOLEAN  BY <2>1
  <2>3. TypeOK'  BY <2>1, <2>2, <2>6, <2>7, NoRecordType DEF TypeOK
  <2>4. Sent'  BY <2>1, <2>2, NoRecordType DEF Sent
  <2>5. Current'  BY <2>1, <2>2, NoRecordType DEF Current, Active
  <2> QED  BY <2>3, <2>4, <2>5
<1>7. CASE UNCHANGED vars
  <2>1. TypeOK'  BY <1>7 DEF vars, TypeOK, jobs
  <2>2. Sent'  BY <1>7 DEF vars, Sent, jobs
  <2>3. Current'  BY <1>7 DEF vars, Current, Active, jobs
  <2> QED  BY <2>1, <2>2, <2>3
<1> QED
  BY <1>1, <1>2, <1>3, <1>4, <1>5, <1>6, <1>7 DEF Next

(* The invariant holds throughout every behaviour. *)
LEMMA Invariance == Spec => []IInv
  BY InitInv, StepInv, PTL DEF Spec

-----------------------------------------------------------------------------
(* The record, the copies the jobs work on, the queue and the counters     *)
(* keep their types: the calls of schedule(), fire_reminder and the        *)
(* escalation stay within their limits.                                    *)
THEOREM TypeCorrect == Spec => []TypeOK
<1>1. IInv => TypeOK  BY DEF IInv
<1> QED  BY <1>1, Invariance, PTL

(* What the record and the Redis key say was sent was sent: fire_reminder  *)
(* never marks a reminder that it has not delivered, whatever jobs, calls, *)
(* completions and restarts interleave.                                    *)
THEOREM FiredSafety == Spec => []FiredDelivered
<1>1. IInv => FiredDelivered  BY DEF IInv, Sent, FiredDelivered
<1> QED  BY <1>1, Invariance, PTL

(* A step that sends is a job's, and the deadline it belongs to is active. *)
LEMMA SendsActive ==
  IInv /\ [Next]_vars => (rec.state = "flagged" => delivered' = delivered)
<1> SUFFICES ASSUME IInv, [Next]_vars, rec.state = "flagged"
             PROVE  delivered' = delivered
  OBVIOUS
<1>1. ASSUME NEW a \in Arms, Notify(a) PROVE FALSE
  BY <1>1 DEF Notify, IInv, Current
<1>2. CASE \E a \in Arms : RunJob(a) \/ JobFails(a)
  BY <1>1, <1>2 DEF RunJob, StartJob, CheckReminder, MarkFired, RememberDedup,
                    JobFails
<1>3. CASE Schedule
  BY <1>3 DEF Schedule, ScheduleAgain, ScheduleNew, SchedulePastDue,
              ScheduleFails
<1> QED
  BY <1>2, <1>3 DEF Next, vars, Tick, Escalate, MarkDone, Restart

(* No reminder is ever sent for a deadline that was past due on create.    *)
THEOREM FlaggedSafety == Spec => FlaggedSilent
  BY Invariance, SendsActive, PTL DEF Spec, FlaggedSilent
=============================================================================
