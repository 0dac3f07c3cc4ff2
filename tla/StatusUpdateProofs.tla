------------------------- MODULE StatusUpdateProofs -------------------------
(***************************************************************************)
(* No answered send is repeated, no seal lies and no acknowledged event is *)
(* lost but between its key and the sink, for any number of requests,      *)
(* events, statuses, sweeps and faults.  The argument about the mails is   *)
(* about the run rows alone: a change id has one row, and the row moves    *)
(* past the step that sends before anything could send again.              *)
(***************************************************************************)
EXTENDS StatusUpdate, TLAPS

(* A change whose send was answered has a run that is past send_email ... *)
AnsweredPast ==
    \A c \in answered : c \in DOMAIN run /\ run[c] \in {"sent", "ended"}

(* ... and a run that has just sent stands for a mail. *)
SentMailed == \A c \in DOMAIN run : run[c] = "sent" => c \in mailed

Mails == AnsweredPast /\ SentMailed /\ SealHonest

(* No email has been sent when the program starts (LastKnownStatusStore). *)
LEMMA InitMails == Init => Mails
  BY DEF Init, Mails, AnsweredPast, SentMailed, SealHonest

(* handle_status_change_event gives a change id a row only when it has     *)
(* none, so no row that is past send_email goes back to QUEUED.            *)
LEMMA StartKeepsMails ==
    ASSUME Mails, NEW c, run' = StartRun(c), UNCHANGED <<mailed, answered, sealed>>
    PROVE  Mails'
  <1>1. ASSUME c \notin DOMAIN run, run' = Queued(c)
        PROVE  Mails'
    <2>1. /\ DOMAIN run' = DOMAIN run \cup {c}
          /\ \A x \in DOMAIN run : run'[x] = run[x]
          /\ run'[c] = "queued"
      BY <1>1 DEF Queued
    <2>2. QED
      BY <2>1 DEF Mails, AnsweredPast, SentMailed, SealHonest
  <1>2. CASE run' = run
    BY <1>2 DEF Mails, AnsweredPast, SentMailed, SealHonest
  <1>3. QED
    BY <1>1, <1>2 DEF StartRun

(* What Advance does to the rows: one run moves, the others stay. *)
LEMMA AdvanceEffect ==
    ASSUME NEW c \in DOMAIN run, NEW old, NEW new, Advance(c, old, new)
    PROVE  /\ run[c] = old
           /\ DOMAIN run' = DOMAIN run
           /\ run'[c] = new
           /\ \A x \in DOMAIN run : x # c => run'[x] = run[x]
  BY DEF Advance

(* A step of a run keeps the rows and the mails in agreement (the steps of *)
(* StatusUpdateEmailWorkflow and its gate).                                *)
LEMMA RunKeepsMails ==
    ASSUME Mails, NEW c \in DOMAIN run,
           Execute(c) \/ Approve(c) \/ Reject(c) \/ SendFails(c)
    PROVE  Mails'
  <1>1. CASE ComputeDelta(c)
    <2>1. Advance(c, "queued", "computed") /\ UNCHANGED <<mailed, answered, sealed>>
      BY <1>1 DEF ComputeDelta
    <2>2. QED
      BY <2>1, AdvanceEffect DEF Mails, AnsweredPast, SentMailed, SealHonest
  <1>2. CASE SendEmail(c)
    <2>1. /\ Advance(c, "approved", "sent")
          /\ mailed' = mailed \cup {c}
          /\ answered' = answered \cup {c}
          /\ UNCHANGED sealed
      BY <1>2 DEF SendEmail
    <2>2. QED
      BY <2>1, AdvanceEffect DEF Mails, AnsweredPast, SentMailed, SealHonest
  <1>3. CASE RecordOutcome(c)
    <2>1. UNCHANGED <<mailed, answered>>
      BY <1>3 DEF RecordOutcome
    <2>2. CASE Advance(c, "sent", "ended") /\ sealed' = sealed \cup {c}
      BY <2>1, <2>2, AdvanceEffect
         DEF Mails, AnsweredPast, SentMailed, SealHonest
    <2>3. CASE Advance(c, "unsent", "ended") /\ sealed' = sealed
      BY <2>1, <2>3, AdvanceEffect
         DEF Mails, AnsweredPast, SentMailed, SealHonest
    <2>4. QED
      BY <1>3, <2>2, <2>3 DEF RecordOutcome
  <1>4. CASE Approve(c)
    <2>1. /\ Advance(c, "computed", "approved") \/ Advance(c, "computed", "unsent")
          /\ UNCHANGED <<mailed, answered, sealed>>
      BY <1>4 DEF Approve
    <2>2. QED
      BY <2>1, AdvanceEffect DEF Mails, AnsweredPast, SentMailed, SealHonest
  <1>5. CASE Reject(c) \/ SendFails(c)
    <2>1. /\ \/ Advance(c, "computed", "ended")
             \/ Advance(c, "approved", "ended")
             \/ Advance(c, "approved", "approved")
          /\ mailed \subseteq mailed'
          /\ UNCHANGED <<answered, sealed>>
      BY <1>5 DEF Reject, SendFails
    <2>2. QED
      BY <2>1, AdvanceEffect DEF Mails, AnsweredPast, SentMailed, SealHonest
  <1>6. QED
    BY <1>1, <1>2, <1>3, <1>4, <1>5 DEF Execute

(* Every step keeps the rows and the mails in agreement (workflow.py,      *)
(* store.py): requests, sweeps and restarts leave both alone or forget     *)
(* seals.                                                                  *)
LEMMA NextMails == Mails /\ [Next]_vars => Mails'
  <1> SUFFICES ASSUME Mails, [Next]_vars
               PROVE  Mails'
    OBVIOUS
  <1>1. CASE UNCHANGED <<run, mailed, answered, sealed>>
    BY <1>1 DEF Mails, AnsweredPast, SentMailed, SealHonest
  <1>2. ASSUME NEW e \in Events, HandleEvent(e)
        PROVE  Mails'
    BY <1>2, StartKeepsMails DEF HandleEvent
  <1>3. CASE SweepStart
    BY <1>3, StartKeepsMails DEF SweepStart
  <1>4. CASE Restart
    BY <1>4 DEF Restart, Mails, AnsweredPast, SentMailed, SealHonest
  <1>5. ASSUME NEW c \in DOMAIN run,
               Execute(c) \/ Approve(c) \/ Reject(c) \/ SendFails(c)
        PROVE  Mails'
    BY <1>5, RunKeepsMails
  <1>6. CASE (IngestNext /\ UNCHANGED notices) \/ UNCHANGED vars
    BY <1>1, <1>6 DEF notices, vars
  <1>7. ASSUME NEW s \in Statuses, ChangeStatus(s)
        PROVE  Mails'
    BY <1>1, <1>7 DEF ChangeStatus
  <1>8. CASE SweepRead \/ SweepNothing \/ SweepSkip \/ SweepRecord \/ SweepFails
    BY <1>1, <1>8 DEF SweepRead, SweepNothing, SweepSkip, SweepRecord, SweepFails
  <1>9. QED
    BY <1>2, <1>3, <1>4, <1>5, <1>6, <1>7, <1>8 DEF Next, Sweep

(* A run about to send is of a change no send of which was answered. *)
LEMMA ApprovedUnanswered ==
    Mails => [\A c \in DOMAIN run :
                 run[c] = "approved" /\ run'[c] = "sent" => c \notin answered]_vars
  BY DEF Mails, AnsweredPast

(* Once its send was answered a change id is not sent again (send_email    *)
(* under create_run's dedupe key), for any constants and any faults.       *)
THEOREM MailedOnceSafety == Spec => MailedOnce
  BY InitMails, NextMails, ApprovedUnanswered, PTL DEF Spec, MailedOnce

(* A seal always stands for an email that was sent (record_outcome).       *)
THEOREM SealSafety == Spec => []SealHonest
  <1>1. Mails => SealHonest
    BY DEF Mails
  <1>2. QED
    BY <1>1, InitMails, NextMails, PTL DEF Spec

-----------------------------------------------------------------------------
(* Types *)

USE IngestAssumption, StatusAssumption

(* The two halves of TypeOK: the endpoint's variables and the workflow's. *)
IngestType ==
    /\ offered \in [Events -> {"none", "pending", "acked"}]
    /\ at \in [Requests -> {"idle", "lookup", "mark", "enqueue"}]
    /\ of \in [Requests -> 0..MaxEvents]
    /\ processed \subseteq Events
    /\ queue \in [Events -> Nat]
    /\ enqueued \subseteq Events
    /\ stranded \subseteq Events
    /\ faults \in 0..MaxFaults

RunType ==
    /\ DOMAIN run \subseteq ChangeIds
    /\ run \in [DOMAIN run -> Stage]
    /\ sealed \subseteq ChangeIds
    /\ mailed \subseteq ChangeIds
    /\ answered \subseteq ChangeIds

MatterType ==
    /\ hist \in Seq(Statuses)
    /\ last \in Statuses \cup {NoStatus}
    /\ counter \in Nat
    /\ sweep \in [at : {"idle", "compare", "record"}, status : Statuses]

(* The history has a first status and changes in every step; an event that *)
(* is offered, carried by a request or waits in the sink announces one of  *)
(* its changes.  Without it an event could name a change that never was.   *)
History ==
    /\ Len(hist) \in 1..(MaxEvents + 1)
    /\ \A n \in Events : n < Len(hist) => hist[n] # hist[n + 1]

Announced ==
    /\ \A e \in Events : offered[e] # "none" \/ queue[e] > 0 => e < Len(hist)
    /\ \A q \in Requests : at[q] # "idle" => of[q] \in Events /\ of[q] < Len(hist)

TInv == IngestType /\ RunType /\ MatterType /\ History /\ Announced

(* The parts make up the type invariant. *)
LEMMA TypeParts == TInv => TypeOK
  BY DEF TInv, IngestType, RunType, MatterType, TypeOK

(* What an announced event is about is a change id. *)
LEMMA EventChangeType ==
    ASSUME MatterType, History, NEW e \in Events, e < Len(hist)
    PROVE  EventChange(e) \in ChangeIds
  <1>1. e \in 1..Len(hist) /\ e + 1 \in 1..Len(hist)
    BY DEF Events, History
  <1>2. hist[e] \in Statuses /\ hist[e + 1] \in Statuses
    BY <1>1 DEF MatterType
  <1>3. hist[e] # hist[e + 1]
    BY DEF History
  <1>4. <<"event", e>> \in Discriminators
    BY DEF Discriminators
  <1>5. QED
    BY <1>2, <1>3, <1>4 DEF EventChange, ChangeIds

(* What a sweep that found a difference is about is a change id. *)
LEMMA SweepChangeType ==
    ASSUME MatterType, Differs, CountSweep
    PROVE  SweepChange(counter + 1) \in ChangeIds
  <1>1. counter + 1 \in 1..MaxSweeps
    BY DEF CountSweep, MatterType
  <1>2. <<"sweep", counter + 1>> \in Discriminators
    BY <1>1 DEF Discriminators
  <1>3. last \in Statuses /\ sweep.status \in Statuses /\ last # sweep.status
    BY DEF Differs, MatterType
  <1>4. QED
    BY <1>2, <1>3 DEF SweepChange, ChangeIds

(* Starting a run of a change id keeps the rows well typed. *)
LEMMA StartRunType ==
    ASSUME RunType, NEW c \in ChangeIds, run' = StartRun(c),
           UNCHANGED <<sealed, mailed, answered>>
    PROVE  RunType'
  <1>1. CASE run' = Queued(c)
    <2>1. DOMAIN run' = DOMAIN run \cup {c}
      BY <1>1 DEF Queued
    <2>2. \A x \in DOMAIN run' : run'[x] \in Stage
      BY <1>1 DEF Queued, RunType, Stage
    <2>3. run' = [x \in DOMAIN run' |-> run'[x]]
      BY <1>1 DEF Queued
    <2>4. run' \in [DOMAIN run' -> Stage]
      BY <2>2, <2>3
    <2>5. QED
      BY <2>1, <2>4 DEF RunType
  <1>2. CASE run' = run
    BY <1>2 DEF RunType
  <1>3. QED
    BY <1>1, <1>2 DEF StartRun

(* So does moving one on. *)
LEMMA AdvanceType ==
    ASSUME RunType, NEW c \in DOMAIN run, NEW old, NEW new \in Stage,
           Advance(c, old, new)
    PROVE  DOMAIN run' \subseteq ChangeIds /\ run' \in [DOMAIN run' -> Stage]
  BY DEF Advance, RunType

(* A new run, a request's step and a change of the status keep the types.  *)
LEMMA InitType == Init => TInv
  <1> SUFFICES ASSUME Init PROVE TInv
    OBVIOUS
  <1>1. IngestType
    BY DEF Init, IngestInit, IngestType
  <1>2. RunType
    BY DEF Init, RunType
  <1>3. MatterType
    BY DEF Init, MatterType, Idle
  <1>4. History
    BY DEF Init, History, Events
  <1>5. Announced
    BY DEF Init, IngestInit, Announced
  <1>6. QED
    BY <1>1, <1>2, <1>3, <1>4, <1>5 DEF TInv

(* The answer to a request that carries an event. *)
LEMMA AnswerType ==
    ASSUME TInv, NEW q \in Requests, at[q] # "idle", NEW b \in BOOLEAN,
           Answer(q, b), hist' = hist,
           processed' \subseteq processed \cup {of[q]},
           enqueued' \subseteq enqueued \cup {of[q]},
           stranded' \subseteq stranded \cup {of[q]},
           queue' \in {queue, [queue EXCEPT ![of[q]] = @ + 1]},
           faults' \in 0..MaxFaults
    PROVE  IngestType' /\ Announced'
  <1>1. of[q] \in Events /\ of[q] < Len(hist)
    BY DEF TInv, Announced
  <1>2. queue' \in [Events -> Nat]
    BY <1>1 DEF TInv, IngestType
  <1>3. offered' \in [Events -> {"none", "pending", "acked"}]
    BY <1>1 DEF TInv, IngestType, Answer
  <1>4. IngestType'
    BY <1>1, <1>2, <1>3 DEF TInv, IngestType, Answer
  <1>5. ASSUME NEW e \in Events, offered'[e] # "none" \/ queue'[e] > 0
        PROVE  e < Len(hist')
    <2>1. CASE e = of[q]
      BY <1>1, <2>1
    <2>2. CASE e # of[q]
      <3>1. offered'[e] = offered[e]
        BY <1>1, <2>2 DEF TInv, IngestType, Answer
      <3>2. queue'[e] = queue[e]
        BY <1>1, <2>2 DEF TInv, IngestType
      <3>3. QED
        BY <1>5, <3>1, <3>2 DEF TInv, Announced
    <2>3. QED
      BY <2>1, <2>2
  <1>6. ASSUME NEW r \in Requests, at'[r] # "idle"
        PROVE  of'[r] \in Events /\ of'[r] < Len(hist')
    <2>1. r # q /\ at'[r] = at[r] /\ of'[r] = of[r]
      BY <1>6 DEF TInv, IngestType, Answer
    <2>2. QED
      BY <1>6, <2>1 DEF TInv, Announced
  <1>7. QED
    BY <1>4, <1>5, <1>6 DEF Announced

(* The endpoint keeps the types. *)
LEMMA IngestKeepsType ==
    ASSUME TInv, IngestNext, UNCHANGED notices
    PROVE  TInv'
  <1>1. /\ hist' = hist /\ last' = last /\ counter' = counter
        /\ sealed' = sealed /\ run' = run /\ mailed' = mailed
        /\ answered' = answered /\ sweep' = sweep
    BY DEF notices
  <1>2. RunType' /\ MatterType' /\ History'
    BY <1>1 DEF TInv, RunType, MatterType, History
  <1>3. ASSUME NEW q \in Requests, NEW e \in Events, Begin(q, e),
               offered[e] # "none", faults' \in 0..MaxFaults,
               UNCHANGED <<offered, processed, queue, enqueued, stranded>>
        PROVE  IngestType' /\ Announced'
    <2>1. e < Len(hist)
      BY <1>3 DEF TInv, Announced
    <2>2. IngestType'
      BY <1>3 DEF TInv, IngestType, Begin, Events
    <2>3. \A r \in Requests : r # q => at'[r] = at[r] /\ of'[r] = of[r]
      BY <1>3 DEF TInv, IngestType, Begin
    <2>4. of'[q] = e
      BY <1>3 DEF TInv, IngestType, Begin
    <2>5. QED
      BY <1>1, <1>3, <2>1, <2>2, <2>3, <2>4 DEF TInv, Announced
  <1>4. \A k : Fault(k) => faults' \in 0..MaxFaults
    BY DEF Fault, TInv, IngestType
  <1>5. faults \in 0..MaxFaults
    BY DEF TInv, IngestType
  <1>6. ASSUME NEW q \in Requests, NEW e \in Events, Deliver(q, e) \/ DeliverAgain(q, e)
        PROVE  IngestType' /\ Announced'
    BY <1>3, <1>4, <1>5, <1>6 DEF Deliver, DeliverAgain
  <1>7. ASSUME NEW q \in Requests, CheckDuplicate(q)
        PROVE  IngestType' /\ Announced'
    <2>1. at[q] # "idle" /\ UNCHANGED <<processed, queue, enqueued, stranded, faults>>
      BY <1>7 DEF CheckDuplicate
    <2>2. CASE Answer(q, TRUE)
      BY <1>1, <1>5, <2>1, <2>2, AnswerType
    <2>3. CASE at' = [at EXCEPT ![q] = "mark"] /\ UNCHANGED <<of, offered>>
      <3>1. IngestType'
        BY <2>1, <2>3 DEF TInv, IngestType
      <3>2. \A r \in Requests : at'[r] # "idle" => at[r] # "idle"
        BY <2>1, <2>3 DEF TInv, IngestType
      <3>3. QED
        BY <1>1, <2>1, <2>3, <3>1, <3>2 DEF TInv, Announced
    <2>4. QED
      BY <1>7, <2>2, <2>3 DEF CheckDuplicate
  <1>8. ASSUME NEW q \in Requests, MarkProcessed(q)
        PROVE  IngestType' /\ Announced'
    <2>1. of[q] \in Events
      BY <1>8 DEF MarkProcessed, TInv, Announced
    <2>2. IngestType'
      BY <1>8, <2>1 DEF MarkProcessed, TInv, IngestType
    <2>3. \A r \in Requests : at'[r] # "idle" => at[r] # "idle"
      BY <1>8 DEF MarkProcessed, TInv, IngestType
    <2>4. QED
      BY <1>1, <1>8, <2>2, <2>3 DEF MarkProcessed, TInv, Announced
  <1>9. ASSUME NEW q \in Requests, Enqueue(q)
        PROVE  IngestType' /\ Announced'
    BY <1>1, <1>5, <1>9, AnswerType DEF Enqueue
  <1>10. ASSUME NEW q \in Requests, RedisFails(q) \/ EnqueueFails(q)
         PROVE  IngestType' /\ Announced'
    <2>1. at[q] # "idle" /\ Answer(q, FALSE) /\ UNCHANGED <<queue, enqueued>>
      BY <1>10 DEF RedisFails, EnqueueFails
    <2>2. /\ processed' \subseteq processed \cup {of[q]}
          /\ stranded' \subseteq stranded \cup {of[q]}
          /\ faults' \in 0..MaxFaults
      BY <1>4, <1>10 DEF RedisFails, EnqueueFails
    <2>3. QED
      BY <1>1, <2>1, <2>2, AnswerType
  <1>11. IngestType' /\ Announced'
    BY <1>6, <1>7, <1>8, <1>9, <1>10 DEF IngestNext, Serve
  <1>12. QED
    BY <1>2, <1>11 DEF TInv

(* A step that leaves the endpoint and the history alone. *)
LEMMA QuietType ==
    ASSUME TInv, UNCHANGED <<ingest, hist>>, faults' \in 0..MaxFaults
    PROVE  IngestType' /\ History' /\ Announced'
  BY DEF ingest, TInv, IngestType, History, Announced

(* Every step keeps the types. *)
LEMMA NextType == TInv /\ [Next]_vars => TInv'
  <1> SUFFICES ASSUME TInv, [Next]_vars PROVE TInv'
    OBVIOUS
  <1>1. faults \in 0..MaxFaults /\ \A k : Fault(k) => faults' \in 0..MaxFaults
    BY DEF Fault, TInv, IngestType
  <1>2. ASSUME NEW s \in Statuses, ChangeStatus(s)
        PROVE  TInv'
    <2>1. /\ Len(hist) \in Events /\ hist \in Seq(Statuses)
          /\ hist' = Append(hist, s) /\ s # hist[Len(hist)]
          /\ offered' = [offered EXCEPT ![Len(hist)] = "pending"]
          /\ UNCHANGED <<at, of, processed, queue, enqueued, stranded, faults>>
      BY <1>2 DEF ChangeStatus, TInv, MatterType, History, Events, Current
    <2>2. /\ Len(hist') = Len(hist) + 1
          /\ hist' \in Seq(Statuses)
          /\ hist'[Len(hist) + 1] = s
          /\ \A n \in 1..Len(hist) : hist'[n] = hist[n]
      BY <2>1
    <2>3. IngestType'
      BY <2>1 DEF TInv, IngestType
    <2>4. RunType' /\ MatterType'
      BY <1>2, <2>2 DEF ChangeStatus, TInv, RunType, MatterType
    <2>5. History'
      <3>1. ASSUME NEW n \in Events, n < Len(hist')
            PROVE  hist'[n] # hist'[n + 1]
        <4>1. CASE n = Len(hist)
          BY <2>1, <2>2, <4>1 DEF Events
        <4>2. CASE n < Len(hist)
          <5>1. n \in 1..Len(hist) /\ n + 1 \in 1..Len(hist)
            BY <2>1, <3>1, <4>2 DEF Events
          <5>2. QED
            BY <2>2, <4>2, <5>1 DEF TInv, History
        <4>3. QED
          BY <2>1, <2>2, <3>1, <4>1, <4>2 DEF Events
      <3>2. QED
        BY <2>1, <2>2, <3>1 DEF History, Events
    <2>6. Announced'
      <3>1. ASSUME NEW e \in Events, offered'[e] # "none" \/ queue'[e] > 0
            PROVE  e < Len(hist')
        <4>1. CASE e = Len(hist)
          BY <2>1, <2>2, <4>1 DEF Events
        <4>2. CASE e # Len(hist)
          <5>1. offered'[e] = offered[e]
            BY <2>1, <4>2 DEF TInv, IngestType
          <5>2. e < Len(hist)
            BY <2>1, <3>1, <5>1 DEF TInv, Announced
          <5>3. QED
            BY <2>1, <2>2, <5>2 DEF Events
        <4>3. QED
          BY <4>1, <4>2
      <3>2. ASSUME NEW q \in Requests, at'[q] # "idle"
            PROVE  of'[q] \in Events /\ of'[q] < Len(hist')
        <4>1. of[q] \in Events /\ of[q] < Len(hist)
          BY <2>1, <3>2 DEF TInv, Announced
        <4>2. QED
          BY <2>1, <2>2, <4>1 DEF Events
      <3>3. QED
        BY <3>1, <3>2 DEF Announced
    <2>7. QED
      BY <2>3, <2>4, <2>5, <2>6 DEF TInv
  <1>3. ASSUME NEW e \in Events, HandleEvent(e)
        PROVE  TInv'
    <2>1. e < Len(hist) /\ queue[e] \in Nat /\ queue[e] > 0
      BY <1>3 DEF HandleEvent, TInv, Announced, IngestType
    <2>2. RunType'
      BY <1>3, <2>1, EventChangeType, StartRunType DEF HandleEvent, TInv
    <2>3. IngestType'
      BY <1>3, <2>1 DEF HandleEvent, TInv, IngestType
    <2>4. MatterType' /\ History'
      BY <1>3 DEF HandleEvent, TInv, MatterType, History
    <2>5. \A x \in Events : queue'[x] > 0 => queue[x] > 0
      BY <1>3, <2>1 DEF HandleEvent, TInv, IngestType
    <2>6. Announced'
      BY <1>3, <2>5 DEF HandleEvent, TInv, Announced
    <2>7. QED
      BY <2>2, <2>3, <2>4, <2>6 DEF TInv
  <1>4. CASE SweepStart
    <2>1. RunType'
      BY <1>4, SweepChangeType, StartRunType DEF SweepStart, TInv
    <2>2. MatterType'
      BY <1>4 DEF SweepStart, CountSweep, TInv, MatterType
    <2>3. QED
      BY <1>1, <1>4, <2>1, <2>2, QuietType DEF SweepStart, TInv
  <1>5. CASE SweepRead
    <2>1. Current \in Statuses
      BY DEF Current, TInv, MatterType, History
    <2>2. MatterType' /\ RunType'
      BY <1>5, <2>1 DEF SweepRead, TInv, MatterType, RunType
    <2>3. QED
      BY <1>1, <1>5, <2>2, QuietType DEF SweepRead, TInv
  <1>6. CASE SweepNothing \/ SweepSkip \/ SweepRecord \/ SweepFails
    <2>1. UNCHANGED <<ingest, hist, sealed, run, mailed, answered>> /\ faults' \in 0..MaxFaults
      BY <1>1, <1>6 DEF SweepNothing, SweepSkip, SweepRecord, SweepFails
    <2>2. Idle \in [at : {"idle", "compare", "record"}, status : Statuses]
      BY DEF Idle
    <2>3. sweep' = Idle /\ counter' \in Nat /\ last' \in Statuses \cup {NoStatus}
      BY <1>6 DEF SweepNothing, SweepSkip, SweepRecord, SweepFails, CountSweep, TInv, MatterType
    <2>4. MatterType' /\ RunType'
      BY <2>1, <2>2, <2>3 DEF TInv, MatterType, RunType
    <2>5. QED
      BY <2>1, <2>4, QuietType DEF TInv
  <1>7. ASSUME NEW c \in DOMAIN run,
               Execute(c) \/ Approve(c) \/ Reject(c) \/ SendFails(c)
        PROVE  TInv'
    <2>1. PICK old, new \in Stage : Advance(c, old, new)
      BY <1>7 DEF Execute, Approve, Reject, SendFails, ComputeDelta, SendEmail,
                  RecordOutcome, Stage
    <2>2. DOMAIN run' \subseteq ChangeIds /\ run' \in [DOMAIN run' -> Stage]
      BY <2>1, AdvanceType DEF TInv
    <2>3. c \in ChangeIds /\ c.to \in Statuses
      BY DEF TInv, RunType, ChangeIds
    <2>4. /\ sealed' \subseteq sealed \cup {c} /\ mailed' \subseteq mailed \cup {c}
          /\ answered' \subseteq answered \cup {c}
      BY <1>7 DEF Execute, Approve, Reject, SendFails, ComputeDelta, SendEmail,
                  RecordOutcome
    <2>5. RunType'
      BY <2>2, <2>3, <2>4 DEF TInv, RunType
    <2>6. /\ UNCHANGED <<ingest, hist, counter, sweep>>
          /\ last' \in {last, c.to} /\ faults' \in 0..MaxFaults
      BY <1>1, <1>7 DEF Execute, Approve, Reject, SendFails, ComputeDelta,
                        SendEmail, RecordOutcome
    <2>7. MatterType'
      BY <2>3, <2>6 DEF TInv, MatterType
    <2>8. QED
      BY <2>5, <2>6, <2>7, QuietType DEF TInv
  <1>8. CASE Restart
    <2>1. IngestType'
      BY <1>1, <1>8 DEF Restart, TInv, IngestType
    <2>2. RunType' /\ MatterType' /\ History'
      BY <1>8 DEF Restart, Idle, TInv, RunType, MatterType, History
    <2>3. Announced'
      BY <1>8 DEF Restart, TInv, Announced
    <2>4. QED
      BY <2>1, <2>2, <2>3 DEF TInv
  <1>9. CASE UNCHANGED vars
    <2>1. RunType' /\ MatterType'
      BY <1>9 DEF vars, notices, TInv, RunType, MatterType
    <2>2. QED
      BY <1>1, <1>9, <2>1, QuietType DEF vars, notices, TInv
  <1>10. QED
    BY <1>2, <1>3, <1>4, <1>5, <1>6, <1>7, <1>8, <1>9, IngestKeepsType
       DEF Next, Sweep

(* Every variable keeps its type (pipeline.py, workflow.py, store.py).  In *)
(* particular every run, seal and email is about a change between two      *)
(* different statuses, and an event in the sink announces a change that    *)
(* the case system really made.                                            *)
THEOREM TypeCorrect == Spec => []TypeOK
  <1>1. QED
    BY InitType, NextType, TypeParts, PTL DEF Spec

-----------------------------------------------------------------------------
(* A run that an event started is about the change the event announced:    *)
(* the case system made it, whatever duplicates and failures came between. *)
Genuine ==
    \A c \in DOMAIN run : \A e \in Events :
        c.by = <<"event", e>> => e < Len(hist) /\ c = EventChange(e)

(* What was announced stays announced when the history grows. *)
LEMMA GenuineStays ==
    ASSUME TInv, NEW c, NEW e \in Events, e < Len(hist), c = EventChange(e),
           hist' = hist \/ \E s \in Statuses : hist' = Append(hist, s)
    PROVE  e < Len(hist') /\ c = EventChange(e)'
  <1>1. e \in 1..Len(hist) /\ e + 1 \in 1..Len(hist) /\ hist \in Seq(Statuses)
    BY DEF TInv, History, MatterType, Events
  <1>2. CASE hist' = hist
    BY <1>2 DEF EventChange
  <1>3. ASSUME NEW s \in Statuses, hist' = Append(hist, s)
        PROVE  e < Len(hist') /\ hist'[e] = hist[e] /\ hist'[e + 1] = hist[e + 1]
    BY <1>1, <1>3
  <1>4. QED
    BY <1>2, <1>3 DEF EventChange

(* Every step keeps the runs genuine: only the consumer of the sink starts *)
(* a run of an event, and the sweep's discriminators are its own.          *)
LEMMA NextGenuine == TInv /\ Genuine /\ [Next]_vars => Genuine'
  <1> SUFFICES ASSUME TInv, Genuine, [Next]_vars,
                      NEW c \in DOMAIN run', NEW e \in Events, c.by = <<"event", e>>
               PROVE  e < Len(hist') /\ c = EventChange(e)'
    BY DEF Genuine
  <1>1. hist' = hist \/ \E s \in Statuses : hist' = Append(hist, s)
    <2>1. CASE \E s \in Statuses : ChangeStatus(s)
      BY <2>1 DEF ChangeStatus
    <2>2. CASE \E d \in DOMAIN run : Execute(d) \/ Approve(d) \/ Reject(d) \/ SendFails(d)
      BY <2>2 DEF Execute, Approve, Reject, SendFails, ComputeDelta, SendEmail,
                  RecordOutcome
    <2>3. CASE Sweep \/ SweepFails \/ Restart
      BY <2>3 DEF Sweep, SweepRead, SweepNothing, SweepSkip, SweepStart,
                  SweepRecord, SweepFails, Restart
    <2>4. CASE \E x \in Events : HandleEvent(x)
      BY <2>4 DEF HandleEvent
    <2>5. CASE UNCHANGED notices \/ UNCHANGED vars
      BY <2>5 DEF notices, vars
    <2>6. QED
      BY <2>1, <2>2, <2>3, <2>4, <2>5 DEF Next
  <1>2. CASE c \in DOMAIN run
    BY <1>1, <1>2, GenuineStays DEF Genuine
  <1>3. CASE c \notin DOMAIN run
    <2>1. ASSUME NEW d, run' = StartRun(d)
          PROVE  c = d
      BY <1>3, <2>1 DEF StartRun, Queued
    <2>2. ASSUME NEW x \in Events, HandleEvent(x)
          PROVE  e < Len(hist') /\ c = EventChange(e)'
      <3>1. c = EventChange(x) /\ x < Len(hist)
        BY <2>1, <2>2 DEF HandleEvent, TInv, Announced
      <3>2. x = e
        BY <3>1 DEF EventChange
      <3>3. QED
        BY <1>1, <3>1, <3>2, GenuineStays
    <2>3. CASE SweepStart
      <3>1. c = SweepChange(counter + 1)
        BY <2>1, <2>3 DEF SweepStart
      <3>2. QED
        BY <3>1 DEF SweepChange
    <2>4. ASSUME NEW d \in DOMAIN run,
                 Execute(d) \/ Approve(d) \/ Reject(d) \/ SendFails(d)
          PROVE  DOMAIN run' = DOMAIN run
      <3>1. PICK old, new : Advance(d, old, new)
        BY <2>4 DEF Execute, Approve, Reject, SendFails, ComputeDelta, SendEmail,
                    RecordOutcome
      <3>2. QED
        BY <3>1, AdvanceEffect
    <2>5. CASE SweepRead \/ SweepNothing \/ SweepSkip \/ SweepRecord \/ SweepFails \/ Restart
      BY <1>3, <2>5 DEF SweepRead, SweepNothing, SweepSkip, SweepRecord, SweepFails, Restart
    <2>6. CASE UNCHANGED notices \/ UNCHANGED vars \/ \E s \in Statuses : ChangeStatus(s)
      BY <1>3, <2>6 DEF notices, vars, ChangeStatus
    <2>7. QED
      BY <1>3, <2>2, <2>3, <2>4, <2>5, <2>6 DEF Next, Sweep
  <1>4. QED
    BY <1>2, <1>3

(* A notice that a webhook started is about a change that really happened, *)
(* from the status and to the status it names: neither the pipeline nor    *)
(* handle_status_change_event makes one up, and the discriminators of      *)
(* change_id keep the sweep's ids apart from the events'.                  *)
THEOREM NoticesGenuine == Spec => []Genuine
  <1>1. Init => Genuine
    BY DEF Init, Genuine
  <1>2. QED
    BY <1>1, InitType, NextType, NextGenuine, PTL DEF Spec

-----------------------------------------------------------------------------
(* Acknowledged events *)

(* An acknowledged event has its key; an event with a key has reached the  *)
(* sink, or failed on the way, or is on the way; and only an event with a  *)
(* key is on the way.                                                      *)
AckedKeyed == \A e \in Events : offered[e] = "acked" => e \in processed
KeyedKept == \A e \in processed : e \in enqueued \cup stranded \/ BeforeSink(e)
InFlightKeyed ==
    \A q \in Requests : at[q] = "enqueue" => of[q] \in processed

Kept == AckedKeyed /\ KeyedKept /\ InFlightKeyed

(* What an answer leaves: the other requests, and the event answered for   *)
(* if it has its key (ingest_webhook).                                     *)
LEMMA AnswerKeeps ==
    ASSUME TInv, Kept, NEW q \in Requests, at[q] # "idle", NEW b \in BOOLEAN,
           Answer(q, b), b => of[q] \in processed,
           processed' \in {processed, processed \cup {of[q]}},
           enqueued \subseteq enqueued', stranded \subseteq stranded',
           at[q] = "enqueue" \/ processed' # processed
               => of[q] \in enqueued' \cup stranded'
    PROVE  Kept'
  <1>1. of[q] \in Events
    BY DEF TInv, Announced
  <1>2. \A r \in Requests : r # q => at'[r] = at[r] /\ of'[r] = of[r]
    BY DEF TInv, IngestType, Answer
  <1>3. at'[q] = "idle"
    BY DEF TInv, IngestType, Answer
  <1>4. AckedKeyed'
    BY <1>1 DEF Kept, AckedKeyed, TInv, IngestType, Answer
  <1>5. ASSUME NEW e \in processed'
        PROVE  e \in enqueued' \cup stranded' \/ BeforeSink(e)'
    <2>1. CASE e \in processed /\ BeforeSink(e)
      <3>1. PICK r \in Requests : at[r] = "enqueue" /\ of[r] = e
        BY <2>1 DEF BeforeSink
      <3>2. QED
        BY <1>2, <3>1 DEF BeforeSink
    <2>2. CASE e \in processed /\ ~BeforeSink(e)
      BY <2>2 DEF Kept, KeyedKept
    <2>3. CASE e \notin processed
      BY <1>5, <2>3
    <2>4. QED
      BY <2>1, <2>2, <2>3
  <1>6. InFlightKeyed'
    BY <1>2, <1>3 DEF Kept, InFlightKeyed
  <1>7. QED
    BY <1>4, <1>5, <1>6 DEF Kept, KeyedKept

(* A request that moves on short of the sink. *)
LEMMA MoveKeeps ==
    ASSUME TInv, Kept, NEW q \in Requests, NEW l, NEW e \in Events,
           at' = [at EXCEPT ![q] = l], of' = [of EXCEPT ![q] = e],
           at[q] # "enqueue",
           UNCHANGED <<offered, enqueued, stranded>>,
           processed' \in {processed, processed \cup {e}},
           l = "enqueue" => e \in processed',
           processed' # processed => l = "enqueue"
    PROVE  Kept'
  <1>1. \A r \in Requests : r # q => at'[r] = at[r] /\ of'[r] = of[r]
    BY DEF TInv, IngestType
  <1>2. at'[q] = l /\ of'[q] = e
    BY DEF TInv, IngestType
  <1>3. \A x : BeforeSink(x) => BeforeSink(x)'
    BY <1>1 DEF BeforeSink
  <1>4. l = "enqueue" => BeforeSink(e)'
    BY <1>2 DEF BeforeSink
  <1>5. KeyedKept'
    BY <1>3, <1>4 DEF Kept, KeyedKept
  <1>6. AckedKeyed' /\ InFlightKeyed'
    BY <1>1, <1>2 DEF Kept, AckedKeyed, InFlightKeyed
  <1>7. QED
    BY <1>5, <1>6 DEF Kept

(* Every step of process_webhook keeps what was acknowledged. *)
LEMMA IngestKeeps ==
    ASSUME TInv, Kept, IngestNext
    PROVE  Kept'
  <1>1. ASSUME NEW q \in Requests, NEW e \in Events, Deliver(q, e) \/ DeliverAgain(q, e)
        PROVE  Kept'
    BY <1>1, MoveKeeps DEF Deliver, DeliverAgain, Begin
  <1>2. ASSUME NEW q \in Requests, CheckDuplicate(q)
        PROVE  Kept'
    <2>1. at[q] = "lookup" /\ UNCHANGED <<processed, enqueued, stranded>>
      BY <1>2 DEF CheckDuplicate
    <2>2. CASE of[q] \in processed /\ Answer(q, TRUE)
      BY <2>1, <2>2, AnswerKeeps
    <2>3. CASE at' = [at EXCEPT ![q] = "mark"] /\ UNCHANGED <<of, offered>>
      <3>1. \A r \in Requests : at'[r] = "enqueue" <=> at[r] = "enqueue"
        BY <2>1, <2>3 DEF TInv, IngestType
      <3>2. QED
        BY <2>1, <2>3, <3>1
           DEF Kept, AckedKeyed, KeyedKept, InFlightKeyed, BeforeSink
    <2>4. QED
      BY <1>2, <2>2, <2>3 DEF CheckDuplicate
  <1>3. ASSUME NEW q \in Requests, MarkProcessed(q)
        PROVE  Kept'
    <2>1. of[q] \in Events
      BY <1>3 DEF MarkProcessed, TInv, Announced
    <2>2. of' = [of EXCEPT ![q] = of[q]]
      BY <1>3 DEF MarkProcessed, TInv, IngestType
    <2>3. QED
      BY <1>3, <2>1, <2>2, MoveKeeps DEF MarkProcessed
  <1>4. ASSUME NEW q \in Requests, Enqueue(q)
        PROVE  Kept'
    BY <1>4, AnswerKeeps DEF Enqueue, Kept, InFlightKeyed
  <1>5. ASSUME NEW q \in Requests, RedisFails(q) \/ EnqueueFails(q)
        PROVE  Kept'
    BY <1>5, AnswerKeeps DEF RedisFails, EnqueueFails
  <1>6. QED
    BY <1>1, <1>2, <1>3, <1>4, <1>5 DEF IngestNext, Serve

(* Every other step does: only a restart drops requests. *)
LEMMA NextKeeps == TInv /\ Kept /\ [Next]_vars => Kept'
  <1> SUFFICES ASSUME TInv, Kept, [Next]_vars PROVE Kept'
    OBVIOUS
  <1>1. CASE UNCHANGED <<offered, at, of, processed, enqueued, stranded>>
    BY <1>1 DEF Kept, AckedKeyed, KeyedKept, InFlightKeyed, BeforeSink
  <1>2. ASSUME NEW s \in Statuses, ChangeStatus(s)
        PROVE  Kept'
    <2>1. /\ offered' = [offered EXCEPT ![Len(hist)] = "pending"]
          /\ UNCHANGED <<at, of, processed, enqueued, stranded>>
      BY <1>2 DEF ChangeStatus
    <2>2. \A e \in Events : offered'[e] = "acked" => offered[e] = "acked"
      BY <2>1 DEF TInv, IngestType
    <2>3. QED
      BY <2>1, <2>2 DEF Kept, AckedKeyed, KeyedKept, InFlightKeyed, BeforeSink
  <1>3. CASE Restart
    <2>1. /\ at' = [q \in Requests |-> "idle"]
          /\ stranded' = stranded \cup {e \in Events : BeforeSink(e)}
          /\ UNCHANGED <<offered, processed, enqueued>>
      BY <1>3 DEF Restart
    <2>2. processed \subseteq Events
      BY DEF TInv, IngestType
    <2>3. QED
      BY <2>1, <2>2 DEF Kept, AckedKeyed, KeyedKept, InFlightKeyed
  <1>4. ASSUME NEW c \in DOMAIN run,
               Execute(c) \/ Approve(c) \/ Reject(c) \/ SendFails(c)
        PROVE  Kept'
    BY <1>1, <1>4 DEF Execute, Approve, Reject, SendFails, ComputeDelta,
                      SendEmail, RecordOutcome, ingest
  <1>5. CASE Sweep \/ SweepFails
    BY <1>1, <1>5 DEF Sweep, SweepRead, SweepNothing, SweepSkip, SweepStart,
                      SweepRecord, SweepFails, ingest
  <1>6. ASSUME NEW e \in Events, HandleEvent(e)
        PROVE  Kept'
    BY <1>1, <1>6 DEF HandleEvent
  <1>7. CASE UNCHANGED vars
    BY <1>1, <1>7 DEF vars, ingest
  <1>8. QED
    BY <1>2, <1>3, <1>4, <1>5, <1>6, <1>7, IngestKeeps DEF Next

(* An acknowledged event is lost only when its delivery failed between the *)
(* dedup key and the sink (process_webhook), for any number of requests,   *)
(* events and faults.                                                      *)
THEOREM AckSafety == Spec => []AckedReachSink
  <1>1. Init => Kept
    BY DEF Init, IngestInit, Kept, AckedKeyed, KeyedKept, InFlightKeyed
  <1>2. TInv /\ Kept => AckedReachSink
    BY DEF Kept, AckedKeyed, KeyedKept, AckedReachSink
  <1>3. QED
    BY <1>1, <1>2, InitType, NextType, NextKeeps, PTL DEF Spec
=============================================================================
