---------------------------- MODULE StatusUpdate ----------------------------
(***************************************************************************)
(* Notices to the client when the status of a matter changes: the case     *)
(* system changes it and announces the change by webhook (WebhookIngest),  *)
(* the event and the sweep start runs of status_update_email, and each run *)
(* computes, drafts, waits for its gate, sends and seals (workflow.py,     *)
(* store.py, change_id.py, triggers.py).  One matter; the steps of a run   *)
(* are executed once and in order, which is what Orchestrator is about.    *)
(***************************************************************************)
EXTENDS WebhookIngest, Sequences, FiniteSets

CONSTANTS
    Statuses,       \* statuses of the matter
    AllowList,      \* trigger_allow_list
    First,          \* status when the matter is first known
    NoStatus,       \* no last-known status
    MaxIdle,        \* bound: counted sweeps that find a status not listed
    MaxSweeps,      \* bound: transitions the sweep counts
    MaxDecisions    \* bound: runs whose gate is decided

ASSUME StatusAssumption ==
    /\ AllowList \subseteq Statuses
    /\ First \in Statuses
    /\ NoStatus \notin Statuses
    /\ MaxIdle \in Nat
    /\ MaxSweeps \in Nat
    /\ MaxDecisions \in Nat

(* change_id: a hash, taken to be injective, of the two statuses and a     *)
(* discriminator.  sweep_matters hands the id of the sweep to              *)
(* handle_status_change_event as the event id, which hashes it again.      *)
Discriminators == ({"event"} \X Events) \cup ({"sweep"} \X (1..MaxSweeps))
ChangeIds == {c \in [from : Statuses, to : Statuses, by : Discriminators] :
                  c.from # c.to}

(* Where a run is.  From "computed" on it waits for its gate; "unsent" is  *)
(* an approved run whose email has no recipient or failed the check, an    *)
(* ended run is COMPLETED, parked or rejected.                             *)
Stage == {"queued", "computed", "approved", "sent", "unsent", "ended"}

VARIABLES
    hist,       \* the statuses of the matter in the case system
    last,       \* last-known status (in memory)
    counter,    \* transition counter of the sweep (in memory)
    sealed,     \* delivered change ids (in memory)
    run,        \* the runs: change id -> stage (Postgres)
    mailed,     \* history: change ids whose email was sent
    answered,   \* history: change ids whose email.send returned to its run
    sweep       \* the sweep: its place and the status it read

notices == <<hist, last, counter, sealed, run, mailed, answered, sweep>>
vars == <<ingest, notices, faults>>

Current == hist[Len(hist)]
Idle == [at |-> "idle", status |-> First]
EventChange(e) == [from |-> hist[e], to |-> hist[e + 1], by |-> <<"event", e>>]
SweepChange(n) == [from |-> last, to |-> sweep.status, by |-> <<"sweep", n>>]

Init ==
    /\ IngestInit
    /\ hist = <<First>>
    /\ last = First
    /\ counter = 0
    /\ sealed = {}
    /\ run = [c \in {} |-> "queued"]
    /\ mailed = {}
    /\ answered = {}
    /\ sweep = Idle

-----------------------------------------------------------------------------
(* Triggers *)

(* The case system: event n announces the n-th change. *)
ChangeStatus(s) ==
    /\ Len(hist) <= MaxEvents
    /\ s # Current
    /\ hist' = Append(hist, s)
    /\ offered' = [offered EXCEPT ![Len(hist)] = "pending"]
    /\ UNCHANGED <<at, of, processed, queue, enqueued, stranded, last, counter,
                   sealed, run, mailed, answered, sweep, faults>>

Queued(c) ==
    [x \in DOMAIN run \cup {c} |-> IF x = c THEN "queued" ELSE run[x]]

(* Mutant: create_run makes a new run although the dedupe key exists. *)
StartRunAnew(c) ==
    IF c \notin sealed /\ c.to \in AllowList THEN Queued(c) ELSE run

(* handle_status_change_event: the allow-list, the seal, then start_run,   *)
(* which finds the run of a dedupe key that exists.                        *)
StartRun(c) ==
    IF c \notin sealed /\ c.to \in AllowList /\ c \notin DOMAIN run
      THEN Queued(c)
      ELSE run

(* Mutant: an event is taken that does not wait in the sink. *)
HandleAnyEvent(e) ==
    /\ Len(hist) > e
    /\ queue' = [queue EXCEPT ![e] = @ - 1]
    /\ run' = StartRun(EventChange(e))
    /\ UNCHANGED <<offered, at, of, processed, enqueued, stranded, hist, last,
                   counter, sealed, mailed, answered, sweep, faults>>

(* The consumer of the trigger sink takes an event.  Nothing makes one     *)
(* take it: main.py wires a sink that logs.                                *)
HandleEvent(e) ==
    /\ queue[e] > 0
    /\ queue' = [queue EXCEPT ![e] = @ - 1]
    /\ run' = StartRun(EventChange(e))
    /\ UNCHANGED <<offered, at, of, processed, enqueued, stranded, hist, last,
                   counter, sealed, mailed, answered, sweep, faults>>

(* sweep_matters: get_matter ... *)
SweepRead ==
    /\ sweep.at = "idle"
    /\ sweep' = [at |-> "compare", status |-> Current]
    /\ UNCHANGED <<ingest, hist, last, counter, sealed, run, mailed, answered,
                   faults>>

(* ... no baseline or no difference ... *)
SweepNothing ==
    /\ sweep.at = "compare"
    /\ last \in {NoStatus, sweep.status}
    /\ sweep' = Idle
    /\ UNCHANGED <<ingest, hist, last, counter, sealed, run, mailed, answered,
                   faults>>

Differs ==
    /\ sweep.at = "compare"
    /\ last \notin {NoStatus, sweep.status}

(* ... a status that is not on the list, which leaves the baseline (the   *)
(* sweeps past the bound are not counted) ...                              *)
SweepSkip ==
    /\ Differs
    /\ sweep.status \notin AllowList
    /\ counter' = IF counter < MaxIdle THEN counter + 1 ELSE counter
    /\ sweep' = Idle
    /\ UNCHANGED <<ingest, hist, last, sealed, run, mailed, answered, faults>>

CountSweep ==
    /\ counter < MaxSweeps
    /\ counter' = counter + 1

(* ... or a run, and the new baseline when start_run has returned ... *)
SweepStart ==
    /\ Differs
    /\ sweep.status \in AllowList
    /\ CountSweep
    /\ run' = StartRun(SweepChange(counter + 1))
    /\ sweep' = [sweep EXCEPT !.at = "record"]
    /\ UNCHANGED <<ingest, hist, last, sealed, mailed, answered, faults>>

(* ... or start_run raises and the sweep goes on. *)
SweepFails ==
    /\ Differs
    /\ sweep.status \in AllowList
    /\ CountSweep
    /\ Fault("store")
    /\ sweep' = Idle
    /\ UNCHANGED <<ingest, hist, last, sealed, run, mailed, answered>>

SweepRecord ==
    /\ sweep.at = "record"
    /\ last' = sweep.status
    /\ sweep' = Idle
    /\ UNCHANGED <<ingest, hist, counter, sealed, run, mailed, answered,
                   faults>>

-----------------------------------------------------------------------------
(* The steps of a run *)

Advance(c, old, new) ==
    /\ run[c] = old
    /\ run' = [run EXCEPT ![c] = new]

(* detect_change and compute_delta: the status the run is about becomes    *)
(* the last-known one, however late the run is.                            *)
ComputeDelta(c) ==
    /\ Advance(c, "queued", "computed")
    /\ last' = c.to
    /\ UNCHANGED <<ingest, hist, counter, sealed, mailed, answered, sweep,
                   faults>>

Decided == {c \in DOMAIN run : run[c] \notin {"queued", "computed"}}

(* resolve_recipients, draft_email, qc_recipient_integrity and the gate    *)
(* human_review, approved: a matter without recipient and a failed check   *)
(* hold the email, not the run.                                            *)
Approve(c) ==
    /\ Cardinality(Decided) < MaxDecisions
    /\ \/ Advance(c, "computed", "approved")
       \/ Advance(c, "computed", "unsent")
    /\ UNCHANGED <<ingest, hist, last, counter, sealed, mailed, answered,
                   sweep, faults>>

(* The gate is rejected or expires: the run is over. *)
Reject(c) ==
    /\ Cardinality(Decided) < MaxDecisions
    /\ Advance(c, "computed", "ended")
    /\ UNCHANGED <<ingest, hist, last, counter, sealed, mailed, answered,
                   sweep, faults>>

SendEmail(c) ==
    /\ Advance(c, "approved", "sent")
    /\ mailed' = mailed \cup {c}
    /\ answered' = answered \cup {c}
    /\ UNCHANGED <<ingest, hist, last, counter, sealed, sweep, faults>>

(* email.send raises, the email sent or not.  The engine parks the run, or *)
(* the error is transient and the step is run again: its second send has   *)
(* the key of the first, under which the mail service sends once.          *)
SendFails(c) ==
    /\ Fault("send")
    /\ Advance(c, "approved", "ended") \/ Advance(c, "approved", "approved")
    /\ mailed' \in {mailed, mailed \cup {c}}
    /\ UNCHANGED <<ingest, hist, last, counter, sealed, answered, sweep>>

(* Mutant: every outcome is sealed. *)
RecordAnyOutcome(c) ==
    /\ \/ Advance(c, "sent", "ended")
       \/ Advance(c, "unsent", "ended")
    /\ sealed' = sealed \cup {c}
    /\ UNCHANGED <<ingest, hist, last, counter, mailed, answered, sweep,
                   faults>>

(* record_outcome: only an email that was sent is sealed. *)
RecordOutcome(c) ==
    /\ \/ Advance(c, "sent", "ended") /\ sealed' = sealed \cup {c}
       \/ Advance(c, "unsent", "ended") /\ sealed' = sealed
    /\ UNCHANGED <<ingest, hist, last, counter, mailed, answered, sweep,
                   faults>>

(* The process starts again: runs are stored, the status store is not.     *)
(* Requests under way get no answer.                                       *)
Restart ==
    /\ Fault("restart")
    /\ last' = NoStatus
    /\ counter' = 0
    /\ sealed' = {}
    /\ sweep' = Idle
    /\ at' = [q \in Requests |-> "idle"]
    /\ of' = [q \in Requests |-> 0]
    /\ stranded' = stranded \cup {e \in Events : BeforeSink(e)}
    /\ UNCHANGED <<offered, processed, queue, enqueued, hist, run, mailed,
                   answered>>

-----------------------------------------------------------------------------
Sweep == SweepRead \/ SweepNothing \/ SweepSkip \/ SweepStart \/ SweepRecord

Execute(c) == ComputeDelta(c) \/ SendEmail(c) \/ RecordOutcome(c)

Next ==
    \/ IngestNext /\ UNCHANGED notices
    \/ \E s \in Statuses : ChangeStatus(s)
    \/ \E e \in Events : HandleEvent(e)
    \/ Sweep
    \/ SweepFails
    \/ \E c \in DOMAIN run :
           Execute(c) \/ Approve(c) \/ Reject(c) \/ SendFails(c)
    \/ Restart

Spec == Init /\ [][Next]_vars

-----------------------------------------------------------------------------
(* Properties *)

(* Every variable holds a value of its kind. *)
TypeOK ==
    /\ offered \in [Events -> {"none", "pending", "acked"}]
    /\ at \in [Requests -> {"idle", "lookup", "mark", "enqueue"}]
    /\ of \in [Requests -> 0..MaxEvents]
    /\ processed \subseteq Events
    /\ queue \in [Events -> Nat]
    /\ enqueued \subseteq Events
    /\ stranded \subseteq Events
    /\ faults \in 0..MaxFaults
    /\ hist \in Seq(Statuses)
    /\ last \in Statuses \cup {NoStatus}
    /\ counter \in Nat
    /\ sealed \subseteq ChangeIds
    /\ DOMAIN run \subseteq ChangeIds
    /\ run \in [DOMAIN run -> Stage]
    /\ mailed \subseteq ChangeIds
    /\ answered \subseteq ChangeIds
    /\ sweep \in [at : {"idle", "compare", "record"}, status : Statuses]

(* Once its send was answered a change id is not sent again, although      *)
(* deliveries of its event race past the dedup key, the event is handled   *)
(* twice and the seal is lost in a restart (create_run's dedupe key).  A   *)
(* send without an answer may be repeated, under the same email key.       *)
MailedOnce ==
    [][\A c \in DOMAIN run :
          run[c] = "approved" /\ run'[c] = "sent" => c \notin answered]_vars

(* The seal of a change id stands for an email that was sent               *)
(* (record_outcome): it never suppresses a notice nobody got.              *)
SealHonest == sealed \subseteq mailed

(* An event the provider was told is taken (a 2xx of ingest_webhook) was   *)
(* given to the sink, or a request is about to give it, or its delivery    *)
(* failed between the key and the sink: a duplicate that races, a lookup   *)
(* or a mark that Redis refused loses nothing (process_webhook).           *)
AckedReachSink ==
    \A e \in Events :
        offered[e] = "acked" => e \in enqueued \cup stranded \/ BeforeSink(e)
=============================================================================
