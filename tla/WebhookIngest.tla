--------------------------- MODULE WebhookIngest ----------------------------
(***************************************************************************)
(* The webhook endpoint: a provider delivers its events, again and again   *)
(* until one delivery is answered with a 2xx, and process_webhook          *)
(* (pipeline.py) checks the dedup key in Redis, sets it and hands the      *)
(* event to the trigger sink.  One action per await; requests interleave.  *)
(* A request whose size, signature or type is refused touches nothing and  *)
(* is left out.                                                            *)
(***************************************************************************)
EXTENDS Integers

CONSTANTS
    Requests,       \* requests the endpoint serves at a time
    MaxEvents,      \* bound: events of the provider
    FaultKinds,     \* the faults a run of the model admits
    MaxFaults       \* bound: faults in one behaviour

Events == 1..MaxEvents

ASSUME IngestAssumption ==
    /\ MaxEvents \in Nat
    /\ MaxFaults \in Nat

VARIABLES
    offered,    \* the provider's side: none, pending, acked
    at,         \* where each request is
    of,         \* the event each request carries
    processed,  \* events whose dedup key is set in Redis
    queue,      \* copies of each event waiting in the trigger sink
    enqueued,   \* history: events the sink was given
    stranded,   \* history: events that failed between their key and the sink
    faults      \* faults so far

ingest == <<offered, at, of, processed, queue, enqueued, stranded>>

IngestInit ==
    /\ offered = [e \in Events |-> "none"]
    /\ at = [q \in Requests |-> "idle"]
    /\ of = [q \in Requests |-> 0]
    /\ processed = {}
    /\ queue = [e \in Events |-> 0]
    /\ enqueued = {}
    /\ stranded = {}
    /\ faults = 0

Fault(kind) ==
    /\ kind \in FaultKinds
    /\ faults < MaxFaults
    /\ faults' = faults + 1

Serving(e) == \E q \in Requests : of[q] = e

(* A request has set the event's key and has yet to enqueue it. *)
BeforeSink(e) == \E q \in Requests : at[q] = "enqueue" /\ of[q] = e

(* Requests are alike: the next one is any that is idle. *)
Begin(q, e) ==
    /\ at[q] = "idle"
    /\ q = CHOOSE r \in Requests : at[r] = "idle"
    /\ at' = [at EXCEPT ![q] = "lookup"]
    /\ of' = [of EXCEPT ![q] = e]

(* The answer: status 2xx acknowledges the event, 503 and silence do not. *)
Answer(q, accepted) ==
    /\ at' = [at EXCEPT ![q] = "idle"]
    /\ of' = [of EXCEPT ![q] = 0]
    /\ offered' = IF accepted THEN [offered EXCEPT ![of[q]] = "acked"]
                              ELSE offered

(* The provider delivers an event it has no answer for ... *)
Deliver(q, e) ==
    /\ offered[e] = "pending"
    /\ ~Serving(e)
    /\ Begin(q, e)
    /\ UNCHANGED <<offered, processed, queue, enqueued, stranded, faults>>

(* ... or delivers it once more, early or although it was answered. *)
DeliverAgain(q, e) ==
    /\ offered[e] # "none"
    /\ offered[e] = "acked" \/ Serving(e)
    /\ Fault("duplicate")
    /\ Begin(q, e)
    /\ UNCHANGED <<offered, processed, queue, enqueued, stranded>>

(* is_duplicate *)
CheckDuplicate(q) ==
    /\ at[q] = "lookup"
    /\ IF of[q] \in processed
         THEN Answer(q, TRUE)
         ELSE at' = [at EXCEPT ![q] = "mark"] /\ UNCHANGED <<of, offered>>
    /\ UNCHANGED <<processed, queue, enqueued, stranded, faults>>

(* mark_processed, before the event is enqueued *)
MarkProcessed(q) ==
    /\ at[q] = "mark"
    /\ processed' = processed \cup {of[q]}
    /\ at' = [at EXCEPT ![q] = "enqueue"]
    /\ UNCHANGED <<offered, of, queue, enqueued, stranded, faults>>

Enqueue(q) ==
    /\ at[q] = "enqueue"
    /\ queue' = [queue EXCEPT ![of[q]] = @ + 1]
    /\ enqueued' = enqueued \cup {of[q]}
    /\ Answer(q, TRUE)
    /\ UNCHANGED <<processed, stranded, faults>>

(* Mutant: Redis is down and the pipeline fails open. *)
RedisFailsOpen(q) ==
    /\ at[q] \in {"lookup", "mark"}
    /\ Fault("redis")
    /\ Answer(q, TRUE)
    /\ UNCHANGED <<processed, queue, enqueued, stranded>>

(* A Redis call raises: 503, the pipeline fails closed.  The SET may have  *)
(* been carried out all the same.                                          *)
RedisFails(q) ==
    /\ \/ at[q] \in {"lookup", "mark"} /\ UNCHANGED <<processed, stranded>>
       \/ /\ at[q] = "mark"
          /\ processed' = processed \cup {of[q]}
          /\ stranded' = stranded \cup {of[q]}
    /\ Fault("redis")
    /\ Answer(q, FALSE)
    /\ UNCHANGED <<queue, enqueued>>

(* The trigger sink raises: 503, and the key stays. *)
EnqueueFails(q) ==
    /\ at[q] = "enqueue"
    /\ Fault("enqueue")
    /\ stranded' = stranded \cup {of[q]}
    /\ Answer(q, FALSE)
    /\ UNCHANGED <<processed, queue, enqueued>>

Serve(q) == CheckDuplicate(q) \/ MarkProcessed(q) \/ Enqueue(q)

IngestNext ==
    \E q \in Requests :
        \/ \E e \in Events : Deliver(q, e) \/ DeliverAgain(q, e)
        \/ Serve(q)
        \/ RedisFails(q)
        \/ EnqueueFails(q)

=============================================================================
