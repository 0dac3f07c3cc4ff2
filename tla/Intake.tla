------------------------------- MODULE Intake -------------------------------
(***************************************************************************)
(* Client intake (core/workflows/intake): intake.run finds or starts a run *)
(* for a lead, and the steps of several runs interleave on one CRM, one    *)
(* case system and one mailbox (connectors/reference).  A connector call   *)
(* may fail before its effect, lose its answer after the effect, or fail   *)
(* for good; the engine repeats a step after a transient error until its   *)
(* attempts are used up, and parks the run otherwise.                      *)
(*                                                                         *)
(* parse_lead calls the extraction with structuring off, so the proposal   *)
(* has no fields: the fields are those of the lead.  open_tasks computes   *)
(* task ids and stores nothing.                                            *)
(***************************************************************************)
EXTENDS Integers, Sequences, FiniteSets

CONSTANTS
    Leads,          \* deliveries of leads
    Payloads,       \* leads: idempotency key, name, email, anum, ctype, valid
    Known,          \* contacts of the CRM before the first lead (a sequence)
    Contains,       \* pairs <<q, s>> of strings: q occurs in s (besides q = s)
    RequiredFields, \* per case type: the required fields
    DeadlineRules,  \* per case type: the deadline rule ids (a sequence)
    RegisteredRules,\* rules the RuleStore knows
    DefaultType,    \* IntakeConfig.default_case_type
    MaxAttempts,    \* engine: attempts per step
    MaxFaults       \* bound: failing connector calls

ASSUME IntakeAssumption ==
    /\ Known \in Seq([name : STRING, email : STRING, anum : STRING, run : STRING])
    /\ \A i \in DOMAIN Known : Known[i].run \notin Leads
    /\ \A t \in DOMAIN DeadlineRules : DeadlineRules[t] \in Seq(STRING)
    /\ DOMAIN RequiredFields \cup {DefaultType} \subseteq DOMAIN DeadlineRules

VARIABLES
    contacts,   \* CRM: sequence of contacts, the id is the index
    matters,    \* case system: sequence of [client, run]
    drafts,     \* mailbox: sequence of [to, matter, run]
    sent,       \* mailbox: idempotency keys of sent messages -> draft
    mails,      \* history: messages handed to the outside, <<run, draft>>
    deadlines,  \* DeadlineStore: idempotency keys <<run, rule>>
    started,    \* run store: idempotency key -> the lead whose run it is
    run,        \* per lead: its workflow run
    faults      \* failing connector calls so far

vars == <<contacts, matters, drafts, sent, mails, deadlines, started, run, faults>>

None == "none"
NoId == 0

NoLead == [key |-> None, name |-> None, email |-> None, anum |-> None, ctype |-> None, valid |-> FALSE]

NewRun == [pc |-> "new", lead |-> NoLead, attempt |-> 1, ctype |-> None, gaps |-> {}, found |-> {},
           searched |-> NoId, raised |-> FALSE, decision |-> None, contact |-> NoId,
           matter |-> NoId, draft |-> NoId, approved |-> FALSE]

Init ==
    /\ contacts = Known
    /\ matters = <<>>
    /\ drafts = <<>>
    /\ sent = [k \in {} |-> NoId]
    /\ mails = {}
    /\ deadlines = {}
    /\ started = [k \in {} |-> None]
    /\ run = [l \in Leads |-> NewRun]
    /\ faults = 0

connectors == <<contacts, matters, drafts, sent, mails, deadlines>>

\* The run after a step that succeeded: its output is stored, the attempt of
\* the next step is the first.
Done(r, pc) == [r EXCEPT !.pc = pc, !.attempt = 1]

\* The run after a step that raised.
Raised(r, outcome) ==
    IF outcome = "fatal" \/ r.attempt >= MaxAttempts
    THEN [r EXCEPT !.pc = "parked"]
    ELSE [r EXCEPT !.attempt = @ + 1]

\* How a connector call ends: with its effect in "ok" and "lost".
Outcomes == {"ok", "transient", "lost", "fatal"}
HasEffect(outcome) == outcome \in {"ok", "lost"}

CountFault(fails) ==
    IF fails THEN faults < MaxFaults /\ faults' = faults + 1 ELSE UNCHANGED faults

\* tool_intake_run: a lead with the key of an earlier one gets that run.
Submit(l, lead) ==
    /\ run[l].pc = "new"
    /\ LET key == lead.key
       IN  IF key \in DOMAIN started
           THEN /\ run' = [run EXCEPT ![l].pc = "located"]
                /\ UNCHANGED started
           ELSE /\ run' = [run EXCEPT ![l].pc = "parse_lead", ![l].lead = lead]
                /\ started' = [k \in DOMAIN started \cup {key} |->
                                 IF k = key THEN l ELSE started[k]]
    /\ UNCHANGED <<connectors, faults>>

\* get_case_type falls back to the default type.
CaseType(ctype) == IF ctype \in DOMAIN RequiredFields THEN ctype ELSE DefaultType

\* Required fields that are missing are blocking gaps.
MissingFields(l) ==
    {f \in RequiredFields[CaseType(run[l].lead.ctype)] : run[l].lead[f] = None}

\* parse_lead; IntakeFields raises on a malformed email or identifier.
ParseLead(l) ==
    /\ run[l].pc = "parse_lead"
    /\ run' = [run EXCEPT ![l] =
                 IF run[l].lead.valid
                 THEN Done([@ EXCEPT !.ctype = CaseType(run[l].lead.ctype),
                                     !.gaps = MissingFields(l)], "find_email")
                 ELSE Raised(@, "fatal")]
    /\ UNCHANGED <<connectors, started, faults>>

\* Mutant: the search looks at the name only.
FindContactByName(q) ==
    {i \in DOMAIN contacts : q = contacts[i].name \/ <<q, contacts[i].name>> \in Contains}

\* find_contact: the query occurs in the name or in the email.
FindContact(q) ==
    {i \in DOMAIN contacts : \E s \in {contacts[i].name, contacts[i].email} :
       s # None /\ (q = s \/ <<q, s>> \in Contains)}

\* The search by email; an error is swallowed and finds nothing.
FindByEmail(l, raises) ==
    /\ run[l].pc = "find_email"
    /\ raises => run[l].lead.email # None
    /\ run' = [run EXCEPT ![l].pc = "find_name",
                          ![l].raised = raises,
                          ![l].searched = Len(contacts),
                          ![l].found = IF raises \/ run[l].lead.email = None THEN {}
                                       ELSE FindContact(run[l].lead.email)]
    /\ CountFault(raises)
    /\ UNCHANGED <<connectors, started>>

\* Mutant: a single candidate found by name is taken.
SingleIsReused(l, candidates) ==
    IF Cardinality(candidates) = 1
    THEN [decision |-> "reuse_contact", contact |-> CHOOSE i \in candidates : TRUE]
    ELSE [decision |-> "new_contact", contact |-> NoId]

\* dedupe_contact's decision over the candidates.
Dedupe(l, candidates) ==
    LET byEmail == {i \in candidates : run[l].lead.email # None /\ contacts[i].email = run[l].lead.email}
        byAnum  == {i \in candidates : run[l].lead.anum # None /\ contacts[i].anum = run[l].lead.anum}
        exact   == IF Cardinality(byEmail) = 1 THEN byEmail ELSE byAnum
    IN  CASE candidates = {} -> [decision |-> "new_contact", contact |-> NoId]
          [] candidates # {} /\ Cardinality(exact) = 1 ->
               [decision |-> "reuse_contact", contact |-> CHOOSE i \in exact : TRUE]
          [] OTHER -> [decision |-> "ambiguous", contact |-> NoId]

\* The search by name when the first found nothing, and the decision; an
\* ambiguous result is a blocking gap.
FindByName(l, raises) ==
    /\ run[l].pc = "find_name"
    /\ raises => run[l].found = {} /\ run[l].lead.name # None
    /\ LET candidates == IF run[l].found # {} THEN run[l].found
                         ELSE IF raises \/ run[l].lead.name = None THEN {}
                         ELSE FindContact(run[l].lead.name)
           d == Dedupe(l, candidates)
       IN  run' = [run EXCEPT ![l] =
                     Done([@ EXCEPT !.found = {}, !.decision = d.decision, !.contact = d.contact,
                                    !.gaps = run[l].gaps \cup (IF d.decision = "ambiguous" THEN {"contact_id"} ELSE {})],
                          "create_contact")]
    /\ CountFault(raises)
    /\ UNCHANGED <<connectors, started>>

\* create_contact: nothing for a reused contact, otherwise upsert under a new id.
CreateContact(l, outcome) ==
    /\ run[l].pc = "create_contact"
    /\ \/ /\ run[l].decision = "reuse_contact" /\ outcome = "ok"
          /\ run' = [run EXCEPT ![l] = Done(@, "create_matter")]
          /\ UNCHANGED contacts
       \/ /\ run[l].decision # "reuse_contact"
          /\ contacts' = IF HasEffect(outcome)
                         THEN Append(contacts, [name |-> IF run[l].lead.name = None THEN "Unknown" ELSE run[l].lead.name,
                                                email |-> run[l].lead.email, anum |-> run[l].lead.anum, run |-> l])
                         ELSE contacts
          /\ run' = [run EXCEPT ![l] =
                       IF outcome = "ok" THEN Done([@ EXCEPT !.contact = Len(contacts) + 1], "create_matter")
                       ELSE Raised(@, outcome)]
    /\ CountFault(outcome # "ok")
    /\ UNCHANGED <<matters, drafts, sent, mails, deadlines, started>>

\* create_matter for the contact of the run.
CreateMatter(l, outcome) ==
    /\ run[l].pc = "create_matter"
    /\ matters' = IF HasEffect(outcome) THEN Append(matters, [client |-> run[l].contact, run |-> l])
                  ELSE matters
    /\ run' = [run EXCEPT ![l] =
                 IF outcome = "ok" THEN Done([@ EXCEPT !.matter = Len(matters) + 1], "compute_deadlines")
                 ELSE Raised(@, outcome)]
    /\ CountFault(outcome # "ok")
    /\ UNCHANGED <<contacts, drafts, sent, mails, deadlines, started>>

RuleCounts == UNION {0..Len(DeadlineRules[t]) : t \in DOMAIN DeadlineRules}

\* Mutant: an error of the engine is logged and the loop ends.
ComputeDeadlinesLenient(l, n, outcome) ==
    /\ run[l].pc = "compute_deadlines"
    /\ LET rules == DeadlineRules[run[l].ctype]
       IN  /\ n \in 0..Len(rules)
           /\ deadlines' = deadlines \cup {<<l, rules[i]>> : i \in {j \in 1..n : rules[j] \in RegisteredRules}}
           /\ run' = [run EXCEPT ![l] = Done(@, "open_tasks")]
    /\ CountFault(outcome # "ok")
    /\ UNCHANGED <<contacts, matters, drafts, sent, mails, started>>

\* compute_deadlines: rules are scheduled one after the other under the key
\* of run and rule; an unknown rule is skipped; the engine may raise after n
\* of them.
ComputeDeadlines(l, n, outcome) ==
    /\ run[l].pc = "compute_deadlines"
    /\ LET rules == DeadlineRules[run[l].ctype]
       IN  /\ n \in 0..Len(rules)
           /\ deadlines' = deadlines \cup {<<l, rules[i]>> : i \in {j \in 1..n : rules[j] \in RegisteredRules}}
           /\ \/ n = Len(rules) /\ outcome = "ok" /\ run' = [run EXCEPT ![l] = Done(@, "open_tasks")]
              \/ n < Len(rules) /\ outcome # "ok" /\ run' = [run EXCEPT ![l] = Raised(@, outcome)]
    /\ CountFault(outcome # "ok")
    /\ UNCHANGED <<contacts, matters, drafts, sent, mails, started>>

\* open_tasks: render_tasks has no effect outside the run.
OpenTasks(l) ==
    /\ run[l].pc = "open_tasks"
    /\ run' = [run EXCEPT ![l] = Done(@, "draft_welcome")]
    /\ UNCHANGED <<connectors, started, faults>>

\* draft_welcome: without an email there is a blocking gap and no draft.
DraftWelcome(l, outcome) ==
    /\ run[l].pc = "draft_welcome"
    /\ \/ /\ run[l].lead.email = None /\ outcome = "ok"
          /\ run' = [run EXCEPT ![l] = Done([@ EXCEPT !.gaps = run[l].gaps \cup {"email"}], "review")]
          /\ UNCHANGED drafts
       \/ /\ run[l].lead.email # None
          /\ drafts' = IF HasEffect(outcome)
                       THEN Append(drafts, [to |-> run[l].contact, matter |-> run[l].matter, run |-> l])
                       ELSE drafts
          /\ run' = [run EXCEPT ![l] =
                       IF outcome = "ok" THEN Done([@ EXCEPT !.draft = Len(drafts) + 1], "review")
                       ELSE Raised(@, outcome)]
    /\ CountFault(outcome # "ok")
    /\ UNCHANGED <<contacts, matters, sent, mails, deadlines, started>>

\* GATE:human_review.  The gaps are in the outputs of the steps; resolve_gate
\* does not look at them.
Review(l, approve) ==
    /\ run[l].pc = "review"
    /\ run' = [run EXCEPT ![l] = IF approve THEN Done([@ EXCEPT !.approved = TRUE], "send_welcome")
                                 ELSE [@ EXCEPT !.pc = "rejected"]]
    /\ UNCHANGED <<connectors, started, faults>>

\* Mutant: a key of its own for every attempt.
SendKeyPerAttempt(l) == <<l, run[l].attempt>>

\* The idempotency key of the send: run and step.
SendKey(l) == <<l, "send_welcome">>

\* send_welcome: a known key answers without sending, an unknown draft is an
\* error that is not retried.
SendWelcome(l, outcome) ==
    /\ run[l].pc = "send_welcome"
    /\ LET known == SendKey(l) \in DOMAIN sent
           sends == ~known /\ run[l].draft # NoId /\ HasEffect(outcome)
       IN  /\ sent' = IF sends THEN [k \in DOMAIN sent \cup {SendKey(l)} |->
                                       IF k = SendKey(l) THEN run[l].draft ELSE sent[k]]
                      ELSE sent
           /\ mails' = IF sends THEN mails \cup {<<l, run[l].draft, run[l].attempt>>} ELSE mails
           /\ run' = [run EXCEPT ![l] =
                        CASE outcome = "ok" /\ (known \/ run[l].draft # NoId) -> Done(@, "succeeded")
                          [] outcome = "ok" /\ ~known /\ run[l].draft = NoId -> Raised(@, "fatal")
                          [] OTHER -> Raised(@, outcome)]
    /\ CountFault(outcome # "ok")
    /\ UNCHANGED <<contacts, matters, drafts, deadlines, started>>

Next ==
    \E l \in Leads :
      \/ \E lead \in Payloads : Submit(l, lead)
      \/ ParseLead(l)
      \/ \E raises \in BOOLEAN : FindByEmail(l, raises) \/ FindByName(l, raises)
      \/ \E outcome \in Outcomes :
           \/ CreateContact(l, outcome)
           \/ CreateMatter(l, outcome)
           \/ \E n \in RuleCounts : ComputeDeadlines(l, n, outcome)
           \/ DraftWelcome(l, outcome)
           \/ SendWelcome(l, outcome)
      \/ OpenTasks(l)
      \/ \E approve \in BOOLEAN : Review(l, approve)

Spec == Init /\ [][Next]_vars

-----------------------------------------------------------------------------
(* Properties *)

\* Never auto-merge: the client of a matter was created by the matter's own run
\* or agrees with the lead on email or on the A-number, however runs overlap.
RightClient ==
    \A m \in DOMAIN matters :
      LET c == contacts[matters[m].client]
          d == run[matters[m].run].lead
      IN  \/ c.run = matters[m].run
          \/ d.email # None /\ c.email = d.email
          \/ d.anum # None /\ c.anum = d.anum

\* A second contact with a known email is made only when the search could not
\* see the first: it raised, the first came after it, or it found several.
NoNeedlessDuplicate ==
    \A i, j \in DOMAIN contacts :
      (i < j /\ contacts[i].email # None /\ contacts[i].email = contacts[j].email
        /\ contacts[j].run \in Leads) =>
        LET r == run[contacts[j].run]
        IN  r.raised \/ i > r.searched \/ r.decision = "ambiguous"

\* send_welcome is exactly-once and gated: each run sends at most one message,
\* after approval, from the draft its last attempt made for the run's matter and
\* its client, also when the answer of the send was lost.
WelcomeOnce ==
    /\ \A m \in mails : run[m[1]].approved /\ m[2] = run[m[1]].draft
    /\ \A m, n \in mails : m[1] = n[1] => m = n
    /\ \A m \in mails : /\ drafts[m[2]].to = run[m[1]].contact
                        /\ drafts[m[2]].matter = run[m[1]].matter
    /\ \A l \in Leads : run[l].pc = "succeeded" => \E m \in mails : m[1] = l

\* A run that is past compute_deadlines has a record for every rule of its case
\* type that is registered, although the step may have failed half-way before.
DeadlinesComplete ==
    \A l \in Leads :
      run[l].pc \in {"open_tasks", "draft_welcome", "review", "send_welcome", "succeeded"} =>
        \A i \in DOMAIN DeadlineRules[run[l].ctype] :
          LET rule == DeadlineRules[run[l].ctype][i]
          IN  rule \in RegisteredRules => <<l, rule>> \in deadlines
=============================================================================
