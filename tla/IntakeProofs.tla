---------------------------- MODULE IntakeProofs ----------------------------
(***************************************************************************)
(* Proofs about Intake, for any leads, contacts, case types and rules, any *)
(* number of runs, attempts and failing calls.                             *)
(***************************************************************************)
EXTENDS Intake, FiniteSetTheorems, SequenceTheorems, TLAPS

USE IntakeAssumption

-----------------------------------------------------------------------------
(* The inductive invariant *)

RunFields == {"pc", "lead", "attempt", "ctype", "gaps", "found", "searched", "raised",
              "decision", "contact", "matter", "draft", "approved"}

Undecided == {"new", "located", "parse_lead", "find_email", "find_name"}
Scheduled == {"open_tasks", "draft_welcome", "review", "send_welcome", "succeeded"}
Typed     == {"find_email", "find_name", "create_contact", "create_matter", "compute_deadlines"} \cup Scheduled
Undrafted == Undecided \cup {"create_contact", "create_matter", "compute_deadlines", "open_tasks", "draft_welcome"}
Mailing   == {"send_welcome", "succeeded", "parked"}

IsSeq(s) == \E S : s \in Seq(S)

(* The contact and the lead agree on an identifier. *)
Agrees(c, d) ==
    \/ d.email # None /\ c.email = d.email
    \/ d.anum # None /\ c.anum = d.anum

(* What the search has seen, and the decision taken on it. *)
Searched(r, cs) ==
    /\ r.searched \in 0..Len(cs)
    /\ r.pc \in Undecided => r.decision = None /\ r.contact = NoId
    /\ r.pc = "find_name" =>
         /\ r.found \subseteq DOMAIN cs
         /\ ~r.raised /\ r.lead.email # None =>
              \A i \in 1..r.searched : cs[i].email = r.lead.email => i \in r.found
    /\ r.decision = "new_contact" /\ ~r.raised /\ r.lead.email # None =>
         \A i \in 1..r.searched : cs[i].email # r.lead.email

(* The contact of a run is its own or agrees with its lead. *)
Matched(l, r, cs) ==
    /\ r.contact # NoId => r.contact \in DOMAIN cs /\ (cs[r.contact].run = l \/ Agrees(cs[r.contact], r.lead))
    /\ r.pc = "create_contact" => r.decision \in {"new_contact", "reuse_contact", "ambiguous"}
    /\ r.pc = "create_contact" /\ r.decision = "reuse_contact" => r.contact # NoId
    /\ r.pc = "create_matter" => r.contact # NoId

(* The draft of a run is about its contact and its matter, and is sent after
   approval only. *)
Drafted(r, ds) ==
    /\ r.pc \in Undrafted => r.draft = NoId
    /\ r.pc = "send_welcome" => r.approved
    /\ r.draft # NoId => /\ r.draft \in DOMAIN ds
                         /\ ds[r.draft].to = r.contact
                         /\ ds[r.draft].matter = r.matter

Complete(l, r, dl) ==
    /\ r.pc \in Typed => r.ctype \in DOMAIN DeadlineRules
    /\ r.pc \in Scheduled =>
         \A i \in DOMAIN DeadlineRules[r.ctype] :
           DeadlineRules[r.ctype][i] \in RegisteredRules => <<l, DeadlineRules[r.ctype][i]>> \in dl

Own(l, r, cs, ds, dl) ==
    /\ DOMAIN r = RunFields
    /\ Searched(r, cs)
    /\ Matched(l, r, cs)
    /\ Drafted(r, ds)
    /\ Complete(l, r, dl)

(* A contact made by a run came after its search and carries its email. *)
Made(j, l, cs, r) ==
    /\ r.decision \in {"new_contact", "ambiguous"}
    /\ cs[j].email = r.lead.email
    /\ j > r.searched

(* A matter has a client its run may have. *)
Opened(m, cs, ms) ==
    /\ ms[m].run \in Leads
    /\ ms[m].client \in DOMAIN cs

(* A message is the one of its run's draft, sent after approval. *)
Posted ==
    /\ \A m \in mails : /\ m[1] \in Leads
                        /\ run[m[1]].approved
                        /\ run[m[1]].pc \in Mailing
                        /\ m[2] = run[m[1]].draft
                        /\ m[2] # NoId
    /\ \A m, n \in mails : m[1] = n[1] => m = n
    /\ \A l \in Leads : SendKey(l) \in DOMAIN sent <=> \E m \in mails : m[1] = l
    /\ \A l \in Leads : run[l].pc = "succeeded" => \E m \in mails : m[1] = l

Stored == IsSeq(contacts) /\ IsSeq(matters) /\ IsSeq(drafts)

Runs ==
    /\ DOMAIN run = Leads
    /\ \A l \in Leads : Own(l, run[l], contacts, drafts, deadlines)

Records ==
    /\ \A j \in DOMAIN contacts, l \in Leads : contacts[j].run = l => Made(j, l, contacts, run[l])
    /\ \A m \in DOMAIN matters : /\ Opened(m, contacts, matters)
                                 /\ run[matters[m].run].pc # "new"
                                 /\ \/ contacts[matters[m].client].run = matters[m].run
                                    \/ Agrees(contacts[matters[m].client], run[matters[m].run].lead)

IInv == Stored /\ Runs /\ Records /\ Posted

-----------------------------------------------------------------------------
(* Sequences that grow *)

Grows(s, t) ==
    /\ IsSeq(t)
    /\ Len(s) \in Nat /\ Len(t) \in Nat /\ Len(s) <= Len(t)
    /\ DOMAIN s = 1..Len(s) /\ DOMAIN t = 1..Len(t)
    /\ \A i \in DOMAIN s : t[i] = s[i]

LEMMA SameGrows ==
  ASSUME NEW s, IsSeq(s)
  PROVE  Grows(s, s)
  BY DEF IsSeq, Grows

LEMMA AppendGrows ==
  ASSUME NEW s, NEW e, IsSeq(s)
  PROVE  /\ Grows(s, Append(s, e))
         /\ DOMAIN Append(s, e) = DOMAIN s \cup {Len(s) + 1}
         /\ Append(s, e)[Len(s) + 1] = e
         /\ Len(s) \in Nat
         /\ Len(s) + 1 \notin DOMAIN s
         /\ Len(s) + 1 # NoId
<1>1. PICK S : s \in Seq(S)
  BY DEF IsSeq
<1>2. s \in Seq(S \cup {e})
  BY <1>1
<1>3. Append(s, e) \in Seq(S \cup {e})
  BY <1>2
<1>4. Len(Append(s, e)) = Len(s) + 1 /\ DOMAIN s = 1..Len(s) /\ Len(s) \in Nat
  BY <1>2
<1>5. \A i \in 1..Len(s) : Append(s, e)[i] = s[i]
  BY <1>2
<1>6. Append(s, e)[Len(s) + 1] = e
  BY <1>2
<1>7. DOMAIN Append(s, e) = 1..(Len(s) + 1)
  BY <1>3, <1>4
<1>8. QED
  BY <1>3, <1>4, <1>5, <1>6, <1>7 DEF Grows, IsSeq, NoId

(* What is true of a run stays true while the records grow. *)
LEMMA OwnStays ==
  ASSUME NEW l, NEW r, NEW cs, NEW ds, NEW dl, NEW ct, NEW dt, NEW dk,
         Own(l, r, cs, ds, dl), Grows(cs, ct), Grows(ds, dt), dl \subseteq dk
  PROVE  Own(l, r, ct, dt, dk)
<1>1. Searched(r, ct)
  <2>1. r.searched \in 0..Len(ct) /\ \A i \in 1..r.searched : i \in DOMAIN cs
    BY DEF Own, Searched, Grows
  <2>2. QED
    BY <2>1 DEF Own, Searched, Grows
<1>2. Matched(l, r, ct)
  BY DEF Own, Matched, Grows
<1>3. Drafted(r, dt)
  BY DEF Own, Drafted, Grows
<1>4. Complete(l, r, dk)
  BY DEF Own, Complete
<1>5. QED
  BY <1>1, <1>2, <1>3, <1>4 DEF Own

-----------------------------------------------------------------------------
(* Steps of a run *)

(* What a step of run l that ends with q may add to the records. *)
AddedContacts(l, q) ==
    \A j \in DOMAIN contacts' \ DOMAIN contacts : contacts'[j].run = l /\ Made(j, l, contacts', q)

AddedMatters(l, q) ==
    \A m \in DOMAIN matters' \ DOMAIN matters :
      /\ matters'[m].run = l /\ matters'[m].client \in DOMAIN contacts'
      /\ \/ contacts'[matters'[m].client].run = l
         \/ Agrees(contacts'[matters'[m].client], q.lead)

Growth ==
    /\ Grows(contacts, contacts') /\ Grows(matters, matters') /\ Grows(drafts, drafts')
    /\ deadlines \subseteq deadlines'

LEMMA NoGrowth ==
  ASSUME IInv, UNCHANGED <<contacts, matters, drafts, deadlines>>
  PROVE  Growth /\ \A l, q : AddedContacts(l, q) /\ AddedMatters(l, q)
<1>1. Growth
  BY SameGrows DEF IInv, Stored, Growth
<1>2. QED
  BY <1>1 DEF AddedContacts, AddedMatters

LEMMA StepInv ==
  ASSUME IInv, NEW l \in Leads, NEW q, run' = [run EXCEPT ![l] = q], Growth,
         Own(l, q, contacts', drafts', deadlines'), q.pc # "new",
         q.lead = run[l].lead \/ run[l].pc = "new",
         \/ run[l].pc \in Undecided
         \/ q.decision = run[l].decision /\ q.searched = run[l].searched,
         AddedContacts(l, q), AddedMatters(l, q)
  PROVE  Stored' /\ Runs' /\ Records'
<1>1. DOMAIN run' = Leads /\ run'[l] = q /\ \A h \in Leads : h # l => run'[h] = run[h]
  BY DEF IInv, Runs
<1>2. Stored'
  BY DEF Growth, Grows, Stored
<1>3. Runs'
  <2>1. \A h \in Leads : h # l => Own(h, run'[h], contacts', drafts', deadlines')
    BY <1>1, OwnStays DEF IInv, Runs, Growth
  <2>2. QED
    BY <1>1, <2>1 DEF Runs
<1>4. ASSUME NEW j \in DOMAIN contacts', NEW h \in Leads, contacts'[j].run = h
      PROVE  Made(j, h, contacts', run'[h])
  <2>1. CASE j \notin DOMAIN contacts
    BY <1>1, <1>4, <2>1 DEF AddedContacts
  <2>2. CASE j \in DOMAIN contacts
    <3>1. contacts'[j] = contacts[j]
      BY <2>2 DEF Growth, Grows
    <3>2. Made(j, h, contacts, run[h])
      BY <1>4, <2>2, <3>1 DEF IInv, Records
    <3>3. CASE h # l
      BY <1>1, <3>1, <3>2, <3>3 DEF Made
    <3>4. CASE h = l
      <4>1. run[l].pc \notin Undecided
        BY <3>2, <3>4 DEF IInv, Runs, Own, Searched, Made, None
      <4>2. q.lead = run[l].lead /\ q.decision = run[l].decision /\ q.searched = run[l].searched
        BY <4>1 DEF Undecided
      <4>3. QED
        BY <1>1, <3>1, <3>2, <3>4, <4>2 DEF Made
    <3>5. QED
      BY <3>3, <3>4
  <2>3. QED
    BY <2>1, <2>2
<1>5. ASSUME NEW m \in DOMAIN matters'
      PROVE  /\ Opened(m, contacts', matters')
             /\ run'[matters'[m].run].pc # "new"
             /\ \/ contacts'[matters'[m].client].run = matters'[m].run
                \/ Agrees(contacts'[matters'[m].client], run'[matters'[m].run].lead)
  <2>1. CASE m \notin DOMAIN matters
    BY <1>1, <2>1 DEF AddedMatters, Opened
  <2>2. CASE m \in DOMAIN matters
    <3>1. matters'[m] = matters[m]
      BY <2>2 DEF Growth, Grows
    <3>2. /\ Opened(m, contacts, matters)
          /\ run[matters[m].run].pc # "new"
          /\ \/ contacts[matters[m].client].run = matters[m].run
             \/ Agrees(contacts[matters[m].client], run[matters[m].run].lead)
      BY <2>2 DEF IInv, Records
    <3>3. matters[m].client \in DOMAIN contacts' /\ contacts'[matters[m].client] = contacts[matters[m].client]
      BY <3>2 DEF Opened, Growth, Grows
    <3>4. run'[matters[m].run].lead = run[matters[m].run].lead /\ run'[matters[m].run].pc # "new"
      BY <1>1, <3>2 DEF Opened
    <3>5. QED
      BY <3>1, <3>2, <3>3, <3>4 DEF Opened, Agrees
  <2>3. QED
    BY <2>1, <2>2
<1>6. Records'
  BY <1>4, <1>5 DEF Records, Made, Opened, Agrees
<1>7. QED
  BY <1>2, <1>3, <1>6

(* A step that sends nothing. *)
LEMMA NoMail ==
  ASSUME IInv, NEW l \in Leads, NEW q, run' = [run EXCEPT ![l] = q], UNCHANGED <<mails, sent>>,
         \/ run[l].pc \notin Mailing
         \/ q.pc \in Mailing /\ q.approved = run[l].approved /\ q.draft = run[l].draft,
         q.pc = "succeeded" => \E m \in mails : m[1] = l
  PROVE  Posted'
<1>1. DOMAIN run' = Leads /\ run'[l] = q /\ \A h \in Leads : h # l => run'[h] = run[h]
  BY DEF IInv, Runs
<1>2. \A m \in mails : /\ m[1] \in Leads
                       /\ run'[m[1]].approved
                       /\ run'[m[1]].pc \in Mailing
                       /\ m[2] = run'[m[1]].draft
                       /\ m[2] # NoId
  BY <1>1 DEF IInv, Posted
<1>3. \A h \in Leads : run'[h].pc = "succeeded" => \E m \in mails : m[1] = h
  BY <1>1 DEF IInv, Posted
<1>4. QED
  BY <1>2, <1>3 DEF IInv, Posted, SendKey

(* The fields a step does not mention. *)
Same(q, r) ==
    /\ DOMAIN q = RunFields
    /\ q.lead = r.lead /\ q.ctype = r.ctype /\ q.found = r.found /\ q.searched = r.searched
    /\ q.raised = r.raised /\ q.decision = r.decision /\ q.contact = r.contact
    /\ q.matter = r.matter /\ q.draft = r.draft /\ q.approved = r.approved

LEMMA DoneFields ==
  ASSUME NEW r, DOMAIN r = RunFields, NEW pc
  PROVE  Same(Done(r, pc), r) /\ Done(r, pc).pc = pc
  BY DEF Done, Same, RunFields

LEMMA RaisedFields ==
  ASSUME NEW r, DOMAIN r = RunFields, NEW outcome
  PROVE  Same(Raised(r, outcome), r) /\ Raised(r, outcome).pc \in {r.pc, "parked"}
<1>1. CASE outcome = "fatal" \/ r.attempt >= MaxAttempts
  BY <1>1 DEF Raised, Same, RunFields
<1>2. CASE ~(outcome = "fatal" \/ r.attempt >= MaxAttempts)
  BY <1>2 DEF Raised, Same, RunFields
<1>3. QED
  BY <1>1, <1>2

(* A step that raised, perhaps after its effect. *)
LEMMA FailStep ==
  ASSUME IInv, NEW l \in Leads, NEW outcome, run[l].pc \notin {"new", "succeeded"},
         run' = [run EXCEPT ![l] = Raised(run[l], outcome)], Growth,
         \A q : q.lead = run[l].lead /\ q.decision = run[l].decision /\ q.searched = run[l].searched
                  => AddedContacts(l, q) /\ AddedMatters(l, q)
  PROVE  /\ Stored' /\ Runs' /\ Records'
         /\ UNCHANGED <<mails, sent>> => Posted'
<1> DEFINE r == run[l]
           q == Raised(r, outcome)
<1>1. Own(l, r, contacts', drafts', deadlines')
  BY OwnStays DEF IInv, Runs, Growth
<1>2. Same(q, r) /\ q.pc \in {r.pc, "parked"}
  BY <1>1, RaisedFields DEF Own
<1> HIDE DEF q
<1>3. Own(l, q, contacts', drafts', deadlines')
  <2>1. Searched(q, contacts')
    BY <1>1, <1>2 DEF Own, Searched, Same, Undecided
  <2>2. Matched(l, q, contacts')
    BY <1>1, <1>2 DEF Own, Matched, Same
  <2>3. Drafted(q, drafts')
    BY <1>1, <1>2 DEF Own, Drafted, Same, Undrafted, Undecided
  <2>4. Complete(l, q, deadlines')
    BY <1>1, <1>2 DEF Own, Complete, Same, Typed, Scheduled
  <2>5. QED
    BY <1>2, <2>1, <2>2, <2>3, <2>4 DEF Own, Same
<1>4. run' = [run EXCEPT ![l] = q]
  BY DEF q
<1>5. Stored' /\ Runs' /\ Records'
  BY <1>2, <1>3, <1>4, StepInv DEF Same
<1>6. ASSUME UNCHANGED <<mails, sent>> PROVE Posted'
  <2>1. q.pc # "succeeded"
    BY <1>2
  <2>2. run[l].pc \notin Mailing \/ (q.pc \in Mailing /\ q.approved = run[l].approved /\ q.draft = run[l].draft)
    BY <1>2 DEF Same, Mailing
  <2>3. QED
    BY <1>4, <1>6, <2>1, <2>2, NoMail
<1>7. QED
  BY <1>5, <1>6

(* A step without any effect on the records. *)
LEMMA PureStep ==
  ASSUME IInv, NEW l \in Leads, NEW q, run' = [run EXCEPT ![l] = q],
         UNCHANGED <<contacts, matters, drafts, deadlines, mails, sent>>,
         Own(l, q, contacts, drafts, deadlines), q.pc \notin {"new", "succeeded"},
         q.lead = run[l].lead \/ run[l].pc = "new",
         \/ run[l].pc \in Undecided
         \/ q.decision = run[l].decision /\ q.searched = run[l].searched,
         run[l].pc \notin Mailing
  PROVE  IInv'
<1>1. Growth /\ AddedContacts(l, q) /\ AddedMatters(l, q)
  BY NoGrowth
<1>2. Stored' /\ Runs' /\ Records'
  BY <1>1, StepInv
<1>3. Posted'
  BY NoMail
<1>4. QED
  BY <1>2, <1>3 DEF IInv

(* A step that failed without any effect. *)
LEMMA PureFailure ==
  ASSUME IInv, NEW l \in Leads, NEW outcome, run[l].pc \notin {"new", "succeeded"},
         run' = [run EXCEPT ![l] = Raised(run[l], outcome)],
         UNCHANGED <<contacts, matters, drafts, deadlines, mails, sent>>
  PROVE  IInv'
  BY NoGrowth, FailStep DEF IInv

LEMMA SubmitInv ==
  ASSUME IInv, NEW l \in Leads, NEW lead, Submit(l, lead)
  PROVE  IInv'
<1> DEFINE r == run[l]
           located == [r EXCEPT !.pc = "located"]
           begun == [r EXCEPT !.pc = "parse_lead", !.lead = lead]
<1>1. r.pc = "new" /\ UNCHANGED <<contacts, matters, drafts, deadlines, mails, sent>>
  BY DEF Submit, connectors
<1>2. run' = [run EXCEPT ![l] = located] \/ run' = [run EXCEPT ![l] = begun]
  BY DEF Submit
<1>3. Own(l, r, contacts, drafts, deadlines)
  BY DEF IInv, Runs
<1>4. Same(located, r) /\ located.pc = "located"
  BY <1>3 DEF Own, Same, RunFields
<1>5. /\ DOMAIN begun = RunFields /\ begun.pc = "parse_lead" /\ begun.searched = r.searched
      /\ begun.decision = r.decision /\ begun.contact = r.contact /\ begun.draft = r.draft
  BY <1>3 DEF Own, RunFields
<1> HIDE DEF located, begun
<1>6. r.decision = None /\ r.contact = NoId /\ r.draft = NoId
  BY <1>1, <1>3 DEF Own, Searched, Drafted, Undecided, Undrafted
<1>7. Own(l, located, contacts, drafts, deadlines)
  BY <1>3, <1>4, <1>6 DEF Own, Searched, Matched, Drafted, Complete, Same, Undecided, Typed, Scheduled, None
<1>8. Own(l, begun, contacts, drafts, deadlines)
  BY <1>3, <1>5, <1>6 DEF Own, Searched, Matched, Drafted, Complete, Undecided, Typed, Scheduled, None
<1>9. QED
  BY <1>1, <1>2, <1>4, <1>5, <1>7, <1>8, PureStep DEF Undecided, Mailing

LEMMA ParseLeadInv ==
  ASSUME IInv, NEW l \in Leads, ParseLead(l)
  PROVE  IInv'
<1> DEFINE r == run[l]
           t == [r EXCEPT !.ctype = CaseType(r.lead.ctype), !.gaps = MissingFields(l)]
<1>1. r.pc = "parse_lead" /\ UNCHANGED <<contacts, matters, drafts, deadlines, mails, sent>>
  BY DEF ParseLead, connectors
<1>2. \/ run' = [run EXCEPT ![l] = Done(t, "find_email")]
      \/ run' = [run EXCEPT ![l] = Raised(r, "fatal")]
  BY DEF ParseLead
<1>3. Own(l, r, contacts, drafts, deadlines)
  BY DEF IInv, Runs
<1>4. /\ DOMAIN t = RunFields /\ t.ctype = CaseType(r.lead.ctype) /\ t.lead = r.lead
      /\ t.searched = r.searched /\ t.decision = r.decision /\ t.contact = r.contact
      /\ t.draft = r.draft
  BY <1>3 DEF Own, RunFields
<1> HIDE DEF t
<1> DEFINE q == Done(t, "find_email")
<1>5. Same(q, t) /\ q.pc = "find_email"
  BY <1>4, DoneFields
<1> HIDE DEF q
<1>6. r.decision = None /\ r.contact = NoId /\ r.draft = NoId
  BY <1>1, <1>3 DEF Own, Searched, Drafted, Undecided, Undrafted
<1>7. CaseType(r.lead.ctype) \in DOMAIN DeadlineRules
  BY DEF CaseType
<1>8. Own(l, q, contacts, drafts, deadlines)
  BY <1>3, <1>4, <1>5, <1>6, <1>7
     DEF Own, Searched, Matched, Drafted, Complete, Same, Undecided, Scheduled, None
<1>9. CASE run' = [run EXCEPT ![l] = q]
  BY <1>1, <1>4, <1>5, <1>8, <1>9, PureStep DEF Same, Undecided, Mailing
<1>10. CASE run' = [run EXCEPT ![l] = Raised(r, "fatal")]
  BY <1>1, <1>10, PureFailure
<1>11. QED
  BY <1>2, <1>9, <1>10 DEF q

LEMMA FindByEmailInv ==
  ASSUME IInv, NEW l \in Leads, NEW raises \in BOOLEAN, FindByEmail(l, raises)
  PROVE  IInv'
<1> DEFINE r == run[l]
           hits == IF raises \/ r.lead.email = None THEN {} ELSE FindContact(r.lead.email)
           q == [r EXCEPT !.pc = "find_name", !.raised = raises, !.searched = Len(contacts), !.found = hits]
<1>1. r.pc = "find_email" /\ UNCHANGED <<contacts, matters, drafts, deadlines, mails, sent>>
  BY DEF FindByEmail, connectors
<1>2. run' = [run EXCEPT ![l] = q]
  BY DEF FindByEmail
<1>3. Own(l, r, contacts, drafts, deadlines)
  BY DEF IInv, Runs
<1>4. hits \subseteq DOMAIN contacts
  BY DEF FindContact
<1>5. ASSUME ~raises, r.lead.email # None, NEW i \in DOMAIN contacts, contacts[i].email = r.lead.email
      PROVE  i \in hits
  BY <1>5 DEF FindContact
<1> HIDE DEF hits
<1>6. /\ DOMAIN q = RunFields /\ q.pc = "find_name" /\ q.lead = r.lead /\ q.ctype = r.ctype
      /\ q.searched = Len(contacts) /\ q.raised = raises /\ q.found = hits
      /\ q.decision = r.decision /\ q.contact = r.contact /\ q.draft = r.draft
  BY <1>3 DEF Own, RunFields
<1> HIDE DEF q
<1>7. r.decision = None /\ r.contact = NoId /\ r.draft = NoId /\ r.ctype \in DOMAIN DeadlineRules
  BY <1>1, <1>3 DEF Own, Searched, Drafted, Complete, Undecided, Undrafted, Typed
<1>8. DOMAIN contacts = 1..Len(contacts) /\ Len(contacts) \in Nat
  BY SameGrows DEF IInv, Stored, Grows
<1>9. Searched(q, contacts)
  BY <1>4, <1>5, <1>6, <1>7, <1>8 DEF Searched, None
<1>10. Own(l, q, contacts, drafts, deadlines)
  BY <1>6, <1>7, <1>9 DEF Own, Matched, Drafted, Complete, Scheduled
<1>11. QED
  BY <1>1, <1>2, <1>6, <1>10, PureStep DEF Undecided, Mailing

(* A contact taken over agrees with the lead; a new one has a reason. *)
LEMMA DedupeSound ==
  ASSUME NEW l, NEW candidates, candidates \subseteq DOMAIN contacts
  PROVE  LET d == Dedupe(l, candidates)
         IN  /\ d.decision \in {"new_contact", "reuse_contact", "ambiguous"}
             /\ d.decision = "new_contact" => candidates = {}
             /\ d.decision # "reuse_contact" => d.contact = NoId
             /\ d.decision = "reuse_contact" =>
                  d.contact \in DOMAIN contacts /\ Agrees(contacts[d.contact], run[l].lead)
<1> DEFINE byEmail == {i \in candidates : run[l].lead.email # None /\ contacts[i].email = run[l].lead.email}
           byAnum  == {i \in candidates : run[l].lead.anum # None /\ contacts[i].anum = run[l].lead.anum}
           exact   == IF Cardinality(byEmail) = 1 THEN byEmail ELSE byAnum
           d       == Dedupe(l, candidates)
<1>1. \A i \in exact : i \in candidates /\ Agrees(contacts[i], run[l].lead)
  BY DEF Agrees
<1>2. d = IF candidates = {} THEN [decision |-> "new_contact", contact |-> NoId]
          ELSE IF Cardinality(exact) = 1
               THEN [decision |-> "reuse_contact", contact |-> CHOOSE i \in exact : TRUE]
               ELSE [decision |-> "ambiguous", contact |-> NoId]
  BY DEF Dedupe
<1> HIDE DEF exact, d
<1>3. CASE candidates = {}
  BY <1>2, <1>3 DEF d
<1>4. CASE candidates # {} /\ Cardinality(exact) = 1
  <2>1. exact # {}
    <3>1. Cardinality({}) = 0
      BY FS_EmptySet
    <3>2. Cardinality(exact) = 1 /\ 0 # 1
      BY <1>4
    <3>3. QED
      BY <3>1, <3>2, Zenon
  <2>2. (CHOOSE i \in exact : TRUE) \in exact
    BY <2>1
  <2>3. QED
    BY <1>1, <1>2, <1>4, <2>2 DEF d
<1>5. CASE candidates # {} /\ Cardinality(exact) # 1
  BY <1>2, <1>5 DEF d
<1>6. QED
  BY <1>3, <1>4, <1>5

LEMMA FindByNameInv ==
  ASSUME IInv, NEW l \in Leads, NEW raises \in BOOLEAN, FindByName(l, raises)
  PROVE  IInv'
<1> DEFINE r == run[l]
           candidates == IF r.found # {} THEN r.found
                         ELSE IF raises \/ r.lead.name = None THEN {}
                         ELSE FindContact(r.lead.name)
           d == Dedupe(l, candidates)
           t == [r EXCEPT !.found = {}, !.decision = d.decision, !.contact = d.contact,
                          !.gaps = r.gaps \cup (IF d.decision = "ambiguous" THEN {"contact_id"} ELSE {})]
           q == Done(t, "create_contact")
<1>1. r.pc = "find_name" /\ UNCHANGED <<contacts, matters, drafts, deadlines, mails, sent>>
  BY DEF FindByName, connectors
<1>2. run' = [run EXCEPT ![l] = q]
  BY DEF FindByName
<1>3. Own(l, r, contacts, drafts, deadlines)
  BY DEF IInv, Runs
<1>4. candidates \subseteq DOMAIN contacts /\ r.found \subseteq candidates
  BY <1>1, <1>3 DEF Own, Searched, FindContact
<1> HIDE DEF candidates
<1>5. /\ d.decision \in {"new_contact", "reuse_contact", "ambiguous"}
      /\ d.decision = "new_contact" => candidates = {}
      /\ d.decision # "reuse_contact" => d.contact = NoId
      /\ d.decision = "reuse_contact" =>
           d.contact \in DOMAIN contacts /\ Agrees(contacts[d.contact], r.lead)
  BY <1>4, DedupeSound
<1> HIDE DEF d
<1>6. /\ DOMAIN t = RunFields /\ t.lead = r.lead /\ t.ctype = r.ctype /\ t.searched = r.searched
      /\ t.raised = r.raised /\ t.decision = d.decision /\ t.contact = d.contact
      /\ t.draft = r.draft
  BY <1>3 DEF Own, RunFields
<1> HIDE DEF t
<1>7. Same(q, t) /\ q.pc = "create_contact"
  BY <1>6, DoneFields
<1> HIDE DEF q
<1>8. r.draft = NoId /\ r.ctype \in DOMAIN DeadlineRules
  BY <1>1, <1>3 DEF Own, Drafted, Complete, Undecided, Undrafted, Typed
<1>9. Searched(q, contacts)
  <2>1. q.searched \in 0..Len(contacts) /\ q.pc \notin Undecided /\ q.pc # "find_name"
    BY <1>3, <1>6, <1>7 DEF Own, Searched, Same, Undecided
  <2>2. ASSUME q.decision = "new_contact", ~q.raised, q.lead.email # None, NEW i \in 1..q.searched
        PROVE  contacts[i].email # q.lead.email
    <3>1. r.found = {}
      BY <1>4, <1>5, <1>6, <1>7, <2>2 DEF Same
    <3>2. i \in 1..r.searched /\ ~r.raised /\ r.lead.email # None
      BY <1>6, <1>7, <2>2 DEF Same
    <3>3. contacts[i].email # r.lead.email
      BY <1>1, <1>3, <3>1, <3>2 DEF Own, Searched
    <3>4. QED
      BY <1>6, <1>7, <3>3 DEF Same
  <2>3. QED
    BY <2>1, <2>2 DEF Searched
<1>10. Matched(l, q, contacts)
  <2>1. NoId \notin DOMAIN contacts
    BY SameGrows DEF IInv, Stored, Grows, NoId
  <2>2. QED
    BY <1>5, <1>6, <1>7, <2>1 DEF Matched, Same
<1>11. Drafted(q, drafts) /\ Complete(l, q, deadlines)
  BY <1>6, <1>7, <1>8 DEF Drafted, Complete, Same, Scheduled
<1>12. Own(l, q, contacts, drafts, deadlines)
  BY <1>7, <1>9, <1>10, <1>11 DEF Own, Same
<1>13. QED
  BY <1>1, <1>2, <1>6, <1>7, <1>12, PureStep DEF Same, Undecided, Mailing

LEMMA CreateContactInv ==
  ASSUME IInv, NEW l \in Leads, NEW outcome, CreateContact(l, outcome)
  PROVE  IInv'
<1> DEFINE r == run[l]
<1>1. r.pc = "create_contact" /\ UNCHANGED <<matters, drafts, deadlines, mails, sent>>
  BY DEF CreateContact
<1>2. Own(l, r, contacts, drafts, deadlines)
  BY DEF IInv, Runs
<1>3. /\ r.decision \in {"new_contact", "reuse_contact", "ambiguous"} /\ r.draft = NoId
      /\ r.ctype \in DOMAIN DeadlineRules /\ r.searched \in 0..Len(contacts)
  BY <1>1, <1>2 DEF Own, Searched, Matched, Drafted, Complete, Undrafted, Typed
<1>4. CASE r.decision = "reuse_contact"
  <2> DEFINE q == Done(r, "create_matter")
  <2>1. run' = [run EXCEPT ![l] = q] /\ UNCHANGED contacts
    BY <1>4 DEF CreateContact
  <2>2. Same(q, r) /\ q.pc = "create_matter"
    BY <1>2, DoneFields DEF Own
  <2> HIDE DEF q
  <2>3. Own(l, q, contacts, drafts, deadlines)
    BY <1>1, <1>2, <1>3, <1>4, <2>2
       DEF Own, Searched, Matched, Drafted, Complete, Same, Undecided, Undrafted, Typed, Scheduled
  <2>4. QED
    BY <1>1, <2>1, <2>2, <2>3, PureStep DEF Same, Mailing
<1>5. CASE r.decision # "reuse_contact"
  <2> DEFINE c == [name |-> IF r.lead.name = None THEN "Unknown" ELSE r.lead.name,
                   email |-> r.lead.email, anum |-> r.lead.anum, run |-> l]
             new == Len(contacts) + 1
  <2>1. /\ contacts' = (IF HasEffect(outcome) THEN Append(contacts, c) ELSE contacts)
        /\ run' = [run EXCEPT ![l] = IF outcome = "ok"
                                     THEN Done([r EXCEPT !.contact = new], "create_matter")
                                     ELSE Raised(r, outcome)]
    BY <1>5 DEF CreateContact
  <2>2. c.email = r.lead.email /\ c.run = l
    OBVIOUS
  <2> HIDE DEF c
  <2>3. CASE ~HasEffect(outcome)
    <3>1. outcome # "ok" /\ contacts' = contacts
      BY <2>1, <2>3 DEF HasEffect
    <3>2. QED
      BY <1>1, <2>1, <3>1, PureFailure
  <2>4. CASE HasEffect(outcome)
    <3>1. contacts' = Append(contacts, c)
      BY <2>1, <2>4
    <3>2. /\ Grows(contacts, contacts') /\ DOMAIN contacts' = DOMAIN contacts \cup {new}
          /\ contacts'[new] = c /\ Len(contacts) \in Nat /\ new # NoId
      BY <3>1, AppendGrows DEF IInv, Stored
    <3>3. Growth
      BY <1>1, <3>2, SameGrows DEF IInv, Stored, Growth
    <3>4. ASSUME NEW q, q.lead = r.lead, q.decision = r.decision, q.searched = r.searched
          PROVE  AddedContacts(l, q) /\ AddedMatters(l, q)
      <4>1. new > r.searched
        BY <1>3, <3>2
      <4>2. Made(new, l, contacts', q)
        BY <1>3, <1>5, <2>2, <3>2, <3>4, <4>1 DEF Made
      <4>3. QED
        BY <1>1, <2>2, <3>2, <4>2 DEF AddedContacts, AddedMatters
    <3>5. CASE outcome # "ok"
      <4>1. run' = [run EXCEPT ![l] = Raised(r, outcome)]
        BY <2>1, <3>5
      <4>2. QED
        BY <1>1, <3>3, <3>4, <4>1, FailStep DEF IInv
    <3>6. CASE outcome = "ok"
      <4> DEFINE t == [r EXCEPT !.contact = new]
                 q == Done(t, "create_matter")
      <4>1. run' = [run EXCEPT ![l] = q]
        BY <2>1, <3>6
      <4>2. /\ DOMAIN t = RunFields /\ t.lead = r.lead /\ t.ctype = r.ctype /\ t.searched = r.searched
            /\ t.raised = r.raised /\ t.decision = r.decision /\ t.contact = new /\ t.draft = r.draft
        BY <1>2 DEF Own, RunFields
      <4> HIDE DEF t
      <4>3. Same(q, t) /\ q.pc = "create_matter"
        BY <4>2, DoneFields
      <4> HIDE DEF q
      <4>4. Own(l, r, contacts', drafts', deadlines')
        BY <1>2, <3>3, OwnStays DEF Growth
      <4>5. Searched(q, contacts')
        BY <4>2, <4>3, <4>4 DEF Own, Searched, Same, Undecided
      <4>6. Matched(l, q, contacts')
        BY <2>2, <3>2, <4>2, <4>3 DEF Matched, Same
      <4>7. Drafted(q, drafts') /\ Complete(l, q, deadlines')
        BY <1>3, <4>2, <4>3 DEF Drafted, Complete, Same, Scheduled
      <4>8. Own(l, q, contacts', drafts', deadlines')
        BY <4>3, <4>5, <4>6, <4>7 DEF Own, Same
      <4>9. AddedContacts(l, q) /\ AddedMatters(l, q)
        BY <3>4, <4>2, <4>3 DEF Same
      <4>10. Stored' /\ Runs' /\ Records'
        BY <3>3, <4>1, <4>2, <4>3, <4>8, <4>9, StepInv DEF Same
      <4>11. Posted'
        BY <1>1, <4>1, <4>3, NoMail DEF Mailing
      <4>12. QED
        BY <4>10, <4>11 DEF IInv
    <3>7. QED
      BY <3>5, <3>6
  <2>5. QED
    BY <2>3, <2>4
<1>6. QED
  BY <1>4, <1>5

LEMMA CreateMatterInv ==
  ASSUME IInv, NEW l \in Leads, NEW outcome, CreateMatter(l, outcome)
  PROVE  IInv'
<1> DEFINE r == run[l]
           c == [client |-> r.contact, run |-> l]
           new == Len(matters) + 1
<1>1. /\ r.pc = "create_matter" /\ UNCHANGED <<contacts, drafts, deadlines, mails, sent>>
      /\ matters' = (IF HasEffect(outcome) THEN Append(matters, c) ELSE matters)
      /\ run' = [run EXCEPT ![l] = IF outcome = "ok"
                                   THEN Done([r EXCEPT !.matter = new], "compute_deadlines")
                                   ELSE Raised(r, outcome)]
  BY DEF CreateMatter
<1>2. Own(l, r, contacts, drafts, deadlines)
  BY DEF IInv, Runs
<1>3. /\ r.contact \in DOMAIN contacts /\ r.draft = NoId /\ r.ctype \in DOMAIN DeadlineRules
      /\ contacts[r.contact].run = l \/ Agrees(contacts[r.contact], r.lead)
  BY <1>1, <1>2 DEF Own, Matched, Drafted, Complete, Undrafted, Typed
<1>4. c.client = r.contact /\ c.run = l
  OBVIOUS
<1> HIDE DEF c
<1>5. CASE ~HasEffect(outcome)
  <2>1. outcome # "ok" /\ matters' = matters
    BY <1>1, <1>5 DEF HasEffect
  <2>2. QED
    BY <1>1, <2>1, PureFailure
<1>6. CASE HasEffect(outcome)
  <2>1. matters' = Append(matters, c)
    BY <1>1, <1>6
  <2>2. /\ Grows(matters, matters') /\ DOMAIN matters' = DOMAIN matters \cup {new} /\ matters'[new] = c
    BY <2>1, AppendGrows DEF IInv, Stored
  <2>3. Growth
    BY <1>1, <2>2, SameGrows DEF IInv, Stored, Growth
  <2>4. ASSUME NEW q, q.lead = r.lead
        PROVE  AddedContacts(l, q) /\ AddedMatters(l, q)
    BY <1>1, <1>3, <1>4, <2>2, <2>4 DEF AddedContacts, AddedMatters
  <2>5. CASE outcome # "ok"
    <3>1. run' = [run EXCEPT ![l] = Raised(r, outcome)]
      BY <1>1, <2>5
    <3>2. QED
      BY <1>1, <2>3, <2>4, <3>1, FailStep DEF IInv
  <2>6. CASE outcome = "ok"
    <3> DEFINE t == [r EXCEPT !.matter = new]
               q == Done(t, "compute_deadlines")
    <3>1. run' = [run EXCEPT ![l] = q]
      BY <1>1, <2>6
    <3>2. /\ DOMAIN t = RunFields /\ t.lead = r.lead /\ t.ctype = r.ctype /\ t.searched = r.searched
          /\ t.raised = r.raised /\ t.decision = r.decision /\ t.contact = r.contact /\ t.draft = r.draft
      BY <1>2 DEF Own, RunFields
    <3> HIDE DEF t
    <3>3. Same(q, t) /\ q.pc = "compute_deadlines"
      BY <3>2, DoneFields
    <3> HIDE DEF q
    <3>4. Searched(q, contacts) /\ Matched(l, q, contacts)
      BY <1>2, <1>3, <3>2, <3>3 DEF Own, Searched, Matched, Same, Undecided
    <3>5. Drafted(q, drafts) /\ Complete(l, q, deadlines)
      BY <1>3, <3>2, <3>3 DEF Drafted, Complete, Same, Scheduled
    <3>6. Own(l, q, contacts', drafts', deadlines')
      BY <1>1, <3>3, <3>4, <3>5 DEF Own, Same
    <3>7. Stored' /\ Runs' /\ Records'
      BY <2>3, <2>4, <3>1, <3>2, <3>3, <3>6, StepInv DEF Same
    <3>8. Posted'
      BY <1>1, <3>1, <3>3, NoMail DEF Mailing
    <3>9. QED
      BY <3>7, <3>8 DEF IInv
  <2>7. QED
    BY <2>5, <2>6
<1>7. QED
  BY <1>5, <1>6

LEMMA ComputeDeadlinesInv ==
  ASSUME IInv, NEW l \in Leads, NEW n, NEW outcome, ComputeDeadlines(l, n, outcome)
  PROVE  IInv'
<1> DEFINE r == run[l]
           rules == DeadlineRules[r.ctype]
           q == Done(r, "open_tasks")
<1>1. /\ r.pc = "compute_deadlines" /\ UNCHANGED <<contacts, matters, drafts, mails, sent>>
      /\ n \in 0..Len(rules)
      /\ deadlines' = deadlines \cup {<<l, rules[i]>> : i \in {j \in 1..n : rules[j] \in RegisteredRules}}
      /\ \/ n = Len(rules) /\ run' = [run EXCEPT ![l] = q]
         \/ run' = [run EXCEPT ![l] = Raised(r, outcome)]
  BY DEF ComputeDeadlines
<1>2. Own(l, r, contacts, drafts, deadlines)
  BY DEF IInv, Runs
<1>3. r.draft = NoId /\ r.ctype \in DOMAIN DeadlineRules
  BY <1>1, <1>2 DEF Own, Drafted, Complete, Undrafted, Typed
<1>4. DOMAIN rules = 1..Len(rules)
  <2>1. rules \in Seq(STRING)
    BY <1>3
  <2>2. QED
    BY <2>1
<1>5. Growth /\ \A p : AddedContacts(l, p) /\ AddedMatters(l, p)
  <2>1. Growth
    BY <1>1, SameGrows DEF IInv, Stored, Growth
  <2>2. QED
    BY <1>1, <2>1 DEF AddedContacts, AddedMatters
<1>6. CASE run' = [run EXCEPT ![l] = Raised(r, outcome)]
  BY <1>1, <1>5, <1>6, FailStep DEF IInv
<1>7. CASE n = Len(rules) /\ run' = [run EXCEPT ![l] = q]
  <2>1. \A i \in DOMAIN rules : rules[i] \in RegisteredRules => <<l, rules[i]>> \in deadlines'
    BY <1>1, <1>4, <1>7
  <2>2. Same(q, r) /\ q.pc = "open_tasks"
    BY <1>2, DoneFields DEF Own
  <2> HIDE DEF q
  <2>3. Searched(q, contacts) /\ Matched(l, q, contacts)
    BY <1>2, <2>2 DEF Own, Searched, Matched, Same, Undecided
  <2>4. Drafted(q, drafts)
    BY <1>3, <2>2 DEF Drafted, Same
  <2>5. Complete(l, q, deadlines')
    BY <1>3, <2>1, <2>2 DEF Complete, Same
  <2>6. Own(l, q, contacts', drafts', deadlines')
    BY <1>1, <2>2, <2>3, <2>4, <2>5 DEF Own, Same
  <2>7. Stored' /\ Runs' /\ Records'
    BY <1>5, <1>7, <2>2, <2>6, StepInv DEF Same
  <2>8. Posted'
    BY <1>1, <1>7, <2>2, NoMail DEF Mailing
  <2>9. QED
    BY <2>7, <2>8 DEF IInv
<1>8. QED
  BY <1>1, <1>6, <1>7

LEMMA OpenTasksInv ==
  ASSUME IInv, NEW l \in Leads, OpenTasks(l)
  PROVE  IInv'
<1> DEFINE r == run[l]
           q == Done(r, "draft_welcome")
<1>1. /\ r.pc = "open_tasks" /\ run' = [run EXCEPT ![l] = q]
      /\ UNCHANGED <<contacts, matters, drafts, deadlines, mails, sent>>
  BY DEF OpenTasks, connectors
<1>2. Own(l, r, contacts, drafts, deadlines)
  BY DEF IInv, Runs
<1>3. Same(q, r) /\ q.pc = "draft_welcome"
  BY <1>2, DoneFields DEF Own
<1> HIDE DEF q
<1>4. Searched(q, contacts) /\ Matched(l, q, contacts)
  BY <1>2, <1>3 DEF Own, Searched, Matched, Same, Undecided
<1>5. Drafted(q, drafts) /\ Complete(l, q, deadlines)
  BY <1>1, <1>2, <1>3 DEF Own, Drafted, Complete, Same, Undrafted, Typed, Scheduled
<1>6. Own(l, q, contacts, drafts, deadlines)
  BY <1>3, <1>4, <1>5 DEF Own, Same
<1>7. QED
  BY <1>1, <1>3, <1>6, PureStep DEF Same, Mailing

LEMMA DraftWelcomeInv ==
  ASSUME IInv, NEW l \in Leads, NEW outcome, DraftWelcome(l, outcome)
  PROVE  IInv'
<1> DEFINE r == run[l]
           c == [to |-> r.contact, matter |-> r.matter, run |-> l]
           new == Len(drafts) + 1
<1>1. r.pc = "draft_welcome" /\ UNCHANGED <<contacts, matters, deadlines, mails, sent>>
  BY DEF DraftWelcome
<1>2. Own(l, r, contacts, drafts, deadlines)
  BY DEF IInv, Runs
<1>3. r.draft = NoId
  BY <1>1, <1>2 DEF Own, Drafted, Undrafted
<1>4. c.to = r.contact /\ c.matter = r.matter
  OBVIOUS
<1> HIDE DEF c
<1>5. CASE r.lead.email = None
  <2> DEFINE t == [r EXCEPT !.gaps = r.gaps \cup {"email"}]
             q == Done(t, "review")
  <2>1. run' = [run EXCEPT ![l] = q] /\ UNCHANGED drafts
    BY <1>5 DEF DraftWelcome
  <2>2. Same(t, r)
    BY <1>2 DEF Own, Same, RunFields
  <2> HIDE DEF t
  <2>3. Same(q, t) /\ q.pc = "review"
    BY <2>2, DoneFields DEF Same
  <2> HIDE DEF q
  <2>4. Searched(q, contacts) /\ Matched(l, q, contacts)
    BY <1>2, <2>2, <2>3 DEF Own, Searched, Matched, Same, Undecided
  <2>5. Drafted(q, drafts) /\ Complete(l, q, deadlines)
    BY <1>1, <1>2, <1>3, <2>2, <2>3 DEF Own, Drafted, Complete, Same, Undrafted, Undecided, Typed, Scheduled
  <2>6. Own(l, q, contacts, drafts, deadlines)
    BY <2>3, <2>4, <2>5 DEF Own, Same
  <2>7. QED
    BY <1>1, <2>1, <2>2, <2>3, <2>6, PureStep DEF Same, Mailing
<1>6. CASE r.lead.email # None
  <2>1. /\ drafts' = (IF HasEffect(outcome) THEN Append(drafts, c) ELSE drafts)
        /\ run' = [run EXCEPT ![l] = IF outcome = "ok"
                                     THEN Done([r EXCEPT !.draft = new], "review")
                                     ELSE Raised(r, outcome)]
    BY <1>6 DEF DraftWelcome, c
  <2>2. CASE ~HasEffect(outcome)
    <3>1. outcome # "ok" /\ drafts' = drafts
      BY <2>1, <2>2 DEF HasEffect
    <3>2. QED
      BY <1>1, <2>1, <3>1, PureFailure
  <2>3. CASE HasEffect(outcome)
    <3>1. drafts' = Append(drafts, c)
      BY <2>1, <2>3
    <3>2. /\ Grows(drafts, drafts') /\ DOMAIN drafts' = DOMAIN drafts \cup {new} /\ drafts'[new] = c
      BY <3>1, AppendGrows DEF IInv, Stored
    <3>3. Growth
      BY <1>1, <3>2, SameGrows DEF IInv, Stored, Growth
    <3>4. \A q : AddedContacts(l, q) /\ AddedMatters(l, q)
      BY <1>1 DEF AddedContacts, AddedMatters
    <3>5. CASE outcome # "ok"
      <4>1. run' = [run EXCEPT ![l] = Raised(r, outcome)]
        BY <2>1, <3>5
      <4>2. QED
        BY <1>1, <3>3, <3>4, <4>1, FailStep DEF IInv
    <3>6. CASE outcome = "ok"
      <4> DEFINE t == [r EXCEPT !.draft = new]
                 q == Done(t, "review")
      <4>1. run' = [run EXCEPT ![l] = q]
        BY <2>1, <3>6
      <4>2. /\ DOMAIN t = RunFields /\ t.lead = r.lead /\ t.ctype = r.ctype /\ t.searched = r.searched
            /\ t.raised = r.raised /\ t.decision = r.decision /\ t.contact = r.contact
            /\ t.matter = r.matter /\ t.draft = new
        BY <1>2 DEF Own, RunFields
      <4> HIDE DEF t
      <4>3. Same(q, t) /\ q.pc = "review"
        BY <4>2, DoneFields
      <4> HIDE DEF q
      <4>4. Searched(q, contacts) /\ Matched(l, q, contacts)
        BY <1>2, <4>2, <4>3 DEF Own, Searched, Matched, Same, Undecided
      <4>5. Drafted(q, drafts')
        BY <1>4, <3>2, <4>2, <4>3 DEF Drafted, Same, Undrafted, Undecided
      <4>6. Complete(l, q, deadlines)
        BY <1>1, <1>2, <4>2, <4>3 DEF Own, Complete, Same, Typed, Scheduled
      <4>7. Own(l, q, contacts', drafts', deadlines')
        BY <1>1, <4>3, <4>4, <4>5, <4>6 DEF Own, Same
      <4>8. Stored' /\ Runs' /\ Records'
        BY <3>3, <3>4, <4>1, <4>2, <4>3, <4>7, StepInv DEF Same
      <4>9. Posted'
        BY <1>1, <4>1, <4>3, NoMail DEF Mailing
      <4>10. QED
        BY <4>8, <4>9 DEF IInv
    <3>7. QED
      BY <3>5, <3>6
  <2>4. QED
    BY <2>2, <2>3
<1>7. QED
  BY <1>5, <1>6

LEMMA ReviewInv ==
  ASSUME IInv, NEW l \in Leads, NEW approve, Review(l, approve)
  PROVE  IInv'
<1> DEFINE r == run[l]
           t == [r EXCEPT !.approved = TRUE]
           q == Done(t, "send_welcome")
           no == [r EXCEPT !.pc = "rejected"]
<1>1. /\ r.pc = "review" /\ UNCHANGED <<contacts, matters, drafts, deadlines, mails, sent>>
      /\ run' = [run EXCEPT ![l] = q] \/ run' = [run EXCEPT ![l] = no]
  BY DEF Review, connectors
<1>2. Own(l, r, contacts, drafts, deadlines)
  BY DEF IInv, Runs
<1>3. /\ DOMAIN t = RunFields /\ t.lead = r.lead /\ t.ctype = r.ctype /\ t.searched = r.searched
      /\ t.raised = r.raised /\ t.decision = r.decision /\ t.contact = r.contact
      /\ t.matter = r.matter /\ t.draft = r.draft /\ t.approved = TRUE
  BY <1>2 DEF Own, RunFields
<1>4. Same(no, r) /\ no.pc = "rejected"
  BY <1>2 DEF Own, Same, RunFields
<1> HIDE DEF t, no
<1>5. Same(q, t) /\ q.pc = "send_welcome"
  BY <1>3, DoneFields
<1> HIDE DEF q
<1>6. Own(l, q, contacts, drafts, deadlines)
  <2>1. Searched(q, contacts) /\ Matched(l, q, contacts)
    BY <1>2, <1>3, <1>5 DEF Own, Searched, Matched, Same, Undecided
  <2>2. Drafted(q, drafts)
    BY <1>2, <1>3, <1>5 DEF Own, Drafted, Same, Undrafted, Undecided
  <2>3. Complete(l, q, deadlines)
    BY <1>1, <1>2, <1>3, <1>5 DEF Own, Complete, Same, Typed, Scheduled
  <2>4. QED
    BY <1>5, <2>1, <2>2, <2>3 DEF Own, Same
<1>7. Own(l, no, contacts, drafts, deadlines)
  <2>1. Searched(no, contacts) /\ Matched(l, no, contacts)
    BY <1>2, <1>4 DEF Own, Searched, Matched, Same, Undecided
  <2>2. Drafted(no, drafts) /\ Complete(l, no, deadlines)
    BY <1>2, <1>4 DEF Own, Drafted, Complete, Same, Undrafted, Undecided, Typed, Scheduled
  <2>3. QED
    BY <1>4, <2>1, <2>2 DEF Own, Same
<1>8. CASE run' = [run EXCEPT ![l] = q]
  BY <1>1, <1>3, <1>5, <1>6, <1>8, PureStep DEF Same, Mailing
<1>9. CASE run' = [run EXCEPT ![l] = no]
  BY <1>1, <1>4, <1>7, <1>9, PureStep DEF Same, Mailing
<1>10. QED
  BY <1>1, <1>8, <1>9

(* The message that goes out is the first of its run. *)
LEMMA FirstMail ==
  ASSUME IInv, NEW l \in Leads, NEW q, run' = [run EXCEPT ![l] = q], NEW e,
         e[1] = l, e[2] = run[l].draft, run[l].draft # NoId, mails' = mails \cup {e},
         SendKey(l) \notin DOMAIN sent, DOMAIN sent' = DOMAIN sent \cup {SendKey(l)},
         q.pc \in Mailing, q.approved, q.draft = run[l].draft
  PROVE  Posted'
<1>1. DOMAIN run' = Leads /\ run'[l] = q /\ \A h \in Leads : h # l => run'[h] = run[h]
  BY DEF IInv, Runs
<1>2. \A m \in mails : m[1] # l
  BY DEF IInv, Posted
<1>3. \A m \in mails' : /\ m[1] \in Leads
                        /\ run'[m[1]].approved
                        /\ run'[m[1]].pc \in Mailing
                        /\ m[2] = run'[m[1]].draft
                        /\ m[2] # NoId
  BY <1>1, <1>2 DEF IInv, Posted
<1>4. \A m, n \in mails' : m[1] = n[1] => m = n
  BY <1>2 DEF IInv, Posted
<1>5. \A h \in Leads : h # l => SendKey(h) # SendKey(l)
  BY DEF SendKey
<1>6. \A h \in Leads : SendKey(h) \in DOMAIN sent' <=> \E m \in mails' : m[1] = h
  BY <1>5 DEF IInv, Posted
<1>7. \A h \in Leads : run'[h].pc = "succeeded" => \E m \in mails' : m[1] = h
  BY <1>1 DEF IInv, Posted
<1>8. QED
  BY <1>3, <1>4, <1>6, <1>7 DEF Posted, SendKey

LEMMA SendWelcomeInv ==
  ASSUME IInv, NEW l \in Leads, NEW outcome, SendWelcome(l, outcome)
  PROVE  IInv'
<1> DEFINE r == run[l]
           known == SendKey(l) \in DOMAIN sent
           sends == ~known /\ r.draft # NoId /\ HasEffect(outcome)
           q == Done(r, "succeeded")
           e == <<l, r.draft, r.attempt>>
<1>1. /\ r.pc = "send_welcome" /\ UNCHANGED <<contacts, matters, drafts, deadlines>>
      /\ ~sends => UNCHANGED <<mails, sent>>
      /\ sends => mails' = mails \cup {e} /\ DOMAIN sent' = DOMAIN sent \cup {SendKey(l)}
      /\ \/ run' = [run EXCEPT ![l] = q] /\ outcome = "ok" /\ (known \/ r.draft # NoId)
         \/ run' = [run EXCEPT ![l] = Raised(r, "fatal")]
         \/ run' = [run EXCEPT ![l] = Raised(r, outcome)]
  BY DEF SendWelcome
<1>2. Own(l, r, contacts, drafts, deadlines)
  BY DEF IInv, Runs
<1>3. r.approved
  BY <1>1, <1>2 DEF Own, Drafted
<1>4. Growth /\ \A p : AddedContacts(l, p) /\ AddedMatters(l, p)
  BY <1>1, NoGrowth
<1>5. e[1] = l /\ e[2] = r.draft
  OBVIOUS
<1> HIDE DEF e
<1>6. ASSUME NEW o, run' = [run EXCEPT ![l] = Raised(r, o)]
      PROVE  IInv'
  <2>1. CASE ~sends
    BY <1>1, <1>6, <2>1, PureFailure
  <2>2. CASE sends
    <3>1. Same(Raised(r, o), r) /\ Raised(r, o).pc \in Mailing
      BY <1>1, <1>2, RaisedFields DEF Own, Mailing
    <3>2. Stored' /\ Runs' /\ Records'
      BY <1>1, <1>4, <1>6, FailStep
    <3>3. Posted'
      BY <1>1, <1>3, <1>5, <1>6, <2>2, <3>1, FirstMail DEF Same
    <3>4. QED
      BY <3>2, <3>3 DEF IInv
  <2>3. QED
    BY <2>1, <2>2
<1>7. ASSUME run' = [run EXCEPT ![l] = q], outcome = "ok", known \/ r.draft # NoId
      PROVE  IInv'
  <2>1. Same(q, r) /\ q.pc = "succeeded"
    BY <1>2, DoneFields DEF Own
  <2> HIDE DEF q
  <2>2. Searched(q, contacts) /\ Matched(l, q, contacts)
    BY <1>2, <2>1 DEF Own, Searched, Matched, Same, Undecided
  <2>3. Drafted(q, drafts) /\ Complete(l, q, deadlines)
    BY <1>1, <1>2, <2>1 DEF Own, Drafted, Complete, Same, Undrafted, Undecided, Typed, Scheduled
  <2>4. Own(l, q, contacts', drafts', deadlines')
    BY <1>1, <2>1, <2>2, <2>3 DEF Own, Same
  <2>5. Stored' /\ Runs' /\ Records'
    BY <1>4, <1>7, <2>1, <2>4, StepInv DEF Same
  <2>6. CASE known
    <3>1. \E m \in mails : m[1] = l
      BY <2>6 DEF IInv, Posted
    <3>2. UNCHANGED <<mails, sent>>
      BY <1>1, <2>6
    <3>3. Posted'
      BY <1>7, <2>1, <3>1, <3>2, NoMail DEF Same, Mailing
    <3>4. QED
      BY <2>5, <3>3 DEF IInv
  <2>7. CASE ~known
    <3>1. sends
      BY <1>7, <2>7 DEF HasEffect
    <3>2. Posted'
      BY <1>1, <1>3, <1>5, <1>7, <2>1, <3>1, FirstMail DEF Same, Mailing
    <3>3. QED
      BY <2>5, <3>2 DEF IInv
  <2>8. QED
    BY <2>6, <2>7
<1>8. QED
  BY <1>1, <1>6, <1>7

-----------------------------------------------------------------------------
(* The theorems *)

LEMMA InitInv ==
  ASSUME Init
  PROVE  IInv
<1>1. Stored
  <2>1. IsSeq(contacts)
    BY DEF Init, IsSeq
  <2>2. IsSeq(matters) /\ IsSeq(drafts)
    <3>1. <<>> \in Seq(STRING)
      OBVIOUS
    <3>2. QED
      BY <3>1 DEF Init, IsSeq
  <2>3. QED
    BY <2>1, <2>2 DEF Stored
<1>2. /\ DOMAIN NewRun = RunFields /\ NewRun.pc = "new" /\ NewRun.searched = 0
      /\ NewRun.decision = None /\ NewRun.contact = NoId /\ NewRun.draft = NoId
  BY DEF NewRun, RunFields, NoId
<1>3. Runs
  <2>1. Len(contacts) \in Nat
    BY SameGrows, <1>1 DEF Stored, Grows
  <2>2. ASSUME NEW l \in Leads
        PROVE  Own(l, NewRun, contacts, drafts, deadlines)
    <3>1. Searched(NewRun, contacts)
      BY <1>2, <2>1 DEF Searched, None
    <3>2. QED
      BY <1>2, <3>1 DEF Own, Matched, Drafted, Complete, Typed, Scheduled
  <2>3. QED
    BY <2>2 DEF Runs, Init
<1>4. Records
  <2>1. matters = <<>> /\ contacts = Known
    BY DEF Init
  <2>2. DOMAIN matters = {}
    BY <2>1
  <2>3. QED
    BY <2>1, <2>2 DEF Records
<1>5. Posted
  <2>1. mails = {} /\ DOMAIN sent = {} /\ \A l \in Leads : run[l].pc = "new"
    BY <1>2 DEF Init
  <2>2. QED
    BY <2>1 DEF Posted
<1>6. QED
  BY <1>1, <1>3, <1>4, <1>5 DEF IInv

LEMMA NextInv ==
  ASSUME IInv, [Next]_vars
  PROVE  IInv'
<1>1. CASE UNCHANGED vars
  BY <1>1 DEF vars, IInv, Stored, Runs, Records, Posted, SendKey, IsSeq, Own, Searched, Matched,
              Drafted, Complete, Made, Opened, Agrees
<1>2. CASE Next
  <2>1. PICK l \in Leads :
          \/ \E lead \in Payloads : Submit(l, lead)
          \/ ParseLead(l)
          \/ \E raises \in BOOLEAN : FindByEmail(l, raises) \/ FindByName(l, raises)
          \/ \E outcome \in Outcomes :
               \/ CreateContact(l, outcome)
               \/ CreateMatter(l, outcome)
               \/ \E n \in RuleCounts : ComputeDeadlines(l, n, outcome)
               \/ DraftWelcome(l, outcome)
               \/ SendWelcome(l, outcome)
          \/ OpenTasks(l)
          \/ \E approve \in BOOLEAN : Review(l, approve)
    BY <1>2 DEF Next
  <2>2. QED
    BY <2>1, SubmitInv, ParseLeadInv, FindByEmailInv, FindByNameInv, CreateContactInv,
       CreateMatterInv, ComputeDeadlinesInv, OpenTasksInv, DraftWelcomeInv, ReviewInv,
       SendWelcomeInv
<1>3. QED
  BY <1>1, <1>2

LEMMA Inductive == Spec => []IInv
<1>1. Init => IInv
  BY InitInv
<1>2. IInv /\ [Next]_vars => IInv'
  BY NextInv
<1>3. QED
  BY <1>1, <1>2, PTL DEF Spec

(* No matter is opened for a client the lead has nothing in common with:    *)
(* create_matter takes the contact the run made or one dedupe_contact found *)
(* by an identifier, whatever other runs do to the CRM in between.          *)
THEOREM ClientSafety == Spec => []RightClient
<1>1. IInv => RightClient
  BY DEF IInv, Records, RightClient, Agrees
<1>2. QED
  BY <1>1, Inductive, PTL

(* create_contact makes a second contact of a known email only after a      *)
(* search that raised, that was over before the first contact came, or that *)
(* found several.                                                           *)
THEOREM DuplicateSafety == Spec => []NoNeedlessDuplicate
<1>1. ASSUME IInv PROVE NoNeedlessDuplicate
  <2>1. SUFFICES ASSUME NEW i \in DOMAIN contacts, NEW j \in DOMAIN contacts, i < j,
                        contacts[i].email # None, contacts[i].email = contacts[j].email,
                        contacts[j].run \in Leads, ~run[contacts[j].run].raised,
                        run[contacts[j].run].decision # "ambiguous",
                        ~(i > run[contacts[j].run].searched)
                 PROVE  FALSE
    BY DEF NoNeedlessDuplicate
  <2> DEFINE r == run[contacts[j].run]
  <2>2. Made(j, contacts[j].run, contacts, r)
    BY <1>1, <2>1 DEF IInv, Records
  <2>3. Own(contacts[j].run, r, contacts, drafts, deadlines)
    BY <1>1, <2>1 DEF IInv, Runs
  <2>4. DOMAIN contacts = 1..Len(contacts) /\ Len(contacts) \in Nat
    BY <1>1, SameGrows DEF IInv, Stored, Grows
  <2>5. r.searched \in 0..Len(contacts) /\ i \in 1..r.searched
    BY <2>1, <2>3, <2>4 DEF Own, Searched
  <2>6. r.decision = "new_contact" /\ r.lead.email = contacts[j].email
    BY <2>1, <2>2 DEF Made
  <2>7. contacts[i].email # r.lead.email
    BY <2>1, <2>3, <2>5, <2>6 DEF Own, Searched
  <2>8. QED
    BY <2>1, <2>6, <2>7
<1>2. QED
  BY <1>1, Inductive, PTL

(* send_welcome sends one message per run, after the approval, from a draft *)
(* for the client and the matter of the run, however often the engine       *)
(* repeats the step after a lost answer.                                    *)
THEOREM WelcomeSafety == Spec => []WelcomeOnce
<1>1. ASSUME IInv PROVE WelcomeOnce
  <2>1. \A m \in mails : /\ m[1] \in Leads /\ run[m[1]].approved
                         /\ m[2] = run[m[1]].draft /\ m[2] # NoId
    BY <1>1 DEF IInv, Posted
  <2>2. \A l \in Leads : Drafted(run[l], drafts)
    BY <1>1 DEF IInv, Runs, Own
  <2>3. \A m \in mails : /\ drafts[m[2]].to = run[m[1]].contact
                         /\ drafts[m[2]].matter = run[m[1]].matter
    BY <2>1, <2>2 DEF Drafted
  <2>4. QED
    BY <1>1, <2>1, <2>3 DEF WelcomeOnce, IInv, Posted
<1>2. QED
  BY <1>1, Inductive, PTL

(* No run is past compute_deadlines without a record for every registered   *)
(* rule of its case type, however often the step failed half-way.           *)
THEOREM DeadlineSafety == Spec => []DeadlinesComplete
<1>1. IInv => DeadlinesComplete
  BY DEF IInv, Runs, Own, Complete, Scheduled, DeadlinesComplete
<1>2. QED
  BY <1>1, Inductive, PTL
=============================================================================
