---------------------------- MODULE DocumentGen ----------------------------
(***************************************************************************)
(* document.generate (workflows/document_gen/tools.py): load the template, *)
(* resolve the variables, look for an earlier result under the idempotency *)
(* key, render, run QC, allocate a version, put, record.  The task gives   *)
(* up the event loop in QC and in put; everything between is one step.     *)
(*                                                                         *)
(* A context stands for the resolved variables of a call; GapContexts are  *)
(* the ones in which a required variable is missing, empty or invalid.     *)
(* The content rendered is determined by the bytes of the template and the *)
(* context; the key is derived from the version of the template, not from  *)
(* its bytes, and a version may be registered again with other bytes.  An  *)
(* error of the audit sink is swallowed by _write_audit.                   *)
(***************************************************************************)
EXTENDS DocStore, Sequences

CONSTANTS
    Gens,           \* calls of document.generate
    Contexts,       \* resolved contexts
    GapContexts,    \* contexts with gaps
    OverrideKeys,   \* explicit idempotency keys
    NoOverride,
    TemplateName,   \* the template, and its classification
    Bytes,          \* contents a version of the template may have
    Versions,       \* bound: version numbers it is registered under
    MaxTemplates    \* bound: pairs of version and bytes registered

VARIABLES
    template,   \* latest TemplateSpec in the TemplateStore; version 0 = none
    registered, \* history: the pairs of version and bytes ever registered
    versions,   \* InMemoryVersionLedger._versions, per matter
    idem,       \* _idem and _idem_checksums: key -> [doc, checksum]
    gen         \* per call: where it is, and its result

genVars == <<template, registered, versions, idem, gen>>

NoDoc == 0

\* Of a call, spec is the template version it loaded, and sum the checksum it
\* would store: what it was asked for.
Content(bytes, context) == <<bytes, context>>

NewGen == [pc |-> "idle", matter |-> "", context |-> "", spec |-> 0, key |-> <<>>, sum |-> <<>>,
           privileged |-> TRUE, version |-> 0, status |-> "", doc |-> NoDoc]

\* Mutant: the key forgets the version of the template.
UnversionedKey(override, version, context) ==
    IF override = NoOverride THEN <<TemplateName, 1, context>> ELSE <<override>>

\* An explicit key, or template name, version and canonical context.
IdemKey(override, version, context) ==
    IF override = NoOverride THEN <<TemplateName, version, context>> ELSE <<override>>

HasGaps(context) == context \in GapContexts

\* TemplateStore.register with its privileged_default: the caller names the
\* version, and one that exists is overwritten.  The store is kept as what
\* get() answers, its latest version.
Register(version, bytes, privileged) ==
    /\ template' = IF version < template.version THEN template
                   ELSE [version |-> version, bytes |-> bytes, privileged |-> privileged]
    /\ registered' = registered \cup {<<version, bytes>>}
    /\ Cardinality(registered') <= MaxTemplates
    /\ UNCHANGED <<versions, idem, gen, docs>>

\* _run_qc: the aggregate of completeness and consistency; an error is skipped.
Verdicts == {"pass", "warn", "fail", "skipped"}

\* _determine_status
Status(gaps, verdict) ==
    CASE gaps -> "incomplete"
      [] ~gaps /\ verdict = "fail" -> "blocked"
      [] ~gaps /\ verdict = "skipped" -> "incomplete"
      [] OTHER -> "ready"

\* The result; of the locals of the call the properties need what was asked.
Return(q, status, doc) ==
    [NewGen EXCEPT !.pc = "done", !.context = q.context, !.spec = q.spec, !.key = q.key,
                   !.sum = q.sum, !.status = status, !.doc = doc]

Fail == [NewGen EXCEPT !.pc = "done", !.status = "failed"]

\* Up to the first await.  A hit returns the stored document as ready; the
\* render may fail (docxtpl missing or a bad template).
Generate(g, matter, context, override) ==
    /\ gen[g].pc = "idle"
    /\ LET key == IdemKey(override, template.version, context)
           q   == [gen[g] EXCEPT !.matter = matter, !.context = context, !.spec = template.version,
                                 !.key = key, !.sum = Content(template.bytes, context),
                                 !.privileged = template.privileged]
       IN  gen' = [gen EXCEPT ![g] =
              CASE template.version = 0 -> Fail
                [] template.version # 0 /\ key \in DOMAIN idem -> Return(q, "ready", idem[key].doc)
                [] OTHER -> [q EXCEPT !.pc = "qc"]]
    /\ UNCHANGED <<template, registered, versions, idem, docs>>

RenderFails(g, context, override) ==
    /\ gen[g].pc = "idle"
    /\ template.version # 0
    /\ IdemKey(override, template.version, context) \notin DOMAIN idem
    /\ gen' = [gen EXCEPT ![g] = Fail]
    /\ UNCHANGED <<template, registered, versions, idem, docs>>

\* Mutant: the version is read from the documents stored so far.
NextVersionFromStore(matter) ==
    Cardinality({i \in DOMAIN docs : docs[i].matter = matter}) + 1

\* The version is taken from the ledger when QC is over.
NextVersion(matter) == versions[matter] + 1

\* QC answers (its errors count as skipped); store_document looks the key up
\* again and otherwise allocates the version before it awaits put.
Verified(g, verdict) ==
    /\ gen[g].pc = "qc"
    /\ LET q == [gen[g] EXCEPT !.status = Status(HasGaps(gen[g].context), verdict)]
       IN  IF q.key \in DOMAIN idem
           THEN /\ gen' = [gen EXCEPT ![g] = Return(q, q.status, idem[q.key].doc)]
                /\ UNCHANGED versions
           ELSE /\ gen' = [gen EXCEPT ![g] = [q EXCEPT !.pc = "put", !.version = NextVersion(q.matter)]]
                /\ versions' = [versions EXCEPT ![q.matter] = NextVersion(q.matter)]
    /\ UNCHANGED <<template, registered, idem, docs>>

NewDoc(q) ==
    [matter |-> q.matter, series |-> TemplateName, version |-> q.version, checksum |-> q.sum,
     privileged |-> q.privileged, classification |-> TemplateName, folder |-> Unfiled,
     places |-> {}, shared |-> {}, acl |-> {}]

\* record_idem after a put that returned, unless the key holds other content.
Recorded(q, outcome) ==
    /\ outcome = "ok"
    /\ q.key \notin DOMAIN idem \/ idem[q.key].checksum = q.sum

\* The put and record_idem.  A step of another call that falls between the two
\* reads neither the new document, whose id nobody has, nor the new entry of the
\* ledger: it could as well come first, so the two are one step.
Store(g, outcome) ==
    /\ gen[g].pc = "put"
    /\ LET q == gen[g]
       IN  /\ Put(NewDoc(q), outcome)
           /\ idem' = IF Recorded(q, outcome)
                      THEN [k \in DOMAIN idem \cup {q.key} |->
                              IF k = q.key THEN [doc |-> NewId, checksum |-> q.sum] ELSE idem[k]]
                      ELSE idem
           /\ gen' = [gen EXCEPT ![g] =
                        IF Recorded(q, outcome)
                        THEN Return(q, q.status, NewId)
                        ELSE Fail]
    /\ UNCHANGED <<template, registered, versions>>

GenInit ==
    /\ template = [version |-> 0, bytes |-> "", privileged |-> TRUE]
    /\ registered = {}
    /\ versions = [m \in Matters |-> 0]
    /\ idem = [k \in {} |-> {}]
    /\ gen = [g \in Gens |-> NewGen]

GenNext ==
    \/ \E v \in Versions, b \in Bytes, privileged \in BOOLEAN : Register(v, b, privileged)
    \/ \E g \in Gens :
         \/ \E m \in Matters, c \in Contexts, o \in OverrideKeys \cup {NoOverride} :
              Generate(g, m, c, o) \/ RenderFails(g, c, o)
         \/ \E v \in Verdicts : Verified(g, v)
         \/ \E outcome \in Outcomes : Store(g, outcome)

-----------------------------------------------------------------------------
(* Properties *)

\* Versions are never given twice: two documents of one matter, template and
\* doc_key (the model has one template and the default doc_key, the name of the
\* template) differ in their version, however their generations overlap and fail.
VersionsDistinct ==
    \A i, j \in DOMAIN docs :
      (i # j /\ docs[i].matter = docs[j].matter) => docs[i].version # docs[j].version

\* A version that was registered with other bytes later.
Overwritten(version) ==
    \E a, b \in registered : a[1] = version /\ b[1] = version /\ a # b

Answered(q) ==
    (q.doc # NoDoc /\ Len(q.key) = 3) =>
      LET got == docs[q.doc].checksum
      IN  /\ got[2] = q.context
          /\ <<q.spec, got[1]>> \in registered
          /\ Overwritten(q.spec) \/ got = q.sum

\* Without an explicit key a generation returns its own context filled into
\* bytes that were registered as the template version it loaded: exactly the
\* bytes it loaded, unless that version was overwritten, when the document of an
\* earlier call under the same key may have the older ones.  And the ledger
\* never points at a document the store does not hold, or at one with other
\* bytes than the checksum it keeps to recognise collisions.
ContentAsAsked ==
    /\ \A g \in Gens : Answered(gen[g])
    /\ \A k \in DOMAIN idem :
         idem[k].doc \in DOMAIN docs /\ docs[idem[k].doc].checksum = idem[k].checksum
=============================================================================
