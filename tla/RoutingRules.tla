---------------------------- MODULE RoutingRules ----------------------------
(***************************************************************************)
(* What document routing decides before it touches the store, as functions *)
(* of the document, the matter and the configuration: classifier.py,       *)
(* namer.py (Resolver), acl_builder.py and privilege_gate.py.              *)
(* Confidences are percentages.  The hints of a document are the keywords  *)
(* its lower-cased name contains.                                          *)
(***************************************************************************)
EXTENDS Integers, Sequences, FiniteSets

\* DOCUMENT_CLASSES: the classifier accepts only these.
DocumentClasses ==
    {"engagement_letter", "court_filing", "id_document", "correspondence",
     "internal_memo", "form_filing", "unknown"}

Unknown == "unknown"

Classified(class, confidence, source) ==
    [class |-> class, confidence |-> confidence, source |-> source]

\* The first rule of the configuration one of whose hints is in the name.
MatchingRules(doc, rules) ==
    {i \in DOMAIN rules : /\ rules[i].class \in DocumentClasses
                          /\ rules[i].hints \cap doc.hints # {}}

\* The extraction fields that could name the class: the loop keeps the first
\* field with the greatest positive confidence.
BestFields(fields) ==
    {i \in DOMAIN fields :
       /\ fields[i].value \in DocumentClasses
       /\ fields[i].confidence > 0
       /\ \A j \in DOMAIN fields : fields[j].value \in DocumentClasses =>
            \/ fields[j].confidence < fields[i].confidence
            \/ fields[j].confidence = fields[i].confidence /\ i <= j}

First(S) == CHOOSE i \in S : \A j \in S : i <= j

\* Classifier.classify
Classify(doc, fields, rules, threshold) ==
    CASE doc.classification \in DocumentClasses -> Classified(doc.classification, 100, "rule")
      [] doc.classification \notin DocumentClasses /\ MatchingRules(doc, rules) # {} ->
           Classified(rules[First(MatchingRules(doc, rules))].class, 90, "rule")
      [] /\ doc.classification \notin DocumentClasses
         /\ MatchingRules(doc, rules) = {}
         /\ \E i \in BestFields(fields) : fields[i].confidence >= threshold ->
           Classified(fields[First(BestFields(fields))].value,
                      fields[First(BestFields(fields))].confidence, "extraction")
      [] OTHER -> Classified(Unknown, 0, "fallback")

ReviewQueue == [kind |-> "review_queue", folder |-> ""]

\* Resolver.resolve: the folders are the classes the configuration maps.
Resolve(class, folders, forceReview) ==
    IF forceReview \/ class = Unknown \/ class \notin folders
    THEN ReviewQueue
    ELSE [kind |-> "folder", folder |-> class]

\* route(): an unknown class or a confidence below the threshold is reviewed.
Destination(c, folders, forceReview, threshold) ==
    Resolve(c.class, folders, forceReview \/ c.class = Unknown \/ c.confidence < threshold)

\* AclBuilder.build: the principals of the matter, narrowed by the policy of
\* the class if it has one.
BuildAcl(allowed, policy) == IF policy # {} THEN allowed \cap policy ELSE allowed

\* A folder is internal filing; only a recipient makes a route external.
DestinationIsExternal == FALSE

\* Mutant: only the destination decides whether a route is external.
PrivilegeGateFolder(privileged, recipients, claim) ==
    IF DestinationIsExternal /\ privileged THEN "fail" ELSE "pass"

\* PrivilegeGate.check: the strictest of the three signals counts.
PrivilegeGate(privileged, recipients, claim) ==
    IF (claim \/ DestinationIsExternal \/ recipients # {}) /\ privileged THEN "fail" ELSE "pass"
=============================================================================
