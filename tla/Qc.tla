--------------------------------- MODULE Qc ---------------------------------
(***************************************************************************)
(* qc.verify: the check registry and its seven checks                      *)
(* (core/services/qc).  A packet is reduced to what the checks look at; a  *)
(* check that raises, or that its thread does not finish in time, is in    *)
(* the set broken of the call.                                             *)
(***************************************************************************)
EXTENDS Integers, FiniteSets

CONSTANTS Packets,     \* the packets a caller may hand in
          Requests,    \* the sets of check ids it may ask for
          Breakages    \* the sets of checks that may raise or time out

VARIABLE report

qcVars == <<report>>

NoReport == [aggregate |-> "none"]

Checks == {"attachment_integrity", "completeness", "extraction_confidence",
           "consistency", "deadline_sanity", "privilege", "recipient_integrity"}

\* The request of a caller that names no checks: everything applicable.
Everything == {"all"}

\* applies_to; None stands for every kind of packet.
AppliesTo(c, kind) ==
    c = "recipient_integrity" => kind \in {"email_send", "document_route"}

Applicable(kind) == {c \in Checks : AppliesTo(c, kind)}

-----------------------------------------------------------------------------
\* The checks.  Each answers with its worst finding, or is skipped when the
\* packet has nothing for it to look at.

Worst(failed, warned) ==
    IF failed THEN "fail" ELSE IF warned THEN "warn" ELSE "pass"

\* Each attachment reference is the state of the document it names.
Attachment(p) ==
    IF p.attachments = {} THEN "skipped"
    ELSE Worst(p.attachments \cap {"missing", "checksum", "older"} # {},
               "newer" \in p.attachments)

Completeness(p) ==
    IF p.bindings = {} THEN "skipped"
    ELSE Worst("unresolved" \in p.bindings \/ ~p.matterComplete \/ ~p.hasClient, FALSE)

Confidence(p) ==
    IF p.confidences = {} THEN "skipped"
    ELSE Worst(\E x \in p.confidences : x < p.cfg.failFloor,
               \E x \in p.confidences : x < p.cfg.warnThreshold)

\* Names are compared only when the matter has a client.
Consistency(p) ==
    Worst(\/ \E d \in p.documents : ~d.sameMatter
          \/ p.hasClient /\ "different" \in p.names,
          p.hasClient /\ "near" \in p.names)

Deadline(p) ==
    IF p.dueIn = {} THEN "skipped"
    ELSE Worst(\E d \in p.dueIn : d < 0 \/ d > p.cfg.horizon,
               \E d \in p.dueIn : d <= p.cfg.tightWindow)

Participants(p) == IF p.hasClient THEN {"client"} ELSE {}

UnknownRecipient(p) == \E r \in p.recipients : r.id \notin Participants(p)

\* Mutant: the caller's claim is taken for what it is.
EffectiveExternalClaim(p) == p.externalBound

EffectiveExternal(p) == p.externalBound \/ UnknownRecipient(p)

Privilege(p) ==
    Worst(/\ \E d \in p.documents : d.restricted
          /\ EffectiveExternal(p) \/ p.extraBlock, FALSE)

Recipient(p) ==
    IF p.recipients = {} THEN "fail"
    ELSE Worst(UnknownRecipient(p), \E r \in p.recipients : ~r.expectedRole)

Emitted(c, p) ==
    CASE c = "attachment_integrity"  -> Attachment(p)
      [] c = "completeness"          -> Completeness(p)
      [] c = "extraction_confidence" -> Confidence(p)
      [] c = "consistency"           -> Consistency(p)
      [] c = "deadline_sanity"       -> Deadline(p)
      [] c = "privilege"             -> Privilege(p)
      [] c = "recipient_integrity"   -> Recipient(p)

-----------------------------------------------------------------------------
\* registry.py

Allowed(c) == {"pass", "fail"} \cup (IF c = "privilege" THEN {} ELSE {"warn"})

\* An error or a verdict outside the check's policy counts as a failure.
Verdict(c, p, broken) ==
    IF c \in broken \/ Emitted(c, p) \notin Allowed(c) \cup {"skipped"}
    THEN "fail" ELSE Emitted(c, p)

Aggregate(verdicts) ==
    IF "fail" \in verdicts THEN "block"
    ELSE IF "warn" \in verdicts THEN "pass_with_warnings"
    ELSE "pass"

Selected(p, requested) ==
    IF requested = Everything THEN Applicable(p.kind)
    ELSE requested \cap Applicable(p.kind)

\* Why a check has no verdict of its own.
Skipped(p, requested, broken) ==
    {c \in Selected(p, requested) : Verdict(c, p, broken) = "skipped"}
    \cup (IF requested = Everything THEN {} ELSE requested \ Applicable(p.kind))

RunChecks(p, requested, broken) ==
    LET selected == Selected(p, requested)
        results  == [c \in selected |-> Verdict(c, p, broken)]
    IN  [packet |-> p, requested |-> requested, broken |-> broken,
         results |-> results, skipped |-> Skipped(p, requested, broken),
         aggregate |-> Aggregate({results[c] : c \in selected})]

QcInit == report = NoReport

\* qc.verify.  The audit record and the copy on the run come after the
\* report and cannot change it; failures of either are swallowed.
Verify ==
    \E p \in Packets, requested \in Requests, broken \in Breakages :
        report' = RunChecks(p, requested, broken)

-----------------------------------------------------------------------------
\* The packet would take a restricted document to someone who is not its
\* client: read off the packet, not from the check.
WouldDisclose(p) ==
    /\ \E d \in p.documents : d.restricted
    /\ p.externalBound \/ \E r \in p.recipients : r.id # "client" \/ ~p.hasClient

Rank(a) == CASE a = "pass" -> 0 [] a = "pass_with_warnings" -> 1 [] a = "block" -> 2

(***************************************************************************)
(* QcFailClosed: whatever else is wrong with the packet or the checks, a   *)
(* packet that would disclose a restricted document is blocked when the    *)
(* privilege check was asked for; a selected check that raises or times    *)
(* out blocks; every check asked for has a verdict or is reported skipped; *)
(* and asking for one more check that breaks never makes the answer milder *)
(* (registry.py, privilege.py).  A caller that asks for no check at all    *)
(* gets a pass.                                                            *)
(***************************************************************************)
QcFailClosed ==
    report # NoReport =>
        LET p == report.packet
            asked == IF report.requested = Everything THEN Checks ELSE report.requested
        IN  /\ "privilege" \in asked /\ WouldDisclose(p) => report.aggregate = "block"
            /\ asked \cap Applicable(p.kind) \cap report.broken # {} => report.aggregate = "block"
            /\ asked \cap Applicable(p.kind) \subseteq DOMAIN report.results
            /\ report.requested # Everything =>
                   report.requested \subseteq DOMAIN report.results \cup report.skipped
            /\ \A c \in Checks :
                   Rank(RunChecks(p, asked \cup {c}, report.broken \cup {c}).aggregate)
                       >= Rank(report.aggregate)

=============================================================================
