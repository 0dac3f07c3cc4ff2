------------------------------ MODULE Services ------------------------------
(***************************************************************************)
(* The three read-only services - deadline.compute, qc.verify and          *)
(* document.extract.  They share no state and change none but the rule     *)
(* registry, so each behaviour loads some rules and asks one of them one   *)
(* question; the invariants compare the answer with what it should have    *)
(* been.                                                                   *)
(***************************************************************************)
EXTENDS DueDates, Qc, Extraction

servicesVars == <<dueVars, qcVars, exVars>>

ServicesInit == DueInit /\ QcInit /\ ExInit

Unasked == trace = NoTrace /\ report = NoReport /\ proposal = NoProposal

ServicesNext ==
    /\ Unasked
    /\ \/ (\E r \in RuleTexts : Load(r)) /\ UNCHANGED <<qcVars, exVars>>
       \/ (\E r \in PackRules : \E v \in VersionsOf(r) : RegisterRule(r, v)) /\ UNCHANGED <<qcVars, exVars>>
       \/ (\E id \in RuleIds, j \in Jurisdictions : Compute(id, j)) /\ UNCHANGED <<qcVars, exVars>>
       \/ loads = 0 /\ Verify /\ UNCHANGED <<dueVars, exVars>>
       \/ loads = 0 /\ Extract /\ UNCHANGED <<dueVars, qcVars>>

ServicesSpec == ServicesInit /\ [][ServicesNext]_servicesVars

=============================================================================
