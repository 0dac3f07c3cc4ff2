------------------------------ MODULE MCIntake ------------------------------
(***************************************************************************)
(* The intake workflow and the read-only services on small instances.  The *)
(* two share no state: in every behaviour only one of them leaves its      *)
(* initial state.                                                          *)
(***************************************************************************)
EXTENDS Intake, MCServices, TLC

MCInit == Init /\ ServicesInit

MCNext == \/ ServicesInit /\ Next /\ UNCHANGED servicesVars
          \/ Init /\ ServicesNext /\ UNCHANGED vars

MCSpec == MCInit /\ [][MCNext]_<<vars, servicesVars>>

-----------------------------------------------------------------------------

Lead(key, name, email, anum, ctype, valid) ==
    [key |-> key, name |-> name, email |-> email, anum |-> anum, ctype |-> ctype, valid |-> valid]

\* Two leads of one person, one without an email whose A-number is known, one
\* whose email and name belong to different contacts, one that does not parse.
MCPayloads ==
    {Lead("k1", "ann", "ann@x", None, "family", TRUE),
     Lead("k2", "ann", "ann@x", None, None, TRUE),
     Lead("k3", "bob", None, "a1", "other", TRUE),
     Lead("k4", "bob", "new@x", None, None, TRUE),
     Lead("k5", None, None, None, None, FALSE)}
MCKnown == <<[name |-> "anna", email |-> "joann@x", anum |-> None, run |-> None],
             [name |-> "bob", email |-> "bob@x", anum |-> "a1", run |-> None]>>
MCContains == {<<"ann", "anna">>, <<"ann@x", "joann@x">>, <<"ann", "ann@x">>, <<"ann", "joann@x">>,
               <<"bob", "bob@x">>}
MCRequired == [family |-> {"name", "email"}, default |-> {"name", "email"}]
MCDeadlineRules == [family |-> <<"r1", "r2">>, default |-> <<"r3">>]
Symmetry == Permutations(Leads)
=============================================================================
