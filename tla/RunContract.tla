----------------------------- MODULE RunContract -----------------------------
(***************************************************************************)
(* What a workflow run promises to the people who wait for it              *)
(* (core/orchestrator/engine.py, gates.py), with no workers, locks, rows   *)
(* or tokens: its steps get done one after the other in declaration order, *)
(* a gate being done when an authorized actor approves it; and the run     *)
(* ends at most once, succeeded with everything done or rejected because   *)
(* an authorized actor refused a gate that had been reached.               *)
(***************************************************************************)
EXTENDS Integers

CONSTANTS Steps, GateSteps

VARIABLES
    done,       \* steps that had their effect, gates that were approved
    refused,    \* gates that were rejected
    outcome     \* open, succeeded or rejected

contractVars == <<done, refused, outcome>>

ContractInit == done = {} /\ refused = {} /\ outcome = "open"

\* Everything before step i is done.
Reached(i) == \A j \in Steps : j < i => j \in done

Complete(i) ==
    /\ i \notin done
    /\ Reached(i)
    /\ done' = done \cup {i}
    /\ UNCHANGED <<refused, outcome>>

Refuse(i) ==
    /\ i \in GateSteps
    /\ i \notin refused
    /\ Reached(i)
    /\ refused' = refused \cup {i}
    /\ UNCHANGED <<done, outcome>>

Succeed ==
    /\ outcome = "open"
    /\ done = Steps
    /\ outcome' = "succeeded"
    /\ UNCHANGED <<done, refused>>

Reject ==
    /\ outcome = "open"
    /\ refused # {}
    /\ outcome' = "rejected"
    /\ UNCHANGED <<done, refused>>

ContractNext == (\E i \in Steps : Complete(i) \/ Refuse(i)) \/ Succeed \/ Reject

ContractSpec == ContractInit /\ [][ContractNext]_contractVars
=============================================================================
