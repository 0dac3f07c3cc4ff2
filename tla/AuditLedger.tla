---------------------------- MODULE AuditLedger ----------------------------
(***************************************************************************)
(* What the unit of work promises (core/audit/service.py, uow.py): an      *)
(* action and the audit entries about it, if it made any, become visible   *)
(* in one step, and no entry ever goes away again.                         *)
(***************************************************************************)
CONSTANTS Units     \* units of work

VARIABLES
    effects,    \* units whose changes are visible
    entries,    \* visible audit entries: <<unit, id>>
    data        \* the tables

ledgerVars == <<effects, entries, data>>

LedgerInit == effects = {} /\ entries = {}

\* A unit of work, whatever it does to the tables, becomes visible together
\* with the entries about it.
Record(u) ==
    /\ u \notin effects
    /\ effects' = effects \cup {u}
    /\ entries \subseteq entries'
    /\ \A e \in entries' \ entries : e[1] = u

LedgerNext == \E u \in Units : Record(u)

LedgerSpec == LedgerInit /\ [][LedgerNext]_ledgerVars
=============================================================================
