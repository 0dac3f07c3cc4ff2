----------------------------- MODULE AuditChain -----------------------------
(***************************************************************************)
(* Units of work that change a row and record it in the hash-chained audit *)
(* log (core/audit/service.py, AuditRepository, uow.py).  A unit makes a   *)
(* repository call (update and delete read the row in a step before), then *)
(* may read the latest audit row it can see and append, perhaps again, and *)
(* commits, with or without a record; at any await it may fail and roll    *)
(* back.  Other units run between its awaits.  Ids come from a sequence    *)
(* that is not rolled back.  A hash is the pair it was computed from.      *)
(* Nothing under src calls record() yet: its units are the ones uow.py and *)
(* service.py describe, and one that only records is here one whose call   *)
(* issued no statement.                                                    *)
(***************************************************************************)
EXTENDS Persistence, FiniteSetsExt, Sequences

CONSTANTS
    Units,      \* units of work
    Given,      \* the values they write
    Present,    \* rows that were there before the first unit,
    First,      \* and their value
    MaxRecords  \* bound: audit records per unit

\* The rows that were there satisfy the foreign keys.
ASSUME UnitsAssumption ==
    /\ IsFiniteSet(Units)
    /\ MaxRecords \in Nat
    /\ First \in Values /\ Given \subseteq Values
    /\ Present \subseteq Kinds
    /\ \A k \in Present : ParentOf(k) \in Present \cup {None}

VARIABLES
    log,    \* committed rows of audit_log, by id
    seq,    \* the id sequence
    unit,   \* per unit of work: its transaction
    overlap,\* history: two units were under way between read and commit
    silent  \* history: the tables changed by units that recorded nothing

vars == <<rows, log, seq, unit, overlap, silent>>

\* The hash before the first row.
Genesis == <<>>

\* _compute_hash over the previous hash and the record's other fields.
ComputeHash(prev, body) == <<prev, body>>

NewUnit == [pc |-> "idle", op |-> NoOp, prev |-> Genesis, pending |-> [i \in {} |-> {}]]

Init ==
    /\ rows = [k \in Kinds |-> IF k \in Present THEN [parent |-> ParentOf(k), value |-> First] ELSE Absent]
    /\ log = [i \in {} |-> {}]
    /\ seq = 0
    /\ unit = [u \in Units |-> NewUnit]
    /\ overlap = FALSE
    /\ silent = {}

\* The unit has made its call and holds its locks.
Active(u) == unit[u].pc \in {"staged", "read", "recorded"}

\* update() and delete() read the row; the attributes that update sets are
\* compared with what it read.  Without a row update raises.
Load(u, op) ==
    /\ unit[u].pc = "idle"
    /\ unit' = [unit EXCEPT ![u] =
                  IF op.call = "update" => Exists(op.kind)
                  THEN [NewUnit EXCEPT !.pc = "loaded", !.op = op]
                  ELSE [NewUnit EXCEPT !.pc = "failed"]]
    /\ UNCHANGED <<rows, log, seq, overlap, silent>>

\* The flush, when no other transaction holds a lock it needs.  A call that
\* raises leaves the context manager, which rolls back.
Stage(u, op) ==
    /\ \A v \in Units \ {u} : Active(v) => ~Conflicts(unit[v].op, op)
    /\ unit' = [unit EXCEPT ![u] =
                  IF Accepted(op) THEN [NewUnit EXCEPT !.pc = "staged", !.op = op]
                  ELSE [NewUnit EXCEPT !.pc = "failed"]]
    /\ UNCHANGED <<rows, log, seq, overlap, silent>>

\* add reads nothing: one step.
Insert(u, k, value) == unit[u].pc = "idle" /\ Stage(u, Add(k, value))
Flush(u) == unit[u].pc = "loaded" /\ Stage(u, Issued(unit[u].op))

\* Mutant: uncommitted rows of other transactions are read too.
DirtyVisible(u) ==
    [i \in DOMAIN log \cup UNION {DOMAIN unit[v].pending : v \in Units} |->
       IF i \in DOMAIN log THEN log[i]
       ELSE unit[CHOOSE v \in Units : i \in DOMAIN unit[v].pending].pending[i]]

\* What a statement of the transaction sees: committed rows and its own.
Visible(u) ==
    [i \in DOMAIN log \cup DOMAIN unit[u].pending |->
       IF i \in DOMAIN log THEN log[i] ELSE unit[u].pending[i]]

\* Mutant: the rows are ordered the other way round.
OldestId(table) == Min(DOMAIN table)

\* get_latest orders by id descending.
LatestId(table) == Max(DOMAIN table)

\* record(): the hash of the latest row.
ReadLatest(u) ==
    /\ unit[u].pc \in {"staged", "recorded"}
    /\ Cardinality(DOMAIN unit[u].pending) < MaxRecords
    /\ LET table == Visible(u)
       IN  unit' = [unit EXCEPT ![u].pc = "read",
                                ![u].prev = IF DOMAIN table = {} THEN Genesis
                                            ELSE table[LatestId(table)].hash]
    /\ overlap' = (overlap \/ \E v \in Units \ {u} : unit[v].pc \in {"read", "recorded"})
    /\ UNCHANGED <<rows, log, seq, silent>>

\* record(): hash and append; the flush takes the id.
AppendRow(u) ==
    /\ unit[u].pc = "read"
    /\ LET body == [unit |-> u, op |-> unit[u].op, at |-> seq + 1]
           row  == [body |-> body, prev |-> unit[u].prev, hash |-> ComputeHash(unit[u].prev, body)]
       IN  unit' = [unit EXCEPT ![u].pc = "recorded",
                                ![u].pending = [i \in DOMAIN @ \cup {seq + 1} |->
                                                  IF i = seq + 1 THEN row ELSE @[i]]]
    /\ seq' = seq + 1
    /\ UNCHANGED <<rows, log, overlap, silent>>

\* Leaving unit_of_work(): the row and the records, if any, become visible
\* together.
Commit(u) ==
    /\ unit[u].pc \in {"staged", "recorded"}
    /\ rows' = Applied(unit[u].op)
    /\ log' = Visible(u)
    /\ unit' = [unit EXCEPT ![u] = [NewUnit EXCEPT !.pc = "done"]]
    /\ silent' = IF unit[u].pc = "staged" THEN silent \cup Writes(unit[u].op) ELSE silent
    /\ UNCHANGED <<seq, overlap>>

\* Mutant: the repository call had been committed on its own.
RollbackAuditOnly(u) ==
    /\ Active(u)
    /\ rows' = Applied(unit[u].op)
    /\ unit' = [unit EXCEPT ![u] = [NewUnit EXCEPT !.pc = "failed"]]
    /\ UNCHANGED <<log, seq, overlap, silent>>

\* An exception at any await, or the end of the process.
Rollback(u) ==
    /\ Active(u) \/ unit[u].pc = "loaded"
    /\ unit' = [unit EXCEPT ![u] = [NewUnit EXCEPT !.pc = "failed"]]
    /\ UNCHANGED <<rows, log, seq, overlap, silent>>

Next ==
    \E u \in Units :
      \/ \E k \in Kinds, value \in Given : Insert(u, k, value) \/ Load(u, Update(k, value))
      \/ \E k \in Kinds : Load(u, Delete(k))
      \/ Flush(u)
      \/ ReadLatest(u)
      \/ AppendRow(u)
      \/ Commit(u)
      \/ Rollback(u)

Spec == Init /\ [][Next]_vars

-----------------------------------------------------------------------------
(* verify() *)

\* get_range, and the row before i in it; the walk starts from Genesis.
InRange(table, from, to) == {i \in DOMAIN table : from <= i /\ i <= to}

ExpectedPrev(table, from, i) ==
    LET before == {j \in DOMAIN table : from <= j /\ j < i}
    IN  IF before = {} THEN Genesis ELSE table[Max(before)].hash

\* Mutant: only the row's own hash is recomputed.
OwnHashOk(table, from, i) == table[i].hash = ComputeHash(table[i].prev, table[i].body)

RowOk(table, from, i) ==
    /\ table[i].prev = ExpectedPrev(table, from, i)
    /\ table[i].hash = ComputeHash(table[i].prev, table[i].body)

\* first_bad_id; 0 when the range verifies.
FirstBad(table, from, to) ==
    LET bad == {i \in InRange(table, from, to) : ~RowOk(table, from, i)}
    IN  IF bad = {} THEN 0 ELSE Min(bad)

VerifyAll(table) == FirstBad(table, 1, seq)

-----------------------------------------------------------------------------
(* Properties *)

\* The shape of tables, log and transactions.  Only a communication may lose
\* its matter, and foreign keys hold at every commit, however deletions and
\* insertions overlap.
TypeOK ==
    /\ TablesOK
    /\ \A k \in Kinds : (Exists(k) /\ rows[k].parent # None) => Exists(rows[k].parent)
    /\ DOMAIN log \subseteq 1..seq
    /\ seq \in 0..(Cardinality(Units) * MaxRecords)
    /\ \A u \in Units : /\ unit[u].pc \in {"idle", "loaded", "staged", "read", "recorded", "done", "failed"}
                        /\ DOMAIN unit[u].pending \subseteq (1..seq) \ DOMAIN log

\* Chain order: each row continues Genesis or a committed row with a lower id,
\* so nothing hangs from a row that was rolled back.
ChainRooted ==
    \A i \in DOMAIN log :
      \/ log[i].prev = Genesis
      \/ \E j \in DOMAIN log : j < i /\ log[i].prev = log[j].hash

\* Units that recorded one after the other leave a log that verifies.
SerialVerifies == ~overlap => VerifyAll(log) = 0

\* Entries whose call changed the row of a table, and a column of it.
About(k) == {i \in DOMAIN log : log[i].body.op.kind = k /\ log[i].body.op.columns # {}}
Wrote(k, c) == {i \in About(k) : c \in log[i].body.op.columns}

\* The trail is in the order of the changes: by id, the last entry whose call
\* issued a statement about a row says whether the row is there, and each column
\* holds what the last entry whose call wrote that column gave it.  An update
\* that found nothing to change, or a delete that found no row, has an entry too,
\* which explains nothing: it held no lock, and its entry may follow that of a
\* change it has not seen (_repositories_legacy.py:172-189).  A table that a unit
\* without a record has changed (uow.py:47-50) is left out.
TrailExplains ==
    \A k \in Kinds \ silent :
      /\ Exists(k) <=> IF About(k) = {} THEN k \in Present
                      ELSE log[Max(About(k))].body.op.call # "delete"
      /\ Exists(k) => \A c \in Columns :
           rows[k].value[c] = IF Wrote(k, c) = {} THEN First[c]
                              ELSE log[Max(Wrote(k, c))].body.op.value[c]

\* Tampering shows: a changed row of a log that verifies is reported, and a row
\* that is removed, or changed together with its hash, is reported at the next
\* row unless it was the last one.
TamperEvident ==
    VerifyAll(log) = 0 =>
      \A i \in DOMAIN log :
        LET after   == {j \in DOMAIN log : j > i}
            forged  == [log[i].body EXCEPT !.at = 0]
            changed == [log EXCEPT ![i].body = forged]
            resumed == [changed EXCEPT ![i].hash = ComputeHash(log[i].prev, forged)]
            removed == [j \in DOMAIN log \ {i} |-> log[j]]
            next    == IF after = {} THEN 0 ELSE Min(after)
        IN  /\ VerifyAll(changed) = i
            /\ VerifyAll(resumed) = next
            /\ VerifyAll(removed) = next

\* The comment of record(): the latest row is fetched inside this transaction
\* "(serialisable read) to maintain chain order".  So the committed log always
\* verifies.
LogVerifies == VerifyAll(log) = 0

\* The unit of work implements the abstract ledger: changes and entries become
\* visible together or not at all, and entries stay.
Ledger == INSTANCE AuditLedger WITH
    effects <- {u \in Units : unit[u].pc = "done"},
    entries <- {<<log[i].body.unit, i>> : i \in DOMAIN log},
    data <- rows

LedgerImplemented == Ledger!LedgerSpec
=============================================================================
