---------------------------- MODULE Persistence ----------------------------
(***************************************************************************)
(* The tables behind the repositories (persistence/models.py and           *)
(* _repositories_legacy.py) under PostgreSQL's row locks at READ COMMITTED *)
(* (no isolation level is set).  One row per table: a row is its parent    *)
(* and the value of the columns that update writes; columns written only   *)
(* by add are left out.  The session issues only the statements it needs:  *)
(* an update writes the columns that differ from the row it read, none if  *)
(* there is no difference, and the delete of an unknown id issues nothing. *)
(***************************************************************************)
EXTENDS Naturals, FiniteSets

CONSTANTS
    Kinds,      \* the tables in use
    Columns,    \* the columns that update writes
    Contents    \* what a column may hold

VARIABLE rows   \* committed rows, per table

AllKinds == {"contact", "matter", "document", "deadline", "communication", "task"}

None == "none"
NoValue == <<>>
Absent == [parent |-> None, value |-> NoValue]

Values == [Columns -> Contents]

\* The foreign keys: a matter has a client, everything else has a matter.
ParentOf(k) ==
    CASE k = "contact" -> None
      [] k = "matter"  -> "contact"
      [] OTHER         -> "matter"

\* A table in use has its parent table, and a stored value has a column.
ASSUME KindsAssumption ==
    /\ Kinds \subseteq AllKinds
    /\ \A k \in Kinds : ParentOf(k) \in Kinds \cup {None}
    /\ Columns # {}
    /\ NoValue \notin Values

\* The one nullable foreign key.
MayBeOrphan == {"communication"}

RowOf(k) == [parent : {ParentOf(k)} \cup (IF k \in MayBeOrphan THEN {None} ELSE {}), value : Values]

Exists(k) == rows[k] # Absent

ChildrenOf(k) == {c \in Kinds : Exists(c) /\ k # None /\ rows[c].parent = k}

\* A repository call and the columns it writes: none if it issues no statement.
\* The null operation stands for a unit that has made no call.
Op == [call : {"add"}, kind : Kinds, value : Values, columns : {Columns}]
        \cup [call : {"update"}, kind : Kinds, value : Values, columns : SUBSET Columns]
        \cup [call : {"delete"}, kind : Kinds, value : {NoValue}, columns : {{}, Columns}]
NoOp == [call |-> None, kind |-> None, value |-> NoValue, columns |-> {}]

Add(k, value) == [call |-> "add", kind |-> k, value |-> value, columns |-> Columns]

\* The attributes that update sets, compared with the row it has read.
Update(k, value) == [call |-> "update", kind |-> k, value |-> value,
                     columns |-> {c \in Columns : Exists(k) /\ rows[k].value[c] # value[c]}]

Delete(k) == [call |-> "delete", kind |-> k, value |-> NoValue,
              columns |-> IF Exists(k) THEN Columns ELSE {}]

\* The call when its statement runs: the DELETE of a row that has gone since it
\* was read matches nothing and raises nothing.
Issued(op) == IF op.call = "delete" /\ ~Exists(op.kind) THEN [op EXCEPT !.columns = {}] ELSE op

\* The rows the call locks for writing: delete clears the key of the children.
Writes(op) ==
    IF op.columns = {} THEN {}
    ELSE IF op.call = "delete" THEN {op.kind} \cup ChildrenOf(op.kind) ELSE {op.kind}

\* An insert holds its parent's key against deletion.
KeyShared(op) == IF op.call = "add" THEN {ParentOf(op.kind)} ELSE {}

Removes(op) == IF op.call = "delete" THEN {op.kind} \cap Writes(op) ELSE {}

\* Mutant: updates do not lock the row against each other.
UpdatesOverlap(a, b) ==
    \/ {a.call, b.call} # {"update"} /\ Writes(a) \cap Writes(b) # {}
    \/ Removes(a) \cap KeyShared(b) # {}
    \/ Removes(b) \cap KeyShared(a) # {}

\* Two calls of different transactions, the first still under way.
Conflicts(a, b) ==
    \/ Writes(a) \cap Writes(b) # {}
    \/ Removes(a) \cap KeyShared(b) # {}
    \/ Removes(b) \cap KeyShared(a) # {}

\* Mutant: children of a deleted row are not looked at.
DeleteAccepted(op) ==
    \/ op.columns = {}
    \/ op.call = "add" /\ ~Exists(op.kind) /\ (ParentOf(op.kind) = None \/ Exists(ParentOf(op.kind)))
    \/ op.call = "update" /\ Exists(op.kind)
    \/ op.call = "delete"

\* The flush raises for an add of a known id or without its parent, for an
\* update of a row that has gone since it was read, and for the delete of a row
\* with children that need it.
Accepted(op) ==
    \/ op.columns = {}
    \/ op.call = "add" /\ ~Exists(op.kind) /\ (ParentOf(op.kind) = None \/ Exists(ParentOf(op.kind)))
    \/ op.call = "update" /\ Exists(op.kind)
    \/ op.call = "delete" /\ ChildrenOf(op.kind) \subseteq MayBeOrphan

\* The value after the UPDATE: the other columns are as they are by then.
Merged(value, op) == [c \in Columns |-> IF c \in op.columns THEN op.value[c] ELSE value[c]]

\* The committed rows after the call.
Applied(op) ==
    IF op.columns = {} THEN rows
    ELSE [k \in Kinds |->
       CASE op.call = "add" /\ k = op.kind -> [parent |-> ParentOf(k), value |-> op.value]
         [] op.call = "update" /\ k = op.kind -> [rows[k] EXCEPT !.value = Merged(@, op)]
         [] op.call = "delete" /\ k = op.kind -> Absent
         [] op.call = "delete" /\ k # op.kind /\ k \in ChildrenOf(op.kind) ->
              [rows[k] EXCEPT !.parent = None]
         [] OTHER -> rows[k]]

TablesOK == \A k \in Kinds : rows[k] \in RowOf(k) \cup {Absent}
=============================================================================
