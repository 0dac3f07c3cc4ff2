---------------------------- MODULE AuditProofs -----------------------------
(***************************************************************************)
(* Proofs about AuditChain, for any tables, values, number of units and of *)
(* records per unit: the units of work implement the abstract ledger; the  *)
(* committed chain never hangs from a row that was rolled back, and it     *)
(* verifies if no two units recorded together; foreign keys hold and the   *)
(* trail explains the tables; and verify finds a row that was tampered     *)
(* with.                                                                   *)
(***************************************************************************)
EXTENDS AuditChain, FiniteSetTheorems, WellFoundedInduction, TLAPS

(* A row continues Genesis or a row of table with a lower id. *)
Continues(table, i, prev) ==
    prev = Genesis \/ \E j \in DOMAIN table : j < i /\ prev = table[j].hash

(* Units have their four fields, ids come from the sequence. *)
Shape ==
    /\ seq \in Nat
    /\ DOMAIN unit = Units
    /\ \A u \in Units : DOMAIN unit[u] = {"pc", "op", "prev", "pending"}
    /\ DOMAIN log \subseteq 1..seq

(* A pending row has an id of its own and is about its unit; a unit that   *)
(* has recorded has one.                                                   *)
Pending ==
    /\ \A u \in Units : \A i \in DOMAIN unit[u].pending :
         /\ i \in 1..seq
         /\ i \notin DOMAIN log
         /\ unit[u].pending[i].body.unit = u
    /\ \A u, v \in Units : u # v => DOMAIN unit[u].pending \cap DOMAIN unit[v].pending = {}
    /\ \A u \in Units : unit[u].pc = "recorded" => DOMAIN unit[u].pending # {}

(* What a unit has read, and the rows it has appended, continue what it    *)
(* sees; committed rows continue committed ones.                           *)
Rooted ==
    /\ \A i \in DOMAIN log : Continues(log, i, log[i].prev)
    /\ \A u \in Units : unit[u].pc = "read" => Continues(Visible(u), seq + 1, unit[u].prev)
    /\ \A u \in Units : \A i \in DOMAIN unit[u].pending :
         Continues(Visible(u), i, unit[u].pending[i].prev)

IInv == Shape /\ Pending /\ Rooted

-----------------------------------------------------------------------------
(* The second layer: what the units of work hold, and what they record. *)

Places == {"idle", "loaded", "staged", "read", "recorded", "done", "failed"}

(* A unit under way has a repository call; only a unit that has recorded   *)
(* has pending rows.                                                       *)
Staged ==
    \A u \in Units :
      /\ unit[u].pc \in Places
      /\ unit[u].pc \notin {"read", "recorded"} => DOMAIN unit[u].pending = {}
      /\ Active(u) \/ unit[u].pc = "loaded" => unit[u].op \in Op

(* The committed rows are rows of their tables and their parents are there. *)
Tables ==
    /\ DOMAIN rows = Kinds
    /\ TablesOK
    /\ \A k \in Kinds : (Exists(k) /\ rows[k].parent # None) => Exists(rows[k].parent)

(* What the row locks are for: whatever the others commit, the call of a   *)
(* unit under way would still be accepted, and no two of them conflict.    *)
Held ==
    /\ \A u \in Units : Active(u) => Accepted(unit[u].op)
    /\ \A u, v \in Units :
         u # v /\ Active(u) /\ Active(v) => ~Conflicts(unit[u].op, unit[v].op)

(* An audit row is hashed over its own fields and stamped with its id; a   *)
(* pending one is about its unit's call.                                   *)
Hashed(row, i) ==
    /\ DOMAIN row = {"body", "prev", "hash"}
    /\ DOMAIN row.body = {"unit", "op", "at"}
    /\ row.body.at = i
    /\ row.hash = ComputeHash(row.prev, row.body)

AllHashed ==
    /\ \A i \in DOMAIN log : Hashed(log[i], i)
    /\ \A u \in Units : \A i \in DOMAIN unit[u].pending :
         Hashed(unit[u].pending[i], i) /\ unit[u].pending[i].body.op = unit[u].op

(* A pending row of a unit that writes comes after the committed rows      *)
(* about writes of the same table.                                         *)
Later ==
    \A u \in Units : \A i \in DOMAIN unit[u].pending : \A j \in About(unit[u].op.kind) :
      unit[u].op.columns # {} => j < i

(* As long as no two units have been between read and commit together,     *)
(* what a unit sees verifies, and so does what it is about to append.      *)
Recording(u) == unit[u].pc \in {"read", "recorded"}
Serial ==
    ~overlap =>
      /\ \A u, v \in Units : Recording(u) /\ Recording(v) => u = v
      /\ \A i \in DOMAIN log : RowOk(log, 1, i)
      /\ \A u \in Units : Recording(u) =>
           \A i \in DOMAIN Visible(u) : RowOk(Visible(u), 1, i)
      /\ \A u \in Units : unit[u].pc = "read" =>
           unit[u].prev = ExpectedPrev(Visible(u), 1, seq + 1)

(* Every id that was taken can be charged to a unit and the number of the  *)
(* record among that unit's.                                               *)
Charged(f) ==
    /\ f \in [1..seq -> Units \X (1..MaxRecords)]
    /\ \A i, j \in 1..seq : f[i] = f[j] => i = j
    /\ \A i \in 1..seq :
         /\ unit[f[i][1]].pc \notin {"idle", "loaded"}
         /\ Active(f[i][1]) => f[i][2] <= Cardinality(DOMAIN unit[f[i][1]].pending)
Counted ==
    /\ \A u \in Units : unit[u].pc = "read" =>
         Cardinality(DOMAIN unit[u].pending) < MaxRecords
    /\ \E f : Charged(f)

-----------------------------------------------------------------------------
(* A non-empty set of ids has a greatest element ... *)
LEMMA Greatest ==
  ASSUME NEW n \in Nat, NEW S, S # {}, S \subseteq 1..n
  PROVE  \E x \in S : \A y \in S : x >= y
<1> DEFINE T == {k \in Nat : n - k \in S}
           R == OpToRel(<, Nat)
<1>1. T \subseteq Nat /\ T # {}
  <2>1. PICK x \in S : TRUE
    OBVIOUS
  <2>2. n - x \in Nat /\ n - (n - x) = x
    OBVIOUS
  <2>3. QED
    BY <2>1, <2>2
<1>2. PICK m \in T : \A k \in T : ~(<<k, m>> \in R)
  BY <1>1, WFMin, NatLessThanWellFounded
<1>3. \A k \in T : ~(k < m)
  BY <1>2 DEF OpToRel
<1>4. \A y \in S : n - m >= y
  <2>1. TAKE y \in S
  <2>2. n - y \in Nat /\ n - (n - y) = y
    OBVIOUS
  <2>3. ~(n - y < m)
    BY <1>3, <2>2
  <2>4. QED
    BY <2>2, <2>3
<1>5. QED
  BY <1>4

(* ... which Max returns. *)
LEMMA MaxIs ==
  ASSUME NEW n \in Nat, NEW S, S # {}, S \subseteq 1..n
  PROVE  /\ Max(S) \in S
         /\ \A y \in S : y <= Max(S)
         /\ \A x \in S : (\A y \in S : y <= x) => Max(S) = x
<1> DEFINE m == Max(S)
<1>1. m \in S /\ \A y \in S : m >= y
  BY Greatest DEF Max
<1> HIDE DEF m
<1>2. m \in 1..n
  BY <1>1
<1>3. \A y \in S : y <= m
  BY <1>1, <1>2
<1>4. ASSUME NEW x \in S, \A y \in S : y <= x
      PROVE  m = x
  BY <1>1, <1>2, <1>4
<1>5. QED
  BY <1>1, <1>3, <1>4 DEF m

LEMMA MaxIn ==
  ASSUME NEW n \in Nat, NEW S, S # {}, S \subseteq 1..n
  PROVE  Max(S) \in S
  BY MaxIs

(* The same for the least. *)
LEMMA MinIs ==
  ASSUME NEW n \in Nat, NEW S, S # {}, S \subseteq 1..n
  PROVE  /\ Min(S) \in S
         /\ \A y \in S : Min(S) <= y
         /\ \A x \in S : (\A y \in S : x <= y) => Min(S) = x
<1> DEFINE m == Min(S)
           R == OpToRel(<, Nat)
<1>0. S \subseteq Nat
  OBVIOUS
<1>1. PICK l \in S : \A k \in S : ~(<<k, l>> \in R)
  BY <1>0, WFMin, NatLessThanWellFounded
<1>2. \A k \in S : ~(k < l)
  BY <1>0, <1>1 DEF OpToRel
<1>3. \A k \in S : l <= k
  BY <1>0, <1>2
<1>4. m \in S /\ \A y \in S : m <= y
  BY <1>3 DEF Min
<1> HIDE DEF m
<1>5. ASSUME NEW x \in S, \A y \in S : x <= y
      PROVE  m = x
  BY <1>4, <1>5
<1>6. QED
  BY <1>4, <1>5 DEF m

(* What a unit sees: committed rows and its own, unchanged. *)
LEMMA VisibleRows ==
  ASSUME NEW u \in Units
  PROVE  /\ DOMAIN Visible(u) = DOMAIN log \cup DOMAIN unit[u].pending
         /\ \A i \in DOMAIN log : Visible(u)[i] = log[i]
         /\ \A i \in DOMAIN unit[u].pending : i \notin DOMAIN log => Visible(u)[i] = unit[u].pending[i]
  BY DEF Visible

(* Initially there is nothing. *)
LEMMA InitInv == Init => IInv
  BY DEF Init, NewUnit, IInv, Shape, Pending, Rooted

(* A unit that leaves everybody's pending rows alone, or drops its own. *)
LEMMA FreshUnit ==
  ASSUME IInv, NEW u \in Units, NEW r,
         DOMAIN r = {"pc", "op", "prev", "pending"}, DOMAIN r.pending = {},
         r.pc \notin {"read", "recorded"},
         unit' = [unit EXCEPT ![u] = r], UNCHANGED <<log, seq>>
  PROVE  IInv'
<1>1. Shape'
  BY DEF IInv, Shape
<1>2. Pending'
  BY DEF IInv, Shape, Pending
<1>3. \A v \in Units \ {u} : unit'[v] = unit[v] /\ Visible(v)' = Visible(v)
  BY DEF IInv, Shape, Visible
<1>4. unit'[u] = r
  BY DEF IInv, Shape
<1>5. Rooted'
  BY <1>3, <1>4 DEF IInv, Rooted, Continues
<1>6. QED
  BY <1>1, <1>2, <1>5 DEF IInv

LEMMA LoadInv ==
  ASSUME IInv, NEW u \in Units, NEW op, Load(u, op)
  PROVE  IInv'
<1>1. PICK r : /\ DOMAIN r = {"pc", "op", "prev", "pending"} /\ DOMAIN r.pending = {}
               /\ r.pc \notin {"read", "recorded"} /\ unit' = [unit EXCEPT ![u] = r]
  <2>1. CASE op.call = "update" => Exists(op.kind)
    BY <2>1 DEF Load, NewUnit
  <2>2. CASE ~(op.call = "update" => Exists(op.kind))
    BY <2>2 DEF Load, NewUnit
  <2>3. QED
    BY <2>1, <2>2
<1>2. QED
  BY <1>1, FreshUnit DEF Load

LEMMA StageInv ==
  ASSUME IInv, NEW u \in Units, NEW op, Stage(u, op)
  PROVE  IInv'
<1>1. PICK r : /\ DOMAIN r = {"pc", "op", "prev", "pending"} /\ DOMAIN r.pending = {}
               /\ r.pc \notin {"read", "recorded"} /\ unit' = [unit EXCEPT ![u] = r]
  <2>1. CASE Accepted(op)
    BY <2>1 DEF Stage, NewUnit
  <2>2. CASE ~Accepted(op)
    BY <2>2 DEF Stage, NewUnit
  <2>3. QED
    BY <2>1, <2>2
<1>2. QED
  BY <1>1, FreshUnit DEF Stage

LEMMA RollbackInv ==
  ASSUME IInv, NEW u \in Units, Rollback(u)
  PROVE  IInv'
<1>1. PICK r : /\ DOMAIN r = {"pc", "op", "prev", "pending"} /\ DOMAIN r.pending = {}
               /\ r.pc \notin {"read", "recorded"} /\ unit' = [unit EXCEPT ![u] = r]
  BY DEF Rollback, NewUnit
<1>2. QED
  BY <1>1, FreshUnit DEF Rollback

LEMMA ReadLatestInv ==
  ASSUME IInv, NEW u \in Units, ReadLatest(u)
  PROVE  IInv'
<1> DEFINE table == Visible(u)
           h == IF DOMAIN table = {} THEN Genesis ELSE table[LatestId(table)].hash
<1>1. /\ unit' = [unit EXCEPT ![u].pc = "read", ![u].prev = h]
      /\ UNCHANGED <<log, seq>>
  BY DEF ReadLatest
<1> HIDE DEF h
<1>2. \A v \in Units : /\ DOMAIN unit'[v] = DOMAIN unit[v]
                       /\ unit'[v].pending = unit[v].pending
                       /\ v # u => unit'[v] = unit[v]
  BY <1>1 DEF IInv, Shape
<1>3. unit'[u].pc = "read" /\ unit'[u].prev = h
  BY <1>1 DEF IInv, Shape
<1>4. Shape'
  BY <1>1, <1>2 DEF IInv, Shape
<1>5. Pending'
  <2>1. \A v \in Units : unit'[v].pc = "recorded" => unit[v].pc = "recorded"
    BY <1>2, <1>3
  <2>2. log' = log /\ seq' = seq
    BY <1>1
  <2>3. QED
    BY <1>2, <2>1, <2>2 DEF IInv, Pending
<1>6. \A v \in Units : Visible(v)' = Visible(v)
  <2>1. log' = log
    BY <1>1
  <2>2. QED
    BY <1>2, <2>1 DEF Visible
<1>7. Continues(Visible(u), seq + 1, h)
  <2>1. DOMAIN table \subseteq 1..seq
    <3>1. DOMAIN table = DOMAIN log \cup DOMAIN unit[u].pending
      BY VisibleRows
    <3>2. QED
      BY <3>1 DEF IInv, Shape, Pending
  <2>2. CASE DOMAIN table # {}
    <3>1. Max(DOMAIN table) \in DOMAIN table
      BY <2>1, <2>2, MaxIn DEF IInv, Shape
    <3>2. Max(DOMAIN table) < seq + 1
      BY <2>1, <3>1 DEF IInv, Shape
    <3>3. QED
      BY <2>2, <3>1, <3>2 DEF Continues, LatestId, h
  <2>3. CASE DOMAIN table = {}
    BY <2>3 DEF Continues, h
  <2>4. QED
    BY <2>2, <2>3
<1>8. Rooted'
  <2>1. log' = log /\ seq' = seq
    BY <1>1
  <2>2. \A i \in DOMAIN log' : Continues(log, i, log[i].prev)'
    BY <2>1 DEF IInv, Rooted, Continues
  <2>3. ASSUME NEW v \in Units, unit'[v].pc = "read"
        PROVE  Continues(Visible(v), seq + 1, unit[v].prev)'
    <3>1. CASE v = u
      BY <1>3, <1>6, <1>7, <2>1, <3>1 DEF Continues
    <3>2. CASE v # u
      <4>1. unit'[v] = unit[v] /\ Visible(v)' = Visible(v)
        BY <1>2, <1>6, <3>2
      <4>2. Continues(Visible(v), seq + 1, unit[v].prev)
        BY <2>3, <4>1 DEF IInv, Rooted
      <4>3. QED
        BY <2>1, <4>1, <4>2 DEF Continues
    <3>3. QED
      BY <3>1, <3>2
  <2>4. ASSUME NEW v \in Units, NEW i \in DOMAIN unit'[v].pending
        PROVE  Continues(Visible(v), i, unit[v].pending[i].prev)'
    <3>1. unit'[v].pending = unit[v].pending /\ Visible(v)' = Visible(v)
      BY <1>2, <1>6
    <3>2. Continues(Visible(v), i, unit[v].pending[i].prev)
      BY <2>4, <3>1 DEF IInv, Rooted
    <3>3. QED
      BY <3>1, <3>2 DEF Continues
  <2>5. QED
    BY <2>2, <2>3, <2>4 DEF Rooted
<1>9. QED
  BY <1>4, <1>5, <1>8 DEF IInv

(* A row that continues a table continues every table that holds its rows, *)
(* also when it comes later.                                               *)
LEMMA ContinuesMore ==
  ASSUME NEW n \in Nat, NEW m \in Nat, n <= m, NEW prev, NEW t1, NEW t2,
         DOMAIN t1 \subseteq Nat, DOMAIN t1 \subseteq DOMAIN t2,
         \A j \in DOMAIN t1 : t2[j] = t1[j],
         Continues(t1, n, prev)
  PROVE  Continues(t2, m, prev)
<1>1. CASE prev = Genesis
  BY <1>1 DEF Continues
<1>2. ASSUME NEW j \in DOMAIN t1, j < n, prev = t1[j].hash
      PROVE  Continues(t2, m, prev)
  <2>1. j \in DOMAIN t2 /\ j < m /\ prev = t2[j].hash
    BY <1>2
  <2>2. QED
    BY <2>1 DEF Continues
<1>3. QED
  BY <1>1, <1>2 DEF Continues

(* The ids a unit sees are ids of the sequence. *)
LEMMA VisibleIds ==
  ASSUME IInv, NEW u \in Units
  PROVE  DOMAIN Visible(u) \subseteq 1..seq
<1>1. DOMAIN Visible(u) = DOMAIN log \cup DOMAIN unit[u].pending
  BY VisibleRows
<1>2. QED
  BY <1>1 DEF IInv, Shape, Pending

LEMMA AppendRowInv ==
  ASSUME IInv, NEW u \in Units, AppendRow(u)
  PROVE  IInv'
<1> DEFINE body == [unit |-> u, op |-> unit[u].op, at |-> seq + 1]
           row == [body |-> body, prev |-> unit[u].prev, hash |-> ComputeHash(unit[u].prev, body)]
           old == unit[u].pending
           new == [i \in DOMAIN old \cup {seq + 1} |-> IF i = seq + 1 THEN row ELSE old[i]]
<1>1. /\ unit' = [unit EXCEPT ![u].pc = "recorded", ![u].pending = new]
      /\ log' = log /\ seq' = seq + 1 /\ unit[u].pc = "read"
  BY DEF AppendRow
<1>2. row.prev = unit[u].prev /\ row.body.unit = u
  OBVIOUS
<1> HIDE DEF row
<1>3. /\ DOMAIN new = DOMAIN old \cup {seq + 1}
      /\ new[seq + 1] = row
      /\ \A i \in DOMAIN old : i # seq + 1 => new[i] = old[i]
  OBVIOUS
<1> HIDE DEF new
<1>4. /\ seq \in Nat /\ seq' \in Nat
      /\ \A i \in 1..seq : i # seq + 1 /\ i \in 1..seq' /\ i \in Nat
      /\ seq + 1 \in 1..seq' /\ seq + 1 \notin DOMAIN log
  BY <1>1 DEF IInv, Shape
<1>5. /\ unit'[u].pc = "recorded" /\ unit'[u].pending = new
      /\ \A v \in Units : DOMAIN unit'[v] = DOMAIN unit[v]
      /\ \A v \in Units : v # u => unit'[v] = unit[v]
      /\ DOMAIN unit' = Units
  BY <1>1 DEF IInv, Shape
<1>6. Shape'
  BY <1>1, <1>4, <1>5 DEF IInv, Shape
<1>7. Pending'
  <2>1. ASSUME NEW v \in Units, NEW i \in DOMAIN unit'[v].pending
        PROVE  i \in 1..seq' /\ i \notin DOMAIN log' /\ unit'[v].pending[i].body.unit = v
    <3>1. CASE v # u
      BY <1>1, <1>4, <1>5, <2>1, <3>1 DEF IInv, Pending
    <3>2. CASE v = u /\ i = seq + 1
      BY <1>1, <1>2, <1>3, <1>4, <1>5, <3>2
    <3>3. CASE v = u /\ i # seq + 1
      <4>1. i \in DOMAIN old /\ unit'[v].pending[i] = old[i]
        BY <1>3, <1>5, <2>1, <3>3
      <4>2. i \in 1..seq /\ i \notin DOMAIN log /\ old[i].body.unit = u
        BY <4>1 DEF IInv, Pending
      <4>3. QED
        BY <1>1, <1>4, <3>3, <4>1, <4>2
    <3>4. QED
      BY <3>1, <3>2, <3>3
  <2>2. ASSUME NEW v \in Units, NEW w \in Units, v # w,
               NEW i \in DOMAIN unit'[v].pending, i \in DOMAIN unit'[w].pending
        PROVE  FALSE
    <3>1. \A x \in Units : \A k \in DOMAIN unit[x].pending : k \in 1..seq
      BY DEF IInv, Pending
    <3>2. \A x \in Units : \A k \in DOMAIN unit'[x].pending :
            k \in DOMAIN unit[x].pending \/ (x = u /\ k = seq + 1)
      BY <1>3, <1>5
    <3>3. i \in DOMAIN unit[v].pending /\ i \in DOMAIN unit[w].pending
      BY <1>4, <2>2, <3>1, <3>2
    <3>4. QED
      BY <2>2, <3>3 DEF IInv, Pending
  <2>3. ASSUME NEW v \in Units, unit'[v].pc = "recorded"
        PROVE  DOMAIN unit'[v].pending # {}
    <3>1. CASE v = u
      BY <1>3, <1>5, <3>1
    <3>2. CASE v # u
      BY <1>5, <2>3, <3>2 DEF IInv, Pending
    <3>3. QED
      BY <3>1, <3>2
  <2>4. QED
    BY <2>1, <2>2, <2>3 DEF Pending
<1>8. \A v \in Units : v # u => Visible(v)' = Visible(v)
  BY <1>1, <1>5 DEF Visible
<1>9. /\ DOMAIN Visible(u) \subseteq DOMAIN Visible(u)'
      /\ \A j \in DOMAIN Visible(u) : Visible(u)'[j] = Visible(u)[j]
  <2>1. Visible(u)' = [i \in DOMAIN log \cup DOMAIN new |-> IF i \in DOMAIN log THEN log[i] ELSE new[i]]
    BY <1>1, <1>5 DEF Visible
  <2>2. Visible(u) = [i \in DOMAIN log \cup DOMAIN old |-> IF i \in DOMAIN log THEN log[i] ELSE old[i]]
    BY DEF Visible
  <2>3. \A i \in DOMAIN old : new[i] = old[i]
    BY <1>3, <1>4 DEF IInv, Pending
  <2>4. QED
    BY <1>3, <2>1, <2>2, <2>3
<1>10. Rooted'
  <2>1. \A i \in DOMAIN log' : Continues(log, i, log[i].prev)'
    BY <1>1 DEF IInv, Rooted, Continues
  <2>2. ASSUME NEW v \in Units, unit'[v].pc = "read"
        PROVE  Continues(Visible(v), seq + 1, unit[v].prev)'
    <3>1. v # u
      BY <1>5, <2>2
    <3>2. unit'[v] = unit[v] /\ Visible(v)' = Visible(v)
      BY <1>5, <1>8, <3>1
    <3>3. Continues(Visible(v), seq + 1, unit[v].prev)
      BY <2>2, <3>2 DEF IInv, Rooted
    <3>4. DOMAIN Visible(v) \subseteq Nat
      BY <1>4, VisibleIds
    <3>5. Continues(Visible(v), seq' + 1, unit[v].prev)
      BY <1>1, <1>4, <3>3, <3>4, ContinuesMore
    <3>6. QED
      BY <3>2, <3>5 DEF Continues
  <2>3. ASSUME NEW v \in Units, NEW i \in DOMAIN unit'[v].pending
        PROVE  Continues(Visible(v), i, unit[v].pending[i].prev)'
    <3>1. CASE v # u
      <4>1. unit'[v] = unit[v] /\ Visible(v)' = Visible(v)
        BY <1>5, <1>8, <3>1
      <4>2. Continues(Visible(v), i, unit[v].pending[i].prev)
        BY <2>3, <4>1 DEF IInv, Rooted
      <4>3. QED
        BY <4>1, <4>2 DEF Continues
    <3>2. CASE v = u
      <4> DEFINE p == unit'[u].pending[i].prev
      <4>1. Continues(Visible(u), i, p) /\ i \in Nat
        <5>1. CASE i = seq + 1
          BY <1>1, <1>2, <1>3, <1>4, <1>5, <5>1 DEF IInv, Rooted
        <5>2. CASE i # seq + 1
          <6>1. i \in DOMAIN old /\ p = old[i].prev
            BY <1>3, <1>5, <2>3, <3>2, <5>2
          <6>2. QED
            BY <1>4, <6>1 DEF IInv, Rooted, Pending
        <5>3. QED
          BY <5>1, <5>2
      <4>2. DOMAIN Visible(u) \subseteq Nat
        BY <1>4, VisibleIds
      <4> HIDE DEF p
      <4>3. Continues(Visible(u)', i, p)
        BY <1>9, <4>1, <4>2, ContinuesMore
      <4>4. QED
        BY <3>2, <4>3 DEF Continues, p
    <3>3. QED
      BY <3>1, <3>2
  <2>4. QED
    BY <2>1, <2>2, <2>3 DEF Rooted
<1>11. QED
  BY <1>6, <1>7, <1>10 DEF IInv

LEMMA CommitInv ==
  ASSUME IInv, NEW u \in Units, Commit(u)
  PROVE  IInv'
<1> DEFINE old == unit[u].pending
<1>1. /\ unit' = [unit EXCEPT ![u] = [NewUnit EXCEPT !.pc = "done"]]
      /\ log' = Visible(u) /\ seq' = seq
  BY DEF Commit
<1>2. /\ DOMAIN unit' = Units
      /\ unit'[u].pc = "done" /\ DOMAIN unit'[u].pending = {}
      /\ DOMAIN unit'[u] = {"pc", "op", "prev", "pending"}
      /\ \A v \in Units : v # u => unit'[v] = unit[v]
  BY <1>1 DEF IInv, Shape, NewUnit
<1>3. /\ DOMAIN log' = DOMAIN log \cup DOMAIN old
      /\ \A i \in DOMAIN log : log'[i] = log[i]
      /\ \A i \in DOMAIN old : i \notin DOMAIN log /\ log'[i] = old[i]
  BY <1>1, VisibleRows DEF IInv, Pending
<1>4. seq \in Nat /\ DOMAIN log' \subseteq 1..seq
  BY <1>1, VisibleIds DEF IInv, Shape
<1>5. Shape'
  BY <1>1, <1>2, <1>4 DEF IInv, Shape
<1>6. Pending'
  BY <1>1, <1>2, <1>3 DEF IInv, Pending
<1>7. ASSUME NEW v \in Units, v # u
      PROVE  /\ DOMAIN Visible(v) \subseteq DOMAIN Visible(v)'
             /\ \A j \in DOMAIN Visible(v) : Visible(v)'[j] = Visible(v)[j]
  <2>1. Visible(v)' = [i \in DOMAIN log' \cup DOMAIN unit[v].pending |->
                         IF i \in DOMAIN log' THEN log'[i] ELSE unit[v].pending[i]]
    BY <1>2, <1>7 DEF Visible
  <2>2. Visible(v) = [i \in DOMAIN log \cup DOMAIN unit[v].pending |->
                        IF i \in DOMAIN log THEN log[i] ELSE unit[v].pending[i]]
    BY DEF Visible
  <2>3. \A i \in DOMAIN unit[v].pending : i \notin DOMAIN old
    BY <1>7 DEF IInv, Pending
  <2>4. QED
    BY <1>3, <2>1, <2>2, <2>3
<1>8. Rooted'
  <2>1. ASSUME NEW i \in DOMAIN log'
        PROVE  Continues(log', i, log'[i].prev)
    <3>1. i \in Nat /\ DOMAIN log \subseteq Nat
      BY <1>3, <1>4, <2>1
    <3>2. CASE i \in DOMAIN log
      <4>1. Continues(log, i, log'[i].prev)
        BY <1>3, <3>2 DEF IInv, Rooted
      <4>2. QED
        BY <1>3, <3>1, <4>1, ContinuesMore
    <3>3. CASE i \in DOMAIN old
      BY <1>1, <1>3, <3>3 DEF IInv, Rooted
    <3>4. QED
      BY <1>3, <2>1, <3>2, <3>3
  <2>2. ASSUME NEW v \in Units, NEW n \in Nat, NEW prev, v # u, Continues(Visible(v), n, prev)
        PROVE  Continues(Visible(v)', n, prev)
    <3>1. DOMAIN Visible(v) \subseteq Nat
      BY <1>4, VisibleIds
    <3>2. QED
      BY <1>7, <2>2, <3>1, ContinuesMore
  <2>3. ASSUME NEW v \in Units, unit'[v].pc = "read"
        PROVE  Continues(Visible(v), seq + 1, unit[v].prev)'
    <3>1. v # u
      BY <1>2, <2>3
    <3>2. unit'[v] = unit[v]
      BY <1>2, <3>1
    <3>3. Continues(Visible(v), seq + 1, unit[v].prev)
      BY <2>3, <3>2 DEF IInv, Rooted
    <3>4. Continues(Visible(v)', seq + 1, unit[v].prev)
      BY <1>4, <2>2, <3>1, <3>3
    <3>5. QED
      BY <1>1, <3>2, <3>4 DEF Continues
  <2>4. ASSUME NEW v \in Units, NEW i \in DOMAIN unit'[v].pending
        PROVE  Continues(Visible(v), i, unit[v].pending[i].prev)'
    <3>1. v # u
      BY <1>2, <2>4
    <3>2. unit'[v] = unit[v]
      BY <1>2, <3>1
    <3>3. Continues(Visible(v), i, unit[v].pending[i].prev) /\ i \in Nat
      BY <1>4, <2>4, <3>2 DEF IInv, Rooted, Pending
    <3>4. Continues(Visible(v)', i, unit[v].pending[i].prev)
      BY <2>2, <3>1, <3>3
    <3>5. QED
      BY <3>2, <3>4 DEF Continues
  <2>5. QED
    BY <2>1, <2>3, <2>4 DEF Rooted, Continues
<1>9. QED
  BY <1>5, <1>6, <1>8 DEF IInv

LEMMA NextInv == IInv /\ [Next]_vars => IInv'
<1> SUFFICES ASSUME IInv, [Next]_vars PROVE IInv'
  OBVIOUS
<1>1. CASE Next
  BY <1>1, LoadInv, StageInv, ReadLatestInv, AppendRowInv, CommitInv, RollbackInv
     DEF Next, Insert, Flush
<1>2. CASE UNCHANGED vars
  <2>1. log' = log /\ seq' = seq /\ unit' = unit
    BY <1>2 DEF vars
  <2>2. \A u \in Units : Visible(u)' = Visible(u)
    BY <2>1 DEF Visible
  <2>3. Shape'
    BY <2>1 DEF IInv, Shape
  <2>4. Pending'
    BY <2>1 DEF IInv, Pending
  <2>5. Rooted'
    BY <2>1, <2>2 DEF IInv, Rooted, Continues
  <2>6. QED
    BY <2>3, <2>4, <2>5 DEF IInv
<1>3. QED
  BY <1>1, <1>2

LEMMA Inductive == Spec => []IInv
<1>1. QED
  BY InitInv, NextInv, PTL DEF Spec

-----------------------------------------------------------------------------
(* The theorems *)

(* However units of work overlap and fail, every committed row of the      *)
(* audit log continues Genesis or a committed row with a lower id.         *)
THEOREM ChainSafety == Spec => []ChainRooted
<1>1. IInv => ChainRooted
  BY DEF IInv, Rooted, Continues, ChainRooted
<1>2. QED
  BY <1>1, Inductive, PTL

(* A step that is no commit shows nothing. *)
LEMMA SilentStep ==
  ASSUME IInv, NEW u \in Units, unit[u].pc # "done", NEW r, r.pc # "done",
         unit' = [unit EXCEPT ![u] = r], UNCHANGED <<rows, log>>
  PROVE  UNCHANGED Ledger!ledgerVars
<1>1. \A v \in Units : unit'[v].pc = "done" <=> unit[v].pc = "done"
  BY DEF IInv, Shape
<1>2. QED
  BY <1>1 DEF Ledger!ledgerVars

(* A commit is a step of the ledger. *)
LEMMA CommitRecords ==
  ASSUME IInv, NEW u \in Units, Commit(u)
  PROVE  Ledger!Record(u)
<1> DEFINE old == unit[u].pending
<1>1. /\ unit' = [unit EXCEPT ![u] = [NewUnit EXCEPT !.pc = "done"]]
      /\ log' = Visible(u) /\ unit[u].pc \in {"staged", "recorded"}
  BY DEF Commit
<1>2. /\ DOMAIN log' = DOMAIN log \cup DOMAIN old
      /\ \A i \in DOMAIN log : log'[i] = log[i]
      /\ \A i \in DOMAIN old : i \notin DOMAIN log /\ log'[i].body.unit = u
  <2>1. \A i \in DOMAIN old : i \notin DOMAIN log /\ old[i].body.unit = u
    BY DEF IInv, Pending
  <2>2. /\ DOMAIN log' = DOMAIN log \cup DOMAIN old
        /\ \A i \in DOMAIN log : log'[i] = log[i]
        /\ \A i \in DOMAIN old : log'[i] = old[i]
    BY <1>1, <2>1, VisibleRows
  <2>3. QED
    BY <2>1, <2>2
<1>3. unit'[u].pc = "done" /\ \A v \in Units : v # u => unit'[v] = unit[v]
  BY <1>1 DEF IInv, Shape, NewUnit
<1>4. {v \in Units : unit'[v].pc = "done"} = {v \in Units : unit[v].pc = "done"} \cup {u}
  BY <1>3
<1>5. {<<log[i].body.unit, i>> : i \in DOMAIN log} \subseteq {<<log'[i].body.unit, i>> : i \in DOMAIN log'}
  BY <1>2
<1>6. \A e \in {<<log'[i].body.unit, i>> : i \in DOMAIN log'}
             \ {<<log[i].body.unit, i>> : i \in DOMAIN log} : e[1] = u
  BY <1>2
<1>7. QED
  BY <1>1, <1>4, <1>5, <1>6 DEF Ledger!Record

(* The units of work implement the ledger: a change and the entries about  *)
(* it become visible in one step or not at all, and no entry goes away.    *)
THEOREM Refinement == Spec => LedgerImplemented
<1>1. Init => Ledger!LedgerInit
  BY DEF Init, NewUnit, Ledger!LedgerInit
<1>2. ASSUME IInv, [Next]_vars
      PROVE  [Ledger!LedgerNext]_(Ledger!ledgerVars)
  <2>1. CASE UNCHANGED vars
    BY <2>1 DEF vars, Ledger!ledgerVars
  <2>0. ASSUME NEW u \in Units, NEW op, Load(u, op)
        PROVE  UNCHANGED Ledger!ledgerVars
    <3>1. PICK r : r.pc # "done" /\ unit' = [unit EXCEPT ![u] = r]
      <4>1. CASE op.call = "update" => Exists(op.kind)
        BY <2>0, <4>1 DEF Load, NewUnit
      <4>2. CASE ~(op.call = "update" => Exists(op.kind))
        BY <2>0, <4>2 DEF Load, NewUnit
      <4>3. QED
        BY <4>1, <4>2
    <3>2. QED
      BY <1>2, <2>0, <3>1, SilentStep DEF Load
  <2>2. ASSUME NEW u \in Units, NEW op, unit[u].pc # "done", Stage(u, op)
        PROVE  UNCHANGED Ledger!ledgerVars
    <3>1. PICK r : r.pc # "done" /\ unit' = [unit EXCEPT ![u] = r]
      <4>1. CASE Accepted(op)
        BY <2>2, <4>1 DEF Stage, NewUnit
      <4>2. CASE ~Accepted(op)
        BY <2>2, <4>2 DEF Stage, NewUnit
      <4>3. QED
        BY <4>1, <4>2
    <3>2. QED
      BY <1>2, <2>2, <3>1, SilentStep DEF Stage
  <2>3. ASSUME NEW u \in Units, ReadLatest(u)
        PROVE  UNCHANGED Ledger!ledgerVars
    <3>1. unit[u].pc \in {"staged", "recorded"} /\ UNCHANGED <<rows, log>>
      BY <2>3 DEF ReadLatest
    <3>2. PICK h : unit' = [unit EXCEPT ![u].pc = "read", ![u].prev = h]
      BY <2>3 DEF ReadLatest
    <3>3. \A v \in Units : unit'[v].pc = "done" <=> unit[v].pc = "done"
      BY <1>2, <3>1, <3>2 DEF IInv, Shape
    <3>4. QED
      BY <3>1, <3>3 DEF Ledger!ledgerVars
  <2>4. ASSUME NEW u \in Units, AppendRow(u)
        PROVE  UNCHANGED Ledger!ledgerVars
    <3>1. unit[u].pc = "read" /\ UNCHANGED <<rows, log>>
      BY <2>4 DEF AppendRow
    <3>2. PICK p : unit' = [unit EXCEPT ![u].pc = "recorded", ![u].pending = p]
      BY <2>4 DEF AppendRow
    <3>3. \A v \in Units : unit'[v].pc = "done" <=> unit[v].pc = "done"
      BY <1>2, <3>1, <3>2 DEF IInv, Shape
    <3>4. QED
      BY <3>1, <3>3 DEF Ledger!ledgerVars
  <2>5. ASSUME NEW u \in Units, Rollback(u)
        PROVE  UNCHANGED Ledger!ledgerVars
    <3>1. PICK r : r.pc # "done" /\ unit' = [unit EXCEPT ![u] = r]
      BY <2>5 DEF Rollback, NewUnit
    <3>2. QED
      BY <1>2, <2>5, <3>1, SilentStep DEF Rollback, Active
  <2>6. QED
    BY <1>2, <2>0, <2>1, <2>2, <2>3, <2>4, <2>5, CommitRecords
       DEF Next, Insert, Flush, Ledger!LedgerNext
<1>3. QED
  BY <1>1, <1>2, Inductive, PTL DEF Spec, LedgerImplemented, Ledger!LedgerSpec

-----------------------------------------------------------------------------
(* What a repository call does to the tables *)

(* Calls and rows have their fields, and a row that is there has a value. *)
LEMMA OpShape ==
  ASSUME NEW op \in Op
  PROVE  /\ op.call \in {"add", "update", "delete"} /\ op.kind \in Kinds
         /\ op.call \in {"add", "update"} => op.value \in Values
         /\ op.columns \subseteq Columns
         /\ op.call # "update" /\ op.columns # {} => op.columns = Columns
         /\ op.call = "add" => op.columns # {}
         /\ op.kind # None
<1>1. /\ op.call \in {"add", "update", "delete"} /\ op.kind \in Kinds
      /\ op.call \in {"add", "update"} => op.value \in Values
      /\ op.columns \subseteq Columns
      /\ op.call # "update" /\ op.columns # {} => op.columns = Columns
      /\ op.call = "add" => op.columns = Columns
  BY DEF Op
<1>2. op.call = "add" => op.columns # {}
  BY <1>1, KindsAssumption
<1>3. op.kind # None
  BY <1>1, KindsAssumption DEF AllKinds, None
<1>4. QED
  BY <1>1, <1>2, <1>3

(* The calls the units make are calls, and so is what they issue. *)
LEMMA CallShape ==
  ASSUME NEW k \in Kinds
  PROVE  /\ \A value \in Given : Add(k, value) \in Op /\ Update(k, value) \in Op
         /\ Delete(k) \in Op
  BY UnitsAssumption DEF Op, Add, Update, Delete

LEMMA IssuedShape ==
  ASSUME NEW op \in Op
  PROVE  Issued(op) \in Op
<1>1. CASE op.call = "delete" /\ ~Exists(op.kind)
  <2>1. op \in [call : {"delete"}, kind : Kinds, value : {NoValue}, columns : {{}, Columns}]
    BY <1>1 DEF Op
  <2>2. QED
    BY <1>1, <2>1 DEF Issued, Op
<1>2. CASE ~(op.call = "delete" /\ ~Exists(op.kind))
  BY <1>2 DEF Issued
<1>3. QED
  BY <1>1, <1>2

LEMMA RowShape ==
  ASSUME Tables, NEW k \in Kinds
  PROVE  /\ rows[k] = [parent |-> rows[k].parent, value |-> rows[k].value]
         /\ rows[k].parent \in {ParentOf(k), None}
         /\ Exists(k) => rows[k].value \in Values /\ rows[k] \in RowOf(k)
         /\ Exists(k) <=> rows[k].value # NoValue
         /\ ~Exists(k) => rows[k].parent = None
<1>1. CASE rows[k] = Absent
  BY <1>1 DEF Absent, Exists
<1>2. CASE rows[k] \in RowOf(k)
  BY <1>2, KindsAssumption DEF RowOf, Absent, Exists
<1>3. QED
  BY <1>1, <1>2 DEF Tables, TablesOK

(* What an UPDATE leaves is a value. *)
LEMMA MergedShape ==
  ASSUME NEW v \in Values, NEW op \in Op, op.call = "update"
  PROVE  /\ Merged(v, op) \in Values
         /\ \A c \in Columns : Merged(v, op)[c] = IF c \in op.columns THEN op.value[c] ELSE v[c]
<1>1. op.value \in Values
  BY OpShape
<1>2. QED
  BY <1>1 DEF Merged, Values

(* The effect of an accepted call that issues a statement, table by table: *)
(* the others keep their rows, except that the children of a deleted row   *)
(* lose their parent.                                                      *)
LEMMA AppliedRows ==
  ASSUME Tables, NEW op \in Op, op.columns # {}, Accepted(op), rows' = Applied(op)
  PROVE  /\ DOMAIN rows' = Kinds
         /\ \A k \in Kinds \ Writes(op) : rows'[k] = rows[k]
         /\ op.call = "add" => rows'[op.kind] = [parent |-> ParentOf(op.kind), value |-> op.value]
         /\ op.call = "update" =>
              rows'[op.kind] = [parent |-> rows[op.kind].parent, value |-> Merged(rows[op.kind].value, op)]
         /\ op.call = "delete" => rows'[op.kind] = Absent
         /\ \A k \in Kinds : k # op.kind /\ k \in Writes(op) =>
              /\ op.call = "delete" /\ k \in ChildrenOf(op.kind) /\ k \in MayBeOrphan
              /\ rows'[k] = [parent |-> None, value |-> rows[k].value]
<1>1. op.call \in {"add", "update", "delete"} /\ op.kind \in Kinds
  BY OpShape
<1>2. rows' = [k \in Kinds |-> Applied(op)[k]] /\ DOMAIN rows' = Kinds
  BY DEF Applied
<1>3. CASE op.call = "add"
  <2>1. \A k \in Kinds : rows'[k] = IF k = op.kind THEN [parent |-> ParentOf(k), value |-> op.value] ELSE rows[k]
    BY <1>3 DEF Applied
  <2>2. QED
    BY <1>1, <1>2, <1>3, <2>1 DEF Writes
<1>4. CASE op.call = "update"
  <2>1. \A k \in Kinds : rows'[k] = IF k = op.kind THEN [rows[k] EXCEPT !.value = Merged(@, op)] ELSE rows[k]
    BY <1>4 DEF Applied
  <2>2. rows[op.kind] = [parent |-> rows[op.kind].parent, value |-> rows[op.kind].value]
    BY <1>1, RowShape
  <2>3. rows'[op.kind] = [parent |-> rows[op.kind].parent, value |-> Merged(rows[op.kind].value, op)]
    BY <1>1, <2>1, <2>2
  <2>4. QED
    BY <1>1, <1>2, <1>4, <2>1, <2>3 DEF Writes
<1>5. CASE op.call = "delete"
  <2>1. \A k \in Kinds : rows'[k] = IF k = op.kind THEN Absent
                                    ELSE IF k \in ChildrenOf(op.kind) THEN [rows[k] EXCEPT !.parent = None]
                                    ELSE rows[k]
    BY <1>5 DEF Applied
  <2>2. ChildrenOf(op.kind) \subseteq MayBeOrphan
    BY <1>5 DEF Accepted
  <2>3. ASSUME NEW k \in Kinds, k # op.kind, k \in ChildrenOf(op.kind)
        PROVE  rows'[k] = [parent |-> None, value |-> rows[k].value]
    <3>1. rows[k] = [parent |-> rows[k].parent, value |-> rows[k].value]
      BY RowShape
    <3>2. QED
      BY <2>1, <2>3, <3>1
  <2>4. ASSUME NEW k \in Kinds, k \notin Writes(op)
        PROVE  rows'[k] = rows[k]
    BY <1>5, <2>1, <2>4 DEF Writes
  <2>5. QED
    BY <1>1, <1>2, <1>5, <2>1, <2>2, <2>3, <2>4 DEF Writes
<1>6. QED
  BY <1>1, <1>3, <1>4, <1>5

(* So a table that the call is not about keeps its row and its value, and  *)
(* the one it is about gets the value or loses the row.                    *)
LEMMA AppliedValues ==
  ASSUME Tables, NEW op \in Op, op.columns # {}, Accepted(op), rows' = Applied(op)
  PROVE  /\ \A k \in Kinds : rows'[k] = [parent |-> rows'[k].parent, value |-> rows'[k].value]
         /\ \A k \in Kinds : k # op.kind => /\ rows'[k].value = rows[k].value
                                              /\ rows'[k].parent \in {rows[k].parent, None}
         /\ \A k \in Kinds : Exists(k)' <=> rows'[k].value # NoValue
         /\ \A k \in Kinds : k # op.kind => (Exists(k)' <=> Exists(k))
         /\ op.call = "delete" => ~Exists(op.kind)'
         /\ op.call # "delete" => Exists(op.kind)' /\ rows'[op.kind].value \in Values
         /\ op.call = "add" => rows'[op.kind].value = op.value
         /\ op.call = "update" => rows'[op.kind].value = Merged(rows[op.kind].value, op)
         /\ op.call = "update" => rows'[op.kind].parent = rows[op.kind].parent
         /\ op.call = "add" => rows'[op.kind].parent = ParentOf(op.kind)
         /\ \A k \in Kinds : k # op.kind /\ op.call = "delete" => rows'[k].parent # op.kind
<1>1. /\ op.call \in {"add", "update", "delete"} /\ op.kind \in Kinds
      /\ op.call \in {"add", "update"} => op.value \in Values
      /\ op.kind # None
  BY OpShape
<1>2. ASSUME NEW k \in Kinds
      PROVE  rows[k] = [parent |-> rows[k].parent, value |-> rows[k].value]
  BY RowShape
<1>3. ASSUME NEW k \in Kinds, k # op.kind
      PROVE  /\ rows'[k].value = rows[k].value
             /\ rows'[k].parent \in {rows[k].parent, None}
             /\ rows'[k] = [parent |-> rows'[k].parent, value |-> rows'[k].value]
             /\ op.call = "delete" => rows'[k].parent # op.kind
  <2>1. CASE k \in Writes(op)
    <3>1. rows'[k] = [parent |-> None, value |-> rows[k].value]
      BY <1>3, <2>1, AppliedRows
    <3>2. QED
      BY <1>1, <3>1
  <2>2. CASE k \notin Writes(op)
    <3>1. rows'[k] = rows[k]
      BY <2>2, AppliedRows
    <3>2. ASSUME op.call = "delete", rows[k].parent = op.kind
          PROVE  FALSE
      <4>1. k \notin ChildrenOf(op.kind)
        BY <2>2, <3>2 DEF Writes
      <4>2. ~Exists(k)
        BY <1>1, <3>2, <4>1 DEF ChildrenOf
      <4>3. rows[k].parent = None
        BY <4>2, RowShape
      <4>4. QED
        BY <1>1, <3>2, <4>3
    <3>3. QED
      BY <1>2, <3>1, <3>2
  <2>3. QED
    BY <2>1, <2>2
<1>4. /\ rows'[op.kind] = [parent |-> rows'[op.kind].parent, value |-> rows'[op.kind].value]
      /\ op.call = "delete" => rows'[op.kind] = Absent
      /\ op.call # "delete" => rows'[op.kind].value \in Values
      /\ op.call = "add" => rows'[op.kind].value = op.value
      /\ op.call = "update" => rows'[op.kind].value = Merged(rows[op.kind].value, op)
      /\ op.call = "update" => rows'[op.kind].parent = rows[op.kind].parent
      /\ op.call = "add" => rows'[op.kind].parent = ParentOf(op.kind)
  <2>1. CASE op.call = "add"
    <3>1. rows'[op.kind] = [parent |-> ParentOf(op.kind), value |-> op.value]
      BY <2>1, AppliedRows
    <3>2. QED
      BY <1>1, <2>1, <3>1
  <2>2. CASE op.call = "update"
    <3> DEFINE m == Merged(rows[op.kind].value, op)
    <3>1. rows'[op.kind] = [parent |-> rows[op.kind].parent, value |-> m]
      BY <2>2, AppliedRows
    <3>2. Exists(op.kind)
      BY <2>2 DEF Accepted
    <3>3. m \in Values
      BY <1>1, <2>2, <3>2, RowShape, MergedShape
    <3> HIDE DEF m
    <3>4. QED
      BY <2>2, <3>1, <3>3 DEF m
  <2>3. CASE op.call = "delete"
    <3>1. rows'[op.kind] = Absent
      BY <2>3, AppliedRows
    <3>2. QED
      BY <2>3, <3>1 DEF Absent
  <2>4. QED
    BY <1>1, <2>1, <2>2, <2>3
<1>5. \A k \in Kinds : rows'[k] = [parent |-> rows'[k].parent, value |-> rows'[k].value]
  BY <1>3, <1>4
<1>6. ASSUME NEW k \in Kinds, k # op.kind
      PROVE  Exists(k)' <=> Exists(k)
  <2>1. CASE k \in Writes(op)
    <3>1. rows[k].value # NoValue
      BY <1>6, <2>1, AppliedRows, RowShape DEF ChildrenOf
    <3>2. QED
      BY <1>3, <1>6, <3>1, RowShape DEF Exists, Absent
  <2>2. CASE k \notin Writes(op)
    BY <2>2, AppliedRows DEF Exists
  <2>3. QED
    BY <2>1, <2>2
<1>7. /\ op.call = "delete" => ~Exists(op.kind)'
      /\ op.call # "delete" => Exists(op.kind)'
  BY <1>1, <1>4, KindsAssumption DEF Exists, Absent
<1>8. ASSUME NEW k \in Kinds
      PROVE  Exists(k)' <=> rows'[k].value # NoValue
  <2>1. CASE k # op.kind
    BY <1>3, <1>6, <2>1, RowShape
  <2>2. CASE k = op.kind
    BY <1>1, <1>4, <1>7, <2>2, KindsAssumption DEF Absent
  <2>3. QED
    BY <2>1, <2>2
<1>9. QED
  BY <1>3, <1>4, <1>5, <1>6, <1>7, <1>8

(* Foreign keys survive an accepted call. *)
LEMMA TablesApplied ==
  ASSUME Tables, NEW op \in Op, Accepted(op), rows' = Applied(op)
  PROVE  Tables'
<1>0. CASE op.columns = {}
  <2>1. rows' = rows
    BY <1>0 DEF Applied
  <2>2. QED
    BY <2>1 DEF Tables, TablesOK, Exists
<1> SUFFICES ASSUME op.columns # {} PROVE Tables'
  BY <1>0
<1>1. /\ op.call \in {"add", "update", "delete"} /\ op.kind \in Kinds
      /\ op.call \in {"add", "update"} => op.value \in Values
      /\ op.kind # None
  BY OpShape
<1>2. DOMAIN rows' = Kinds
  BY AppliedRows
<1>3. ASSUME NEW k \in Kinds
      PROVE  rows'[k] \in RowOf(k) \cup {Absent}
  <2>1. CASE k \notin Writes(op)
    <3>1. rows'[k] = rows[k]
      BY <2>1, AppliedRows
    <3>2. QED
      BY <3>1 DEF Tables, TablesOK
  <2>2. CASE k # op.kind /\ k \in Writes(op)
    <3>1. k \in MayBeOrphan /\ k \in ChildrenOf(op.kind)
      BY <2>2, AppliedRows
    <3>2. rows'[k] = [parent |-> None, value |-> rows[k].value]
      BY <2>2, AppliedRows
    <3>3. rows[k].value \in Values
      BY <3>1, RowShape DEF ChildrenOf
    <3>4. QED
      BY <3>1, <3>2, <3>3 DEF RowOf
  <2>3. CASE k = op.kind /\ op.call = "add"
    <3>1. rows'[k] = [parent |-> ParentOf(k), value |-> op.value]
      BY <2>3, AppliedRows
    <3>2. QED
      BY <1>1, <2>3, <3>1 DEF RowOf
  <2>4. CASE k = op.kind /\ op.call = "update"
    <3>1. Exists(k)
      BY <2>4 DEF Accepted
    <3>2. rows'[k] = [parent |-> rows'[k].parent, value |-> rows'[k].value]
          /\ rows'[k].parent = rows[k].parent /\ rows'[k].value \in Values
      BY <1>1, <2>4, AppliedValues
    <3>3. rows[k].parent \in {ParentOf(k)} \cup (IF k \in MayBeOrphan THEN {None} ELSE {})
      BY <3>1, RowShape DEF RowOf
    <3>4. QED
      BY <3>2, <3>3 DEF RowOf
  <2>5. CASE k = op.kind /\ op.call = "delete"
    BY <2>5, AppliedRows
  <2>6. QED
    BY <1>1, <2>1, <2>2, <2>3, <2>4, <2>5
<1>4. ASSUME NEW k \in Kinds, Exists(k)', rows'[k].parent # None
      PROVE  Exists(rows[k].parent)'
  <2> DEFINE p == rows'[k].parent
  <2>1. CASE k = op.kind /\ op.call = "add"
    <3>1. p = ParentOf(k) /\ p \in Kinds /\ p # k
      BY <1>4, <2>1, AppliedValues, KindsAssumption DEF ParentOf, AllKinds, None
    <3>2. Exists(p)
      BY <1>4, <2>1, <3>1 DEF Accepted
    <3>3. QED
      BY <2>1, <3>1, <3>2, AppliedValues
  <2>2. CASE ~(k = op.kind /\ op.call = "add")
    <3>1. op.call = "delete" => k # op.kind
      BY <1>4, AppliedValues
    <3>2. p = rows[k].parent /\ Exists(k)
      <4>1. CASE k = op.kind
        BY <1>1, <1>4, <2>2, <3>1, <4>1, AppliedValues DEF Accepted
      <4>2. CASE k # op.kind
        BY <1>4, <4>2, AppliedValues
      <4>3. QED
        BY <4>1, <4>2
    <3>3. Exists(p) /\ p \in Kinds
      BY <1>4, <3>2, RowShape, KindsAssumption DEF Tables
    <3>4. op.call = "delete" => p # op.kind
      BY <3>1, AppliedValues
    <3>5. CASE p = op.kind
      BY <1>1, <3>4, <3>5, AppliedValues
    <3>6. CASE p # op.kind
      BY <3>3, <3>6, AppliedValues
    <3>7. QED
      BY <3>5, <3>6
  <2>3. QED
    BY <2>1, <2>2
<1>5. QED
  BY <1>2, <1>3, <1>4 DEF Tables, TablesOK

(* The children of a row after a call that does not conflict with writing  *)
(* it are among its children before.                                       *)
LEMMA ChildrenShrink ==
  ASSUME Tables, NEW a \in Op, NEW b \in Op, Accepted(a), ~Conflicts(a, b),
         a.columns # {}, b.columns # {}, rows' = Applied(a), b.call = "delete"
  PROVE  ChildrenOf(b.kind)' \subseteq ChildrenOf(b.kind)
<1> SUFFICES ASSUME NEW c \in Kinds, Exists(c)', rows'[c].parent = b.kind
             PROVE  c \in ChildrenOf(b.kind)
  BY DEF ChildrenOf
<1>1. a.kind \in Kinds /\ b.kind # None /\ b.kind \in Kinds
      /\ a.call \in {"add", "update", "delete"}
  BY OpShape
<1>2. CASE c = a.kind /\ a.call = "add"
  <2>1. ParentOf(a.kind) = b.kind
    BY <1>2, AppliedValues
  <2>2. b.kind \in KeyShared(a) /\ b.kind \in Removes(b)
    BY <1>2, <2>1 DEF KeyShared, Removes, Writes
  <2>3. QED
    BY <1>1, <2>2 DEF Conflicts
<1>3. CASE ~(c = a.kind /\ a.call = "add")
  <2>1. Exists(c) /\ rows[c].parent = b.kind
    <3>1. CASE c = a.kind
      BY <1>1, <1>3, <3>1, AppliedValues DEF Accepted
    <3>2. CASE c # a.kind
      BY <1>1, <3>2, AppliedValues
    <3>3. QED
      BY <3>1, <3>2
  <2>2. QED
    BY <1>1, <2>1 DEF ChildrenOf
<1>4. QED
  BY <1>2, <1>3

(* The row locks do their work: a call stays accepted when a transaction   *)
(* it does not conflict with commits, and locks no row it did not lock.    *)
LEMMA HeldApplied ==
  ASSUME Tables, NEW a \in Op, NEW b \in Op, Accepted(a), Accepted(b), ~Conflicts(a, b),
         rows' = Applied(a)
  PROVE  Accepted(b)' /\ Writes(b)' \subseteq Writes(b)
<1>0. CASE a.columns = {}
  <2>1. rows' = rows
    BY <1>0 DEF Applied
  <2>2. QED
    BY <2>1 DEF Accepted, Writes, Exists, ChildrenOf
<1>00. CASE b.columns = {}
  BY <1>00 DEF Accepted, Writes
<1> SUFFICES ASSUME a.columns # {}, b.columns # {}
             PROVE  Accepted(b)' /\ Writes(b)' \subseteq Writes(b)
  BY <1>0, <1>00
<1>1. /\ a.kind \in Kinds /\ b.kind \in Kinds
      /\ a.call \in {"add", "update", "delete"} /\ b.call \in {"add", "update", "delete"}
  BY OpShape
<1>2. b.kind # a.kind /\ ~(a.call = "delete" /\ a.kind \in KeyShared(b))
  BY <1>1 DEF Conflicts, Writes, Removes
<1>3. Exists(b.kind)' <=> Exists(b.kind)
  BY <1>1, <1>2, AppliedValues
<1>4. CASE b.call = "add"
  <2>1. ~Exists(b.kind)'
    BY <1>3, <1>4 DEF Accepted
  <2>2. ParentOf(b.kind) = None \/ Exists(ParentOf(b.kind))'
    <3>1. ASSUME ParentOf(b.kind) # None
          PROVE  Exists(ParentOf(b.kind))'
      <4>1. ParentOf(b.kind) \in Kinds /\ Exists(ParentOf(b.kind))
        BY <1>1, <1>4, <3>1, KindsAssumption DEF Accepted
      <4>2. CASE ParentOf(b.kind) = a.kind
        <5>1. a.call # "delete"
          BY <1>2, <1>4, <4>2 DEF KeyShared
        <5>2. QED
          BY <4>2, <5>1, AppliedValues
      <4>3. CASE ParentOf(b.kind) # a.kind
        BY <4>1, <4>3, AppliedValues
      <4>4. QED
        BY <4>2, <4>3
    <3>2. QED
      BY <3>1
  <2>3. QED
    BY <1>4, <2>1, <2>2 DEF Accepted, Writes
<1>5. CASE b.call = "update"
  BY <1>3, <1>5 DEF Accepted, Writes
<1>6. CASE b.call = "delete"
  <2>1. ChildrenOf(b.kind)' \subseteq ChildrenOf(b.kind)
    BY <1>6, ChildrenShrink
  <2>2. QED
    BY <1>6, <2>1 DEF Accepted, Writes
<1>7. QED
  BY <1>1, <1>4, <1>5, <1>6

-----------------------------------------------------------------------------
(* What an action does to the units, field by field *)

(* A step of the repository call of a unit. *)
Begin(u) ==
    \/ \E k \in Kinds, value \in Given : Insert(u, k, value) \/ Load(u, Update(k, value))
    \/ \E k \in Kinds : Load(u, Delete(k))
    \/ Flush(u)

LEMMA StageEffect ==
  ASSUME IInv, NEW u \in Units, NEW op, Stage(u, op)
  PROVE  /\ \A v \in Units : v # u => unit'[v] = unit[v] /\ (Active(v) => ~Conflicts(unit[v].op, op))
         /\ DOMAIN unit'[u].pending = {}
         /\ \/ Accepted(op) /\ unit'[u].pc = "staged" /\ unit'[u].op = op
            \/ unit'[u].pc = "failed"
         /\ rows' = rows /\ log' = log /\ seq' = seq /\ overlap' = overlap /\ silent' = silent
<1>1. CASE Accepted(op)
  BY <1>1 DEF Stage, NewUnit, IInv, Shape
<1>2. CASE ~Accepted(op)
  BY <1>2 DEF Stage, NewUnit, IInv, Shape
<1>3. QED
  BY <1>1, <1>2

LEMMA LoadEffect ==
  ASSUME IInv, NEW u \in Units, NEW op, Load(u, op)
  PROVE  /\ unit[u].pc = "idle"
         /\ \A v \in Units : v # u => unit'[v] = unit[v]
         /\ DOMAIN unit'[u].pending = {}
         /\ \/ unit'[u].pc = "loaded" /\ unit'[u].op = op
            \/ unit'[u].pc = "failed"
         /\ rows' = rows /\ log' = log /\ seq' = seq /\ overlap' = overlap /\ silent' = silent
<1>1. CASE op.call = "update" => Exists(op.kind)
  BY <1>1 DEF Load, NewUnit, IInv, Shape
<1>2. CASE ~(op.call = "update" => Exists(op.kind))
  BY <1>2 DEF Load, NewUnit, IInv, Shape
<1>3. QED
  BY <1>1, <1>2

LEMMA BeginEffect ==
  ASSUME IInv, Staged, NEW u \in Units, Begin(u)
  PROVE  /\ unit[u].pc \in {"idle", "loaded"}
         /\ \A v \in Units : v # u => unit'[v] = unit[v]
         /\ DOMAIN unit'[u].pending = {}
         /\ \/ /\ unit'[u].pc = "staged" /\ unit'[u].op \in Op /\ Accepted(unit'[u].op)
               /\ \A v \in Units : v # u /\ Active(v) => ~Conflicts(unit[v].op, unit'[u].op)
            \/ unit'[u].pc = "loaded" /\ unit'[u].op \in Op
            \/ unit'[u].pc = "failed"
         /\ rows' = rows /\ log' = log /\ seq' = seq /\ overlap' = overlap /\ silent' = silent
<1>1. ASSUME NEW op \in Op, unit[u].pc \in {"idle", "loaded"}, Stage(u, op)
      PROVE  /\ \A v \in Units : v # u => unit'[v] = unit[v]
             /\ DOMAIN unit'[u].pending = {}
             /\ \/ /\ unit'[u].pc = "staged" /\ unit'[u].op \in Op /\ Accepted(unit'[u].op)
                   /\ \A v \in Units : v # u /\ Active(v) => ~Conflicts(unit[v].op, unit'[u].op)
                \/ unit'[u].pc = "failed"
             /\ rows' = rows /\ log' = log /\ seq' = seq /\ overlap' = overlap /\ silent' = silent
  BY <1>1, StageEffect
<1>2. ASSUME NEW k \in Kinds, NEW value \in Given, Insert(u, k, value)
      PROVE  unit[u].pc \in {"idle", "loaded"} /\ \E op \in Op : Stage(u, op)
  BY <1>2, CallShape DEF Insert
<1>3. CASE Flush(u)
  <2>1. unit[u].pc = "loaded" /\ unit[u].op \in Op /\ Stage(u, Issued(unit[u].op))
    BY <1>3 DEF Flush, Staged
  <2>2. Issued(unit[u].op) \in Op
    BY <2>1, IssuedShape
  <2>3. QED
    BY <1>1, <2>1, <2>2
<1>4. CASE \E op \in Op : Load(u, op)
  BY <1>4, LoadEffect
<1>5. CASE \E op \in Op : unit[u].pc \in {"idle", "loaded"} /\ Stage(u, op)
  BY <1>1, <1>5
<1>6. ASSUME NEW k \in Kinds
      PROVE  Delete(k) \in Op /\ \A value \in Given : Update(k, value) \in Op
  BY CallShape
<1>7. QED
  BY <1>2, <1>3, <1>4, <1>5, <1>6 DEF Begin

LEMMA ReadEffect ==
  ASSUME IInv, NEW u \in Units, ReadLatest(u)
  PROVE  /\ unit[u].pc \in {"staged", "recorded"}
         /\ Cardinality(DOMAIN unit[u].pending) < MaxRecords
         /\ \A v \in Units : /\ v # u => unit'[v] = unit[v]
                             /\ unit'[v].op = unit[v].op
                             /\ unit'[v].pending = unit[v].pending
         /\ unit'[u].pc = "read"
         /\ unit'[u].prev = IF DOMAIN Visible(u) = {} THEN Genesis
                            ELSE Visible(u)[Max(DOMAIN Visible(u))].hash
         /\ overlap' = (overlap \/ \E v \in Units \ {u} : Recording(v))
         /\ rows' = rows /\ log' = log /\ seq' = seq /\ silent' = silent
<1> DEFINE h == IF DOMAIN Visible(u) = {} THEN Genesis
                ELSE Visible(u)[Max(DOMAIN Visible(u))].hash
<1>1. unit' = [unit EXCEPT ![u].pc = "read", ![u].prev = h]
  BY DEF ReadLatest, LatestId
<1>2. /\ unit[u].pc \in {"staged", "recorded"}
      /\ Cardinality(DOMAIN unit[u].pending) < MaxRecords
      /\ overlap' = (overlap \/ \E v \in Units \ {u} : Recording(v))
      /\ rows' = rows /\ log' = log /\ seq' = seq /\ silent' = silent
  BY DEF ReadLatest, Recording
<1> HIDE DEF h
<1>3. QED
  BY <1>1, <1>2 DEF IInv, Shape, h

LEMMA AppendEffect ==
  ASSUME IInv, NEW u \in Units, AppendRow(u)
  PROVE  /\ unit[u].pc = "read"
         /\ \A v \in Units : /\ v # u => unit'[v] = unit[v]
                             /\ unit'[v].op = unit[v].op
         /\ unit'[u].pc = "recorded"
         /\ DOMAIN unit'[u].pending = DOMAIN unit[u].pending \cup {seq + 1}
         /\ \A i \in DOMAIN unit[u].pending :
              i \in 1..seq /\ i # seq + 1 /\ unit'[u].pending[i] = unit[u].pending[i]
         /\ Hashed(unit'[u].pending[seq + 1], seq + 1)
         /\ unit'[u].pending[seq + 1].body.op = unit[u].op
         /\ unit'[u].pending[seq + 1].prev = unit[u].prev
         /\ rows' = rows /\ log' = log /\ overlap' = overlap /\ silent' = silent
         /\ seq \in Nat /\ seq' = seq + 1
<1> DEFINE body == [unit |-> u, op |-> unit[u].op, at |-> seq + 1]
           row == [body |-> body, prev |-> unit[u].prev, hash |-> ComputeHash(unit[u].prev, body)]
           old == unit[u].pending
           new == [i \in DOMAIN old \cup {seq + 1} |-> IF i = seq + 1 THEN row ELSE old[i]]
<1>1. /\ unit' = [unit EXCEPT ![u].pc = "recorded", ![u].pending = new]
      /\ log' = log /\ seq' = seq + 1 /\ unit[u].pc = "read" /\ rows' = rows
      /\ overlap' = overlap /\ silent' = silent
  BY DEF AppendRow
<1>2. Hashed(row, seq + 1) /\ row.body.op = unit[u].op /\ row.prev = unit[u].prev
  BY DEF Hashed
<1> HIDE DEF row
<1>3. seq \in Nat /\ \A i \in DOMAIN old : i \in 1..seq /\ i # seq + 1
  BY DEF IInv, Shape, Pending
<1>4. /\ DOMAIN new = DOMAIN old \cup {seq + 1}
      /\ new[seq + 1] = row
      /\ \A i \in DOMAIN old : new[i] = old[i]
  BY <1>3
<1> HIDE DEF new
<1>5. /\ unit'[u].pc = "recorded" /\ unit'[u].pending = new
      /\ \A v \in Units : v # u => unit'[v] = unit[v]
      /\ \A v \in Units : unit'[v].op = unit[v].op
  BY <1>1 DEF IInv, Shape
<1>6. QED
  BY <1>1, <1>2, <1>3, <1>4, <1>5

LEMMA CommitEffect ==
  ASSUME IInv, NEW u \in Units, Commit(u)
  PROVE  /\ unit[u].pc \in {"staged", "recorded"}
         /\ \A v \in Units : v # u => unit'[v] = unit[v]
         /\ unit'[u].pc = "done" /\ DOMAIN unit'[u].pending = {}
         /\ rows' = Applied(unit[u].op)
         /\ log' = Visible(u)
         /\ DOMAIN log' = DOMAIN log \cup DOMAIN unit[u].pending
         /\ \A i \in DOMAIN log : log'[i] = log[i]
         /\ \A i \in DOMAIN unit[u].pending : i \notin DOMAIN log /\ log'[i] = unit[u].pending[i]
         /\ seq' = seq /\ overlap' = overlap
         /\ silent' = IF unit[u].pc = "staged" THEN silent \cup Writes(unit[u].op) ELSE silent
<1>1. /\ unit' = [unit EXCEPT ![u] = [NewUnit EXCEPT !.pc = "done"]]
      /\ log' = Visible(u) /\ seq' = seq /\ overlap' = overlap
      /\ unit[u].pc \in {"staged", "recorded"} /\ rows' = Applied(unit[u].op)
      /\ silent' = IF unit[u].pc = "staged" THEN silent \cup Writes(unit[u].op) ELSE silent
  BY DEF Commit
<1>2. /\ unit'[u].pc = "done" /\ DOMAIN unit'[u].pending = {}
      /\ \A v \in Units : v # u => unit'[v] = unit[v]
  BY <1>1 DEF IInv, Shape, NewUnit
<1>3. \A i \in DOMAIN unit[u].pending : i \notin DOMAIN log
  BY DEF IInv, Pending
<1>4. QED
  BY <1>1, <1>2, <1>3, VisibleRows

LEMMA RollbackEffect ==
  ASSUME IInv, NEW u \in Units, Rollback(u)
  PROVE  /\ Active(u) \/ unit[u].pc = "loaded"
         /\ \A v \in Units : v # u => unit'[v] = unit[v]
         /\ unit'[u].pc = "failed" /\ DOMAIN unit'[u].pending = {}
         /\ rows' = rows /\ log' = log /\ seq' = seq /\ overlap' = overlap /\ silent' = silent
<1>1. /\ unit' = [unit EXCEPT ![u] = [NewUnit EXCEPT !.pc = "failed"]] /\ (Active(u) \/ unit[u].pc = "loaded")
      /\ rows' = rows /\ log' = log /\ seq' = seq /\ overlap' = overlap /\ silent' = silent
  BY DEF Rollback
<1>2. /\ unit'[u].pc = "failed" /\ DOMAIN unit'[u].pending = {}
      /\ \A v \in Units : v # u => unit'[v] = unit[v]
  BY <1>1 DEF IInv, Shape, NewUnit
<1>3. QED
  BY <1>1, <1>2

-----------------------------------------------------------------------------
(* Calls, tables and locks *)

LEMMA NextStaged == IInv /\ Staged /\ [Next]_vars => Staged'
<1> SUFFICES ASSUME IInv, Staged, [Next]_vars PROVE Staged'
  OBVIOUS
<1>1. ASSUME NEW u \in Units, Begin(u) PROVE Staged'
  BY <1>1, BeginEffect DEF Staged, Active, Places
<1>2. ASSUME NEW u \in Units, ReadLatest(u) PROVE Staged'
  BY <1>2, ReadEffect DEF Staged, Active, Places
<1>3. ASSUME NEW u \in Units, AppendRow(u) PROVE Staged'
  BY <1>3, AppendEffect DEF Staged, Active, Places
<1>4. ASSUME NEW u \in Units, Commit(u) PROVE Staged'
  BY <1>4, CommitEffect DEF Staged, Active, Places
<1>5. ASSUME NEW u \in Units, Rollback(u) PROVE Staged'
  BY <1>5, RollbackEffect DEF Staged, Active, Places
<1>6. CASE UNCHANGED vars
  BY <1>6 DEF vars, Staged, Active
<1>7. QED
  BY <1>1, <1>2, <1>3, <1>4, <1>5, <1>6 DEF Next, Begin

(* A step that commits nothing keeps the locks if no unit gets a call. *)
LEMMA HeldQuiet ==
  ASSUME Tables, Held, rows' = rows,
         \A v \in Units : Active(v)' => Active(v) /\ unit'[v].op = unit[v].op
  PROVE  Tables' /\ Held'
<1>1. Tables'
  BY DEF Tables, TablesOK, Exists
<1>2. \A op : (Accepted(op)' <=> Accepted(op)) /\ Writes(op)' = Writes(op)
  BY DEF Accepted, Writes, Exists, ChildrenOf
<1>3. \A a, b : Conflicts(a, b)' <=> Conflicts(a, b)
  BY <1>2 DEF Conflicts, Removes, KeyShared
<1>4. QED
  BY <1>1, <1>2, <1>3 DEF Held

(* Conflicts is symmetric between calls. *)
LEMMA ConflictsSym ==
  ASSUME NEW a \in Op, NEW b \in Op, Conflicts(a, b)
  PROVE  Conflicts(b, a)
  BY DEF Conflicts

LEMMA NextHeld == IInv /\ Staged /\ Tables /\ Held /\ [Next]_vars => Tables' /\ Held'
<1> SUFFICES ASSUME IInv, Staged, Tables, Held, [Next]_vars PROVE Tables' /\ Held'
  OBVIOUS
<1>1. ASSUME NEW u \in Units, Begin(u) PROVE Tables' /\ Held'
  <2> DEFINE op == unit'[u].op
  <2>1. /\ \A v \in Units : v # u => unit'[v] = unit[v]
        /\ \/ /\ unit'[u].pc = "staged" /\ op \in Op /\ Accepted(op)
              /\ \A v \in Units : v # u /\ Active(v) => ~Conflicts(unit[v].op, op)
           \/ unit'[u].pc \in {"loaded", "failed"}
        /\ rows' = rows
    BY <1>1, BeginEffect
  <2> HIDE DEF op
  <2>2. CASE unit'[u].pc \in {"loaded", "failed"}
    BY <2>1, <2>2, HeldQuiet DEF Active
  <2>3. CASE /\ unit'[u].pc = "staged" /\ op \in Op /\ Accepted(op)
             /\ \A v \in Units : v # u /\ Active(v) => ~Conflicts(unit[v].op, op)
    <3>1. Tables'
      BY <2>1 DEF Tables, TablesOK, Exists
    <3>2. \A o : (Accepted(o)' <=> Accepted(o)) /\ Writes(o)' = Writes(o)
      BY <2>1 DEF Accepted, Writes, Exists, ChildrenOf
    <3>3. \A a, b : Conflicts(a, b)' <=> Conflicts(a, b)
      BY <3>2 DEF Conflicts, Removes, KeyShared
    <3>4. ASSUME NEW v \in Units, Active(v)' PROVE Accepted(unit[v].op)'
      <4>1. CASE v = u
        BY <2>3, <3>2, <4>1 DEF op
      <4>2. CASE v # u
        BY <2>1, <3>2, <3>4, <4>2 DEF Held, Active
      <4>3. QED
        BY <4>1, <4>2
    <3>5. ASSUME NEW v \in Units, v # u, Active(v)'
          PROVE  ~Conflicts(unit'[v].op, op) /\ ~Conflicts(op, unit'[v].op)
      <4>1. unit'[v].op = unit[v].op /\ unit[v].op \in Op /\ ~Conflicts(unit[v].op, op)
        BY <2>1, <2>3, <3>5 DEF Staged, Active
      <4>2. QED
        BY <2>3, <4>1, ConflictsSym
    <3>6. ASSUME NEW v \in Units, NEW w \in Units, v # w, Active(v)', Active(w)'
          PROVE  ~Conflicts(unit[v].op, unit[w].op)'
      <4>1. CASE v = u
        BY <3>3, <3>5, <3>6, <4>1 DEF op
      <4>2. CASE w = u
        BY <3>3, <3>5, <3>6, <4>2 DEF op
      <4>3. CASE v # u /\ w # u
        BY <2>1, <3>3, <3>6, <4>3 DEF Held, Active
      <4>4. QED
        BY <4>1, <4>2, <4>3
    <3>7. QED
      BY <3>1, <3>4, <3>6 DEF Held
  <2>4. QED
    BY <2>1, <2>2, <2>3
<1>2. ASSUME NEW u \in Units, ReadLatest(u) PROVE Tables' /\ Held'
  BY <1>2, ReadEffect, HeldQuiet DEF Active
<1>3. ASSUME NEW u \in Units, AppendRow(u) PROVE Tables' /\ Held'
  BY <1>3, AppendEffect, HeldQuiet DEF Active
<1>4. ASSUME NEW u \in Units, Commit(u) PROVE Tables' /\ Held'
  <2> DEFINE a == unit[u].op
  <2>1. /\ unit[u].pc \in {"staged", "recorded"} /\ unit'[u].pc = "done" /\ rows' = Applied(a)
        /\ \A v \in Units : v # u => unit'[v] = unit[v]
    BY <1>4, CommitEffect
  <2>2. a \in Op /\ Accepted(a)
    BY <2>1 DEF Staged, Held, Active
  <2>3. Tables'
    BY <2>1, <2>2, TablesApplied
  <2>4. ASSUME NEW v \in Units, Active(v)'
        PROVE  /\ v # u /\ Active(v) /\ unit'[v].op = unit[v].op /\ unit[v].op \in Op
               /\ Accepted(unit[v].op)' /\ Writes(unit[v].op)' \subseteq Writes(unit[v].op)
    <3>1. v # u /\ Active(v) /\ unit'[v].op = unit[v].op /\ unit[v].op \in Op
      BY <2>1, <2>4 DEF Active, Staged
    <3> DEFINE b == unit[v].op
    <3>2. Accepted(b) /\ ~Conflicts(a, b) /\ b \in Op
      BY <2>1, <3>1 DEF Held, Active
    <3> HIDE DEF b
    <3>3. Accepted(b)' /\ Writes(b)' \subseteq Writes(b)
      <4>1. b' = b
        BY <3>1 DEF b
      <4> HIDE DEF a
      <4>2. QED
        BY <2>1, <2>2, <3>2, <4>1, HeldApplied DEF Accepted, Writes, Exists, ChildrenOf
    <3>4. QED
      BY <3>1, <3>3 DEF b
  <2>5. ASSUME NEW v \in Units, NEW w \in Units, v # w, Active(v)', Active(w)'
        PROVE  ~Conflicts(unit[v].op, unit[w].op)'
    <3>1. ~Conflicts(unit[v].op, unit[w].op)
      BY <2>4, <2>5 DEF Held
    <3>2. QED
      BY <2>4, <2>5, <3>1 DEF Conflicts, Removes, KeyShared
  <2>6. QED
    BY <2>3, <2>4, <2>5 DEF Held
<1>5. ASSUME NEW u \in Units, Rollback(u) PROVE Tables' /\ Held'
  BY <1>5, RollbackEffect, HeldQuiet DEF Active
<1>6. CASE UNCHANGED vars
  BY <1>6, HeldQuiet DEF vars, Active
<1>7. QED
  BY <1>1, <1>2, <1>3, <1>4, <1>5, <1>6 DEF Next, Begin

-----------------------------------------------------------------------------
(* Records *)

LEMMA NextHashed == IInv /\ Staged /\ AllHashed /\ [Next]_vars => AllHashed'
<1> SUFFICES ASSUME IInv, Staged, AllHashed, [Next]_vars PROVE AllHashed'
  OBVIOUS
<1>1. ASSUME NEW u \in Units, Begin(u) PROVE AllHashed'
  BY <1>1, BeginEffect DEF AllHashed, Hashed
<1>2. ASSUME NEW u \in Units, ReadLatest(u) PROVE AllHashed'
  BY <1>2, ReadEffect DEF AllHashed, Hashed
<1>3. ASSUME NEW u \in Units, AppendRow(u) PROVE AllHashed'
  <2>1. /\ \A v \in Units : v # u => unit'[v] = unit[v]
        /\ unit'[u].op = unit[u].op
        /\ DOMAIN unit'[u].pending = DOMAIN unit[u].pending \cup {seq + 1}
        /\ \A i \in DOMAIN unit[u].pending : unit'[u].pending[i] = unit[u].pending[i]
        /\ Hashed(unit'[u].pending[seq + 1], seq + 1)
        /\ unit'[u].pending[seq + 1].body.op = unit[u].op
        /\ log' = log
    BY <1>3, AppendEffect
  <2>2. ASSUME NEW v \in Units, NEW i \in DOMAIN unit'[v].pending
        PROVE  Hashed(unit'[v].pending[i], i) /\ unit'[v].pending[i].body.op = unit'[v].op
    <3>1. CASE v # u
      BY <2>1, <2>2, <3>1 DEF AllHashed
    <3>2. CASE v = u /\ i = seq + 1
      BY <2>1, <3>2
    <3>3. CASE v = u /\ i # seq + 1
      BY <2>1, <2>2, <3>3 DEF AllHashed
    <3>4. QED
      BY <3>1, <3>2, <3>3
  <2>3. QED
    BY <2>1, <2>2 DEF AllHashed, Hashed
<1>4. ASSUME NEW u \in Units, Commit(u) PROVE AllHashed'
  <2>1. /\ \A v \in Units : v # u => unit'[v] = unit[v]
        /\ DOMAIN unit'[u].pending = {}
        /\ DOMAIN log' = DOMAIN log \cup DOMAIN unit[u].pending
        /\ \A i \in DOMAIN log : log'[i] = log[i]
        /\ \A i \in DOMAIN unit[u].pending : log'[i] = unit[u].pending[i]
    BY <1>4, CommitEffect
  <2>2. ASSUME NEW i \in DOMAIN log' PROVE Hashed(log'[i], i)
    <3>1. CASE i \in DOMAIN log
      BY <2>1, <3>1 DEF AllHashed
    <3>2. CASE i \in DOMAIN unit[u].pending
      BY <2>1, <3>2 DEF AllHashed
    <3>3. QED
      BY <2>1, <2>2, <3>1, <3>2
  <2>3. ASSUME NEW v \in Units, NEW i \in DOMAIN unit'[v].pending
        PROVE  Hashed(unit'[v].pending[i], i) /\ unit'[v].pending[i].body.op = unit'[v].op
    BY <2>1, <2>3 DEF AllHashed
  <2>4. QED
    BY <2>2, <2>3 DEF AllHashed, Hashed
<1>5. ASSUME NEW u \in Units, Rollback(u) PROVE AllHashed'
  BY <1>5, RollbackEffect DEF AllHashed, Hashed
<1>6. CASE UNCHANGED vars
  BY <1>6 DEF vars, AllHashed, Hashed
<1>7. QED
  BY <1>1, <1>2, <1>3, <1>4, <1>5, <1>6 DEF Next, Begin

LEMMA NextLater == IInv /\ Staged /\ Held /\ AllHashed /\ Later /\ [Next]_vars => Later'
<1> SUFFICES ASSUME IInv, Staged, Held, AllHashed, Later, [Next]_vars PROVE Later'
  OBVIOUS
<1>1. ASSUME NEW u \in Units, Begin(u) PROVE Later'
  BY <1>1, BeginEffect DEF Later, About
<1>2. ASSUME NEW u \in Units, ReadLatest(u) PROVE Later'
  BY <1>2, ReadEffect DEF Later, About
<1>3. ASSUME NEW u \in Units, AppendRow(u) PROVE Later'
  <2>1. /\ \A v \in Units : v # u => unit'[v] = unit[v]
        /\ unit'[u].op = unit[u].op
        /\ DOMAIN unit'[u].pending = DOMAIN unit[u].pending \cup {seq + 1}
        /\ log' = log /\ seq \in Nat
    BY <1>3, AppendEffect
  <2>2. \A j \in DOMAIN log : j < seq + 1
    BY <2>1 DEF IInv, Shape
  <2>3. QED
    BY <2>1, <2>2 DEF Later, About
<1>4. ASSUME NEW u \in Units, Commit(u) PROVE Later'
  <2>1. /\ \A v \in Units : v # u => unit'[v] = unit[v]
        /\ unit[u].pc \in {"staged", "recorded"} /\ DOMAIN unit'[u].pending = {}
        /\ DOMAIN log' = DOMAIN log \cup DOMAIN unit[u].pending
        /\ \A i \in DOMAIN log : log'[i] = log[i]
        /\ \A i \in DOMAIN unit[u].pending : log'[i] = unit[u].pending[i]
    BY <1>4, CommitEffect
  <2>2. ASSUME NEW v \in Units, NEW i \in DOMAIN unit'[v].pending, NEW j \in DOMAIN log',
               log'[j].body.op.kind = unit'[v].op.kind, log'[j].body.op.columns # {},
               unit'[v].op.columns # {}
        PROVE  j < i
    <3>1. v # u /\ i \in DOMAIN unit[v].pending /\ unit'[v].op = unit[v].op
      BY <2>1, <2>2
    <3>2. CASE j \in DOMAIN log
      BY <2>1, <2>2, <3>1, <3>2 DEF Later, About
    <3>3. CASE j \in DOMAIN unit[u].pending
      <4>1. unit[u].op.kind = unit[v].op.kind /\ unit[u].op.columns # {} /\ unit[v].op.columns # {}
        BY <2>1, <2>2, <3>1, <3>3 DEF AllHashed
      <4>2. Active(u) /\ Active(v)
        BY <2>1, <3>1 DEF Staged, Active
      <4>3. unit[u].op.kind \in Writes(unit[u].op) /\ unit[v].op.kind \in Writes(unit[v].op)
        BY <4>1 DEF Writes
      <4>4. Conflicts(unit[u].op, unit[v].op)
        BY <4>1, <4>3 DEF Conflicts
      <4>5. QED
        BY <3>1, <4>2, <4>4 DEF Held
    <3>4. QED
      BY <2>1, <2>2, <3>2, <3>3
  <2>3. QED
    BY <2>2 DEF Later, About
<1>5. ASSUME NEW u \in Units, Rollback(u) PROVE Later'
  BY <1>5, RollbackEffect DEF Later, About
<1>6. CASE UNCHANGED vars
  BY <1>6 DEF vars, Later, About
<1>7. QED
  BY <1>1, <1>2, <1>3, <1>4, <1>5, <1>6 DEF Next, Begin

(* What the trail says about one table. *)
Explained(k) ==
    /\ Exists(k) <=> IF About(k) = {} THEN k \in Present
                    ELSE log[Max(About(k))].body.op.call # "delete"
    /\ Exists(k) => \A c \in Columns :
         rows[k].value[c] = IF Wrote(k, c) = {} THEN First[c]
                            ELSE log[Max(Wrote(k, c))].body.op.value[c]

LEMMA TrailParts == TrailExplains <=> \A k \in Kinds \ silent : Explained(k)
  BY DEF TrailExplains, Explained

(* A commit adds its entries to those about its table and its columns. *)
LEMMA AboutCommit ==
  ASSUME IInv, AllHashed, NEW u \in Units, Commit(u), NEW k, NEW c
  PROVE  /\ unit[u].op.kind # k \/ unit[u].op.columns = {} =>
              About(k)' = About(k) /\ Wrote(k, c)' = Wrote(k, c)
         /\ c \notin unit[u].op.columns => Wrote(k, c)' = Wrote(k, c)
         /\ unit[u].op.kind = k /\ unit[u].op.columns # {} =>
              /\ About(k)' = About(k) \cup DOMAIN unit[u].pending
              /\ c \in unit[u].op.columns => Wrote(k, c)' = Wrote(k, c) \cup DOMAIN unit[u].pending
<1> DEFINE op == unit[u].op
           old == unit[u].pending
<1>1. /\ DOMAIN log' = DOMAIN log \cup DOMAIN old
      /\ \A i \in DOMAIN log : log'[i] = log[i]
      /\ \A i \in DOMAIN old : log'[i].body.op = op
  BY CommitEffect DEF AllHashed
<1> HIDE DEF op, old
<1>2. About(k)' = {i \in DOMAIN log' : log'[i].body.op.kind = k /\ log'[i].body.op.columns # {}}
  BY DEF About
<1>3. Wrote(k, c)' = {i \in DOMAIN log' : /\ log'[i].body.op.kind = k /\ log'[i].body.op.columns # {}
                                          /\ c \in log'[i].body.op.columns}
  BY DEF Wrote, About
<1>4. op.kind # k \/ op.columns = {} => About(k)' = About(k)
  BY <1>1, <1>2 DEF About
<1>5. (op.kind # k \/ c \notin op.columns) => Wrote(k, c)' = Wrote(k, c)
  BY <1>1, <1>3 DEF Wrote, About
<1>6. op.kind = k /\ op.columns # {} => About(k)' = About(k) \cup DOMAIN old
  BY <1>1, <1>2 DEF About
<1>7. op.kind = k /\ c \in op.columns => Wrote(k, c)' = Wrote(k, c) \cup DOMAIN old
  BY <1>1, <1>3 DEF Wrote, About
<1>8. QED
  BY <1>4, <1>5, <1>6, <1>7 DEF op, old

(* Its entries come last, and older entries are as they were. *)
LEMMA LastEntry ==
  ASSUME IInv, AllHashed, Later, NEW u \in Units, Commit(u), unit[u].op.columns # {},
         DOMAIN unit[u].pending # {}, NEW S, S \subseteq About(unit[u].op.kind)
  PROVE  log'[Max(S \cup DOMAIN unit[u].pending)].body.op = unit[u].op
<1> DEFINE old == unit[u].pending
           T == S \cup DOMAIN old
<1>1. \A i \in DOMAIN old : i \in 1..seq /\ log'[i].body.op = unit[u].op
  <2>1. \A i \in DOMAIN old : log'[i] = old[i]
    BY CommitEffect
  <2>2. QED
    BY <2>1 DEF AllHashed, IInv, Pending
<1>2. seq \in Nat /\ About(unit[u].op.kind) \subseteq 1..seq
  BY DEF IInv, Shape, About
<1>3. T # {} /\ T \subseteq 1..seq
  BY <1>1, <1>2
<1>4. Max(T) \in T /\ \A y \in T : y <= Max(T)
  BY <1>2, <1>3, MaxIs
<1> HIDE DEF T
<1>5. Max(T) \in DOMAIN old
  <2>1. PICK i \in DOMAIN old : TRUE
    OBVIOUS
  <2>2. i <= Max(T) /\ i \in Nat /\ Max(T) \in Nat
    <3>1. i \in T
      BY DEF T
    <3>2. Max(T) \in 1..seq /\ i \in 1..seq
      BY <1>3, <1>4, <3>1
    <3>3. QED
      BY <1>2, <1>4, <3>1, <3>2
  <2>3. Max(T) \notin S
    BY <2>2 DEF Later
  <2>4. QED
    BY <1>4, <2>3 DEF T
<1>6. QED
  BY <1>1, <1>5 DEF T

LEMMA OldEntry ==
  ASSUME IInv, NEW u \in Units, Commit(u), NEW S, S # {}, S \subseteq DOMAIN log
  PROVE  log'[Max(S)] = log[Max(S)]
<1>1. seq \in Nat /\ S \subseteq 1..seq
  BY DEF IInv, Shape
<1>2. Max(S) \in S
  BY <1>1, MaxIs
<1>3. QED
  BY <1>2, CommitEffect

(* A table that is left alone. *)
LEMMA TrailKept ==
  ASSUME IInv, AllHashed, NEW u \in Units, Commit(u), NEW k, Explained(k),
         unit[u].op.kind # k \/ unit[u].op.columns = {},
         Exists(k)' <=> Exists(k), rows'[k].value = rows[k].value
  PROVE  Explained(k)'
<1>1. About(k)' = About(k) /\ \A c : Wrote(k, c)' = Wrote(k, c)
  BY AboutCommit
<1>2. About(k) \subseteq DOMAIN log /\ \A c : Wrote(k, c) \subseteq DOMAIN log
  BY DEF About, Wrote
<1>3. About(k) # {} => log'[Max(About(k))] = log[Max(About(k))]
  BY <1>2, OldEntry
<1>4. \A c : Wrote(k, c) # {} => log'[Max(Wrote(k, c))] = log[Max(Wrote(k, c))]
  BY <1>2, OldEntry
<1>5. Exists(k)' <=> IF About(k)' = {} THEN k \in Present
                    ELSE log'[Max(About(k)')].body.op.call # "delete"
  BY <1>1, <1>3 DEF Explained
<1>6. ASSUME Exists(k)', NEW c \in Columns
      PROVE  rows'[k].value[c] = IF Wrote(k, c)' = {} THEN First[c]
                                 ELSE log'[Max(Wrote(k, c)')].body.op.value[c]
  BY <1>1, <1>4, <1>6 DEF Explained
<1>7. QED
  BY <1>5, <1>6 DEF Explained

(* The table that the call has changed, when the unit has recorded. *)
LEMMA TrailChanged ==
  ASSUME IInv, Staged, Tables, Held, AllHashed, Later, NEW u \in Units, Commit(u),
         unit[u].pc = "recorded", unit[u].op.columns # {},
         NEW k \in Kinds, k = unit[u].op.kind, Explained(k)
  PROVE  Explained(k)'
<1> DEFINE op == unit[u].op
           old == DOMAIN unit[u].pending
<1>0. op \in Op /\ Accepted(op) /\ rows' = Applied(op)
  BY CommitEffect DEF Staged, Held, Active
<1>1. op \in Op /\ Accepted(op) /\ rows' = Applied(op) /\ k = op.kind /\ op.columns # {}
      /\ op.call \in {"add", "update", "delete"} /\ op.columns \subseteq Columns
  <2>1. k = op.kind /\ op.columns # {}
    OBVIOUS
  <2> HIDE DEF op
  <2>2. op.call \in {"add", "update", "delete"} /\ op.columns \subseteq Columns
    BY <1>0, OpShape
  <2>3. QED
    BY <1>0, <2>1, <2>2
<1>2. old # {}
  BY DEF IInv, Pending
<1>3. About(k)' = About(k) \cup old /\ log'[Max(About(k) \cup old)].body.op = op
  BY <1>2, AboutCommit, LastEntry
<1>4. Exists(k)' <=> op.call # "delete"
  BY <1>1, AppliedValues
<1>5. ASSUME NEW c \in Columns, Exists(k)'
      PROVE  rows'[k].value[c] = IF Wrote(k, c)' = {} THEN First[c]
                                 ELSE log'[Max(Wrote(k, c)')].body.op.value[c]
  <2>0. Wrote(k, c) \subseteq About(k) /\ Wrote(k, c) \subseteq DOMAIN log
    BY DEF Wrote, About
  <2>1. CASE c \in op.columns
    <3>1. Wrote(k, c)' = Wrote(k, c) \cup old /\ Wrote(k, c)' # {}
      BY <1>2, <2>1, AboutCommit
    <3>2. log'[Max(Wrote(k, c) \cup old)].body.op = op
      BY <1>2, <2>0, LastEntry
    <3>3. rows'[k].value[c] = op.value[c]
      <4>1. CASE op.call = "add"
        BY <1>1, <4>1, AppliedValues
      <4>2. CASE op.call = "update"
        <5>1. rows'[k].value = Merged(rows[k].value, op) /\ rows[k].value \in Values
          BY <1>1, <4>2, AppliedValues, RowShape DEF Accepted
        <5>2. QED
          BY <1>1, <2>1, <4>2, <5>1, MergedShape
      <4>3. QED
        BY <1>1, <1>4, <1>5, <4>1, <4>2
    <3>4. QED
      BY <3>1, <3>2, <3>3
  <2>2. CASE c \notin op.columns
    <3>1. Wrote(k, c)' = Wrote(k, c)
      BY <2>2, AboutCommit
    <3>2. op.call = "update"
      BY <1>1, <1>4, <1>5, <2>2, OpShape
    <3>3. Exists(k) /\ rows'[k].value = Merged(rows[k].value, op) /\ rows[k].value \in Values
      BY <1>1, <3>2, AppliedValues, RowShape DEF Accepted
    <3>4. rows'[k].value[c] = rows[k].value[c]
      BY <1>1, <2>2, <3>2, <3>3, MergedShape
    <3>5. Wrote(k, c) # {} => log'[Max(Wrote(k, c))] = log[Max(Wrote(k, c))]
      BY <2>0, OldEntry
    <3>6. rows[k].value[c] = IF Wrote(k, c) = {} THEN First[c]
                             ELSE log[Max(Wrote(k, c))].body.op.value[c]
      BY <3>3 DEF Explained
    <3>7. QED
      BY <3>1, <3>4, <3>5, <3>6
  <2>3. QED
    BY <2>1, <2>2
<1>6. About(k)' # {} /\ (Exists(k)' <=> log'[Max(About(k)')].body.op.call # "delete")
  BY <1>2, <1>3, <1>4
<1>7. QED
  BY <1>5, <1>6 DEF Explained

LEMMA TrailCommit ==
  ASSUME IInv, Staged, Tables, Held, AllHashed, Later, TrailExplains,
         NEW u \in Units, Commit(u)
  PROVE  TrailExplains'
<1> DEFINE op == unit[u].op
<1>1. /\ unit[u].pc \in {"staged", "recorded"} /\ rows' = Applied(op)
      /\ silent' = IF unit[u].pc = "staged" THEN silent \cup Writes(op) ELSE silent
  BY CommitEffect
<1>2. op \in Op /\ Accepted(op) /\ op.kind \in Kinds
  BY <1>1, OpShape DEF Staged, Held, Active
<1>3. ASSUME NEW k \in Kinds, k \notin silent'
      PROVE  Explained(k)'
  <2>1. Explained(k)
    BY <1>1, <1>3, TrailParts
  <2>2. CASE op.columns = {}
    <3>1. rows' = rows
      BY <1>1, <2>2 DEF Applied
    <3>2. (Exists(k)' <=> Exists(k)) /\ rows'[k].value = rows[k].value
      BY <3>1 DEF Exists
    <3>3. QED
      BY <2>1, <2>2, <3>2, TrailKept
  <2>3. CASE op.columns # {} /\ k # op.kind
    <3>1. (Exists(k)' <=> Exists(k)) /\ rows'[k].value = rows[k].value
      BY <1>1, <1>2, <2>3, AppliedValues
    <3>2. QED
      BY <2>1, <2>3, <3>1, TrailKept
  <2>4. CASE op.columns # {} /\ k = op.kind
    <3>1. k \in Writes(op)
      BY <2>4 DEF Writes
    <3>2. unit[u].pc = "recorded"
      BY <1>1, <1>3, <3>1
    <3>3. QED
      BY <2>1, <2>4, <3>2, TrailChanged
  <2>5. QED
    BY <2>2, <2>3, <2>4
<1>4. QED
  BY <1>3 DEF TrailExplains, Explained

LEMMA NextTrail ==
  IInv /\ Staged /\ Tables /\ Held /\ AllHashed /\ Later /\ TrailExplains /\ [Next]_vars
    => TrailExplains'
<1> SUFFICES ASSUME IInv, Staged, Tables, Held, AllHashed, Later, TrailExplains, [Next]_vars
             PROVE  TrailExplains'
  OBVIOUS
<1>1. CASE rows' = rows /\ log' = log /\ silent' = silent
  <2>1. \A k : (Exists(k)' <=> Exists(k)) /\ About(k)' = About(k)
    BY <1>1 DEF Exists, About
  <2>2. \A k, c : Wrote(k, c)' = Wrote(k, c)
    BY <1>1, <2>1 DEF Wrote
  <2>3. QED
    BY <1>1, <2>1, <2>2 DEF TrailExplains
<1>2. CASE \E u \in Units : Commit(u)
  BY <1>2, TrailCommit
<1>3. QED
  BY <1>1, <1>2, BeginEffect, ReadEffect, AppendEffect, RollbackEffect DEF Next, Begin, vars

-----------------------------------------------------------------------------
(* Chains that verify *)

Before(table, i) == {j \in DOMAIN table : 1 <= j /\ j < i}

(* ExpectedPrev looks only at the last row before i. *)
LEMMA ExpectedSame ==
  ASSUME NEW n \in Nat, NEW i \in 1..(n + 1), NEW t1, NEW t2,
         Before(t1, i) = Before(t2, i), DOMAIN t1 \subseteq 1..n,
         \A j \in Before(t1, i) : t1[j].hash = t2[j].hash
  PROVE  ExpectedPrev(t1, 1, i) = ExpectedPrev(t2, 1, i)
<1> DEFINE S == Before(t1, i)
<1>1. S = {j \in DOMAIN t1 : 1 <= j /\ j < i} /\ S = {j \in DOMAIN t2 : 1 <= j /\ j < i}
  BY DEF Before
<1>2. S \subseteq 1..n
  BY DEF Before
<1> HIDE DEF S
<1>3. ExpectedPrev(t1, 1, i) = IF S = {} THEN Genesis ELSE t1[Max(S)].hash
  BY <1>1 DEF ExpectedPrev
<1>4. ExpectedPrev(t2, 1, i) = IF S = {} THEN Genesis ELSE t2[Max(S)].hash
  BY <1>1 DEF ExpectedPrev
<1>5. CASE S = {}
  BY <1>3, <1>4, <1>5
<1>6. CASE S # {}
  <2>1. Max(S) \in S
    BY <1>2, <1>6, MaxIs
  <2>2. t1[Max(S)].hash = t2[Max(S)].hash
    BY <2>1 DEF S
  <2>3. QED
    BY <1>3, <1>4, <1>6, <2>2
<1>7. QED
  BY <1>5, <1>6

Verified(table) == \A i \in DOMAIN table : RowOk(table, 1, i)

(* Tables with the same rows verify together. *)
LEMMA VerifiedSame ==
  ASSUME NEW n \in Nat, NEW t1, NEW t2, DOMAIN t1 \subseteq 1..n,
         DOMAIN t2 = DOMAIN t1, \A j \in DOMAIN t1 : t2[j] = t1[j],
         Verified(t1)
  PROVE  Verified(t2)
<1> SUFFICES ASSUME NEW i \in DOMAIN t1 PROVE RowOk(t2, 1, i)
  BY DEF Verified
<1>1. i \in 1..(n + 1) /\ RowOk(t1, 1, i)
  BY DEF Verified
<1>2. Before(t1, i) = Before(t2, i) /\ \A j \in Before(t1, i) : t1[j].hash = t2[j].hash
  BY DEF Before
<1>3. ExpectedPrev(t1, 1, i) = ExpectedPrev(t2, 1, i)
  BY <1>1, <1>2, ExpectedSame
<1>4. QED
  BY <1>1, <1>3 DEF RowOk

(* A table that verifies still does when the next row continues it. *)
LEMMA VerifiedMore ==
  ASSUME NEW n \in Nat, NEW t1, NEW t2, DOMAIN t1 \subseteq 1..n,
         DOMAIN t2 = DOMAIN t1 \cup {n + 1}, \A j \in DOMAIN t1 : t2[j] = t1[j],
         Verified(t1), Hashed(t2[n + 1], n + 1),
         t2[n + 1].prev = ExpectedPrev(t1, 1, n + 1)
  PROVE  Verified(t2)
<1>1. ASSUME NEW i \in 1..(n + 1)
      PROVE  ExpectedPrev(t1, 1, i) = ExpectedPrev(t2, 1, i)
  <2>1. Before(t1, i) = Before(t2, i)
    BY DEF Before
  <2>2. \A j \in Before(t1, i) : t1[j].hash = t2[j].hash
    BY DEF Before
  <2>3. QED
    BY <2>1, <2>2, ExpectedSame
<1>2. ASSUME NEW j \in DOMAIN t1 PROVE RowOk(t2, 1, j)
  <2>1. j \in 1..(n + 1) /\ RowOk(t1, 1, j)
    BY DEF Verified
  <2>2. QED
    BY <1>1, <2>1 DEF RowOk
<1>3. RowOk(t2, 1, n + 1)
  <2>1. n + 1 \in 1..(n + 1)
    OBVIOUS
  <2>2. QED
    BY <1>1, <2>1 DEF RowOk, Hashed
<1>4. QED
  BY <1>2, <1>3 DEF Verified

(* A unit that has appended nothing sees the log. *)
LEMMA VisibleLog ==
  ASSUME IInv, NEW u \in Units, DOMAIN unit[u].pending = {}, Verified(log)
  PROVE  Verified(Visible(u))
<1>1. DOMAIN Visible(u) = DOMAIN log /\ \A i \in DOMAIN log : Visible(u)[i] = log[i]
  BY VisibleRows
<1>2. seq \in Nat /\ DOMAIN log \subseteq 1..seq
  BY DEF IInv, Shape
<1>3. QED
  BY <1>1, <1>2, VerifiedSame

(* Serial, in terms of Verified. *)
LEMMA SerialParts ==
  Serial <=> (~overlap =>
      /\ \A u, v \in Units : Recording(u) /\ Recording(v) => u = v
      /\ Verified(log)
      /\ \A u \in Units : Recording(u) => Verified(Visible(u))
      /\ \A u \in Units : unit[u].pc = "read" =>
           unit[u].prev = ExpectedPrev(Visible(u), 1, seq + 1))
  BY DEF Serial, Verified

(* The same of the next state. *)
LEMMA SerialPrimed ==
  ASSUME ~overlap' =>
           /\ \A u, v \in Units : Recording(u)' /\ Recording(v)' => u = v
           /\ Verified(log')
           /\ \A u \in Units : Recording(u)' => Verified(Visible(u)')
           /\ \A u \in Units : unit'[u].pc = "read" =>
                unit'[u].prev = ExpectedPrev(Visible(u)', 1, seq' + 1)
  PROVE  Serial'
  BY DEF Serial, Verified, RowOk, ExpectedPrev

(* A step after which nobody records who did not, and that leaves the log  *)
(* and what the others see alone.                                          *)
LEMMA SerialQuiet ==
  ASSUME Serial, NEW u \in Units, log' = log, seq' = seq, overlap' = overlap,
         \A v \in Units : v # u => unit'[v] = unit[v],
         unit'[u].pc \notin {"read", "recorded"}
  PROVE  Serial'
<1>1. \A v \in Units : Recording(v)' => v # u /\ Recording(v) /\ unit'[v] = unit[v]
  BY DEF Recording
<1>2. \A v \in Units : v # u => Visible(v)' = Visible(v)
  BY DEF Visible
<1>3. \A v \in Units : unit'[v].pc = "read" => Recording(v)'
  BY DEF Recording
<1>4. QED
  BY <1>1, <1>2, <1>3, SerialParts, SerialPrimed

LEMMA NextSerial ==
  IInv /\ IInv' /\ Staged /\ Serial /\ [Next]_vars => Serial'
<1> SUFFICES ASSUME IInv, IInv', Staged, Serial, [Next]_vars PROVE Serial'
  OBVIOUS
<1>0. seq \in Nat /\ DOMAIN log \subseteq 1..seq
  BY DEF IInv, Shape
<1>1. ASSUME NEW u \in Units, Begin(u) PROVE Serial'
  BY <1>1, BeginEffect, SerialQuiet
<1>2. ASSUME NEW u \in Units, ReadLatest(u) PROVE Serial'
  <2> SUFFICES ASSUME ~overlap' PROVE Serial'
    BY SerialPrimed
  <2>1. /\ unit[u].pc \in {"staged", "recorded"}
        /\ \A v \in Units : /\ v # u => unit'[v] = unit[v]
                            /\ unit'[v].pending = unit[v].pending
        /\ unit'[u].pc = "read"
        /\ unit'[u].prev = IF DOMAIN Visible(u) = {} THEN Genesis
                           ELSE Visible(u)[Max(DOMAIN Visible(u))].hash
        /\ overlap' = (overlap \/ \E v \in Units \ {u} : Recording(v))
        /\ log' = log /\ seq' = seq
    BY <1>2, ReadEffect
  <2>2. ~overlap /\ \A v \in Units : v # u => ~Recording(v)
    BY <2>1
  <2>3. \A v \in Units : v # u => ~Recording(v)'
    BY <2>1, <2>2 DEF Recording
  <2>4. Visible(u)' = Visible(u)
    BY <2>1 DEF Visible
  <2>5. Verified(log)
    BY <2>2, SerialParts
  <2>6. Verified(Visible(u))
    <3>1. CASE unit[u].pc = "staged"
      BY <2>5, <3>1, VisibleLog DEF Staged
    <3>2. CASE unit[u].pc = "recorded"
      BY <2>2, <3>2, SerialParts DEF Recording
    <3>3. QED
      BY <2>1, <3>1, <3>2
  <2>7. unit'[u].prev = ExpectedPrev(Visible(u), 1, seq + 1)
    <3>1. DOMAIN Visible(u) \subseteq 1..seq
      BY VisibleIds
    <3>2. {j \in DOMAIN Visible(u) : 1 <= j /\ j < seq + 1} = DOMAIN Visible(u)
      BY <1>0, <3>1
    <3>3. QED
      BY <2>1, <3>2 DEF ExpectedPrev
  <2>8. \A v \in Units : unit'[v].pc = "read" => v = u
    BY <2>3 DEF Recording
  <2>9. QED
    BY <2>1, <2>3, <2>4, <2>5, <2>6, <2>7, <2>8, SerialPrimed
<1>3. ASSUME NEW u \in Units, AppendRow(u) PROVE Serial'
  <2> SUFFICES ASSUME ~overlap' PROVE Serial'
    BY SerialPrimed
  <2>1. /\ unit[u].pc = "read" /\ unit'[u].pc = "recorded"
        /\ \A v \in Units : v # u => unit'[v] = unit[v]
        /\ DOMAIN unit'[u].pending = DOMAIN unit[u].pending \cup {seq + 1}
        /\ \A i \in DOMAIN unit[u].pending : unit'[u].pending[i] = unit[u].pending[i]
        /\ Hashed(unit'[u].pending[seq + 1], seq + 1)
        /\ unit'[u].pending[seq + 1].prev = unit[u].prev
        /\ log' = log /\ overlap' = overlap /\ seq' = seq + 1
    BY <1>3, AppendEffect
  <2>2. Recording(u) /\ \A v \in Units : v # u => ~Recording(v)
    BY <2>1, SerialParts DEF Recording
  <2>3. \A v \in Units : v # u => ~Recording(v)'
    BY <2>1, <2>2 DEF Recording
  <2>4. /\ Verified(log) /\ Verified(Visible(u))
        /\ unit[u].prev = ExpectedPrev(Visible(u), 1, seq + 1)
    BY <2>1, <2>2, SerialParts
  <2>5. \A i \in DOMAIN unit[u].pending : i \notin DOMAIN log
    BY DEF IInv, Pending
  <2>6. seq + 1 \notin DOMAIN log
    BY <1>0
  <2>7. Visible(u)' = [i \in DOMAIN log \cup DOMAIN unit'[u].pending |->
                         IF i \in DOMAIN log THEN log[i] ELSE unit'[u].pending[i]]
    BY <2>1 DEF Visible
  <2>8. /\ DOMAIN Visible(u)' = DOMAIN Visible(u) \cup {seq + 1}
        /\ \A j \in DOMAIN Visible(u) : Visible(u)'[j] = Visible(u)[j]
        /\ Visible(u)'[seq + 1] = unit'[u].pending[seq + 1]
    <3>1. DOMAIN Visible(u) = DOMAIN log \cup DOMAIN unit[u].pending
      BY VisibleRows
    <3>2. DOMAIN Visible(u)' = DOMAIN log \cup DOMAIN unit'[u].pending
      BY <2>7
    <3>3. ASSUME NEW j \in DOMAIN Visible(u) PROVE Visible(u)'[j] = Visible(u)[j]
      BY <2>1, <2>5, <2>7, <3>1, VisibleRows
    <3>4. Visible(u)'[seq + 1] = unit'[u].pending[seq + 1]
      BY <2>1, <2>6, <2>7
    <3>5. QED
      BY <2>1, <3>1, <3>2, <3>3, <3>4
  <2>9. DOMAIN Visible(u) \subseteq 1..seq
    BY VisibleIds
  <2>10. Verified(Visible(u)')
    BY <1>0, <2>1, <2>4, <2>8, <2>9, VerifiedMore
  <2>11. \A v \in Units : unit'[v].pc # "read"
    BY <2>1, <2>3 DEF Recording
  <2>12. QED
    BY <2>1, <2>3, <2>4, <2>10, <2>11, SerialPrimed
<1>4. ASSUME NEW u \in Units, Commit(u) PROVE Serial'
  <2> SUFFICES ASSUME ~overlap' PROVE Serial'
    BY SerialPrimed
  <2>1. /\ unit[u].pc \in {"staged", "recorded"} /\ unit'[u].pc = "done"
        /\ \A v \in Units : v # u => unit'[v] = unit[v]
        /\ log' = Visible(u) /\ seq' = seq /\ overlap' = overlap
    BY <1>4, CommitEffect
  <2>2. CASE unit[u].pc = "recorded"
    <3>1. Recording(u) /\ \A v \in Units : v # u => ~Recording(v)
      BY <2>1, <2>2, SerialParts DEF Recording
    <3>2. \A v \in Units : ~Recording(v)'
      BY <2>1, <3>1 DEF Recording
    <3>3. Verified(log')
      BY <2>1, <3>1, SerialParts
    <3>4. \A v \in Units : unit'[v].pc # "read"
      BY <3>2 DEF Recording
    <3>5. QED
      BY <3>2, <3>3, <3>4, SerialPrimed
  <2>3. CASE unit[u].pc = "staged"
    <3>1. DOMAIN unit[u].pending = {}
      BY <2>3 DEF Staged
    <3>2. log' = [i \in DOMAIN log |-> log[i]]
      BY <2>1, <3>1 DEF Visible
    <3>3. Verified(log')
      BY <1>0, <2>1, <3>2, SerialParts, VerifiedSame
    <3>4. \A v \in Units : Recording(v)' => v # u /\ Recording(v) /\ unit'[v] = unit[v]
      BY <2>1 DEF Recording
    <3>5. \A v \in Units : v # u => Visible(v)' = Visible(v)
      BY <2>1, <3>2 DEF Visible
    <3>6. \A v \in Units : unit'[v].pc = "read" => Recording(v)'
      BY DEF Recording
    <3>7. QED
      BY <2>1, <3>3, <3>4, <3>5, <3>6, SerialParts, SerialPrimed
  <2>4. QED
    BY <2>1, <2>2, <2>3
<1>5. ASSUME NEW u \in Units, Rollback(u) PROVE Serial'
  BY <1>5, RollbackEffect, SerialQuiet
<1>6. CASE UNCHANGED vars
  <2>1. log' = log /\ seq' = seq /\ overlap' = overlap /\ unit' = unit
    BY <1>6 DEF vars
  <2>2. \A v \in Units : Visible(v)' = Visible(v) /\ (Recording(v)' <=> Recording(v))
    BY <2>1 DEF Visible, Recording
  <2>3. QED
    BY <2>1, <2>2, SerialParts, SerialPrimed
<1>7. QED
  BY <1>1, <1>2, <1>3, <1>4, <1>5, <1>6 DEF Next, Begin

-----------------------------------------------------------------------------
(* Ids *)

LEMMA PendingFinite ==
  ASSUME IInv, NEW u \in Units
  PROVE  /\ IsFiniteSet(DOMAIN unit[u].pending)
         /\ Cardinality(DOMAIN unit[u].pending) \in Nat
<1>1. seq \in Nat /\ DOMAIN unit[u].pending \subseteq 1..seq
  BY DEF IInv, Shape, Pending
<1>2. IsFiniteSet(1..seq)
  BY <1>1, FS_Interval
<1>3. IsFiniteSet(DOMAIN unit[u].pending)
  BY <1>1, <1>2, FS_Subset
<1>4. QED
  BY <1>3, FS_CardinalityType

(* A step that takes no id and after which the units that were charged     *)
(* are over, or have as many pending rows as before.                       *)
LEMMA CountedQuiet ==
  ASSUME Counted, seq' = seq,
         \A v \in Units : unit[v].pc \notin {"idle", "loaded"} =>
           /\ unit'[v].pc \notin {"idle", "loaded"}
           /\ Active(v)' => Active(v) /\ unit'[v].pending = unit[v].pending,
         \A v \in Units : unit'[v].pc = "read" => Cardinality(DOMAIN unit'[v].pending) < MaxRecords
  PROVE  Counted'
<1>1. PICK f : Charged(f)
  BY DEF Counted
<1>2. \A i \in 1..seq : f[i][1] \in Units
  BY <1>1 DEF Charged
<1>3. Charged(f)'
  BY <1>1, <1>2 DEF Charged
<1>4. QED
  BY <1>3 DEF Counted

LEMMA CountedAppend ==
  ASSUME IInv, Counted, NEW u \in Units, AppendRow(u)
  PROVE  Counted'
<1> DEFINE old == DOMAIN unit[u].pending
           n == Cardinality(old)
<1>1. /\ unit[u].pc = "read" /\ unit'[u].pc = "recorded"
      /\ \A v \in Units : v # u => unit'[v] = unit[v]
      /\ DOMAIN unit'[u].pending = old \cup {seq + 1}
      /\ \A i \in old : i # seq + 1
      /\ seq \in Nat /\ seq' = seq + 1
  BY AppendEffect
<1>2. IsFiniteSet(old) /\ n \in Nat /\ n < MaxRecords /\ MaxRecords \in Nat
  BY <1>1, PendingFinite, UnitsAssumption DEF Counted
<1>3. Cardinality(DOMAIN unit'[u].pending) = n + 1
  BY <1>1, <1>2, FS_AddElement
<1>4. PICK f : Charged(f)
  BY DEF Counted
<1> HIDE DEF n
<1> PICK g : g = [i \in 1..(seq + 1) |-> IF i = seq + 1 THEN <<u, n + 1>> ELSE f[i]]
  OBVIOUS
<1>5. \A i \in 1..seq : i # seq + 1 /\ i \in 1..(seq + 1) /\ g[i] = f[i]
  BY <1>1
<1>6. /\ g[seq + 1] = <<u, n + 1>> /\ g[seq + 1][1] = u /\ g[seq + 1][2] = n + 1
      /\ n + 1 \in 1..MaxRecords /\ seq + 1 \in 1..(seq + 1)
  BY <1>1, <1>2
<1>7. \A i \in 1..(seq + 1) : i = seq + 1 \/ i \in 1..seq
  BY <1>1
<1>8. \A i \in 1..seq : f[i] \in Units \X (1..MaxRecords)
  BY <1>4 DEF Charged
<1>9. g \in [1..(seq + 1) -> Units \X (1..MaxRecords)]
  BY <1>5, <1>6, <1>7, <1>8
<1>10. ASSUME NEW i \in 1..seq
       PROVE  /\ unit[f[i][1]].pc \notin {"idle", "loaded"}
              /\ f[i][1] \in Units /\ f[i][2] \in Nat
              /\ f[i][1] = u => f[i][2] <= n
              /\ f[i][1] # u /\ Active(f[i][1]) =>
                   f[i][2] <= Cardinality(DOMAIN unit[f[i][1]].pending)
  BY <1>1, <1>4, <1>8 DEF Charged, Active, n
<1>11. \A i \in 1..seq : f[i] # <<u, n + 1>>
  BY <1>2, <1>10
<1>12. \A i, j \in 1..(seq + 1) : g[i] = g[j] => i = j
  BY <1>4, <1>5, <1>6, <1>7, <1>11 DEF Charged
<1>13. ASSUME NEW i \in 1..(seq + 1)
       PROVE  /\ unit'[g[i][1]].pc \notin {"idle", "loaded"}
              /\ unit'[g[i][1]].pc \in {"staged", "read", "recorded"} =>
                   g[i][2] <= Cardinality(DOMAIN unit'[g[i][1]].pending)
  <2>1. CASE i = seq + 1
    <3>1. g[i][1] = u /\ g[i][2] = n + 1 /\ n + 1 <= n + 1
      BY <1>2, <1>6, <2>1
    <3>2. QED
      BY <1>1, <1>3, <3>1
  <2>2. CASE i # seq + 1
    <3>1. i \in 1..seq /\ g[i] = f[i]
      BY <1>5, <1>7, <2>2
    <3>2. CASE f[i][1] = u
      <4>1. f[i][2] <= n + 1
        BY <1>2, <1>10, <3>1, <3>2
      <4>2. QED
        BY <1>1, <1>3, <3>1, <3>2, <4>1
    <3>3. CASE f[i][1] # u
      BY <1>1, <1>10, <3>1, <3>3 DEF Active
    <3>4. QED
      BY <3>2, <3>3
  <2>3. QED
    BY <2>1, <2>2
<1>14. Charged(g)'
  BY <1>1, <1>9, <1>12, <1>13 DEF Charged, Active
<1>15. \A v \in Units : unit'[v].pc = "read" => Cardinality(DOMAIN unit'[v].pending) < MaxRecords
  BY <1>1 DEF Counted
<1>16. QED
  BY <1>14, <1>15 DEF Counted

LEMMA NextCounted == IInv /\ Staged /\ Counted /\ [Next]_vars => Counted'
<1> SUFFICES ASSUME IInv, Staged, Counted, [Next]_vars PROVE Counted'
  OBVIOUS
<1>1. ASSUME NEW u \in Units, Begin(u) PROVE Counted'
  BY <1>1, BeginEffect, CountedQuiet DEF Counted, Active
<1>2. ASSUME NEW u \in Units, ReadLatest(u) PROVE Counted'
  BY <1>2, ReadEffect, CountedQuiet DEF Counted, Active
<1>3. ASSUME NEW u \in Units, Commit(u) PROVE Counted'
  BY <1>3, CommitEffect, CountedQuiet DEF Counted, Active
<1>4. ASSUME NEW u \in Units, Rollback(u) PROVE Counted'
  BY <1>4, RollbackEffect, CountedQuiet DEF Counted, Active
<1>5. CASE UNCHANGED vars
  BY <1>5, CountedQuiet DEF Counted, Active, vars
<1>6. QED
  BY <1>1, <1>2, <1>3, <1>4, <1>5, CountedAppend DEF Next, Begin

(* So no more ids are taken than the units may take. *)
LEMMA SeqBound ==
  ASSUME IInv, Counted
  PROVE  seq \in 0..(Cardinality(Units) * MaxRecords)
<1>1. PICK f : Charged(f)
  BY DEF Counted
<1> DEFINE T == Units \X (1..MaxRecords)
<1>2. seq \in Nat /\ MaxRecords \in Nat /\ IsFiniteSet(Units)
  BY UnitsAssumption DEF IInv, Shape
<1>3. IsFiniteSet(1..MaxRecords) /\ Cardinality(1..MaxRecords) = MaxRecords
  BY <1>2, FS_Interval
<1>4. IsFiniteSet(1..seq) /\ Cardinality(1..seq) = seq
  BY <1>2, FS_Interval
<1>5. IsFiniteSet(T) /\ Cardinality(T) = Cardinality(Units) * MaxRecords
  BY <1>2, <1>3, FS_Product
<1>6. f \in Injection(1..seq, T)
  BY <1>1 DEF Charged, Injection, IsInjective
<1>7. Cardinality(1..seq) <= Cardinality(T)
  BY <1>4, <1>5, <1>6, FS_Injection
<1>8. Cardinality(T) \in Nat
  BY <1>5, FS_CardinalityType
<1>9. QED
  BY <1>2, <1>4, <1>5, <1>7, <1>8

-----------------------------------------------------------------------------
(* Tampering *)

(* The first bad row of a table with at most one bad row. *)
LEMMA FirstBadIs ==
  ASSUME NEW n \in Nat, NEW t, DOMAIN t \subseteq 1..n
  PROVE  /\ FirstBad(t, 1, n) = 0 <=> Verified(t)
         /\ \A i \in DOMAIN t :
              ~RowOk(t, 1, i) /\ (\A j \in DOMAIN t : j # i => RowOk(t, 1, j)) => FirstBad(t, 1, n) = i
<1> DEFINE bad == {i \in DOMAIN t : ~RowOk(t, 1, i)}
<1>1. InRange(t, 1, n) = DOMAIN t
  BY DEF InRange
<1>2. FirstBad(t, 1, n) = IF bad = {} THEN 0 ELSE Min(bad)
  BY <1>1 DEF FirstBad
<1>3. bad \subseteq 1..n /\ (bad = {} <=> Verified(t))
  BY DEF Verified
<1>4. ASSUME NEW i \in DOMAIN t, ~RowOk(t, 1, i), \A j \in DOMAIN t : j # i => RowOk(t, 1, j)
      PROVE  FirstBad(t, 1, n) = i
  <2>1. bad = {i}
    BY <1>4
  <2> HIDE DEF bad
  <2>2. Min(bad) \in bad
    BY <1>3, <2>1, MinIs
  <2>3. QED
    BY <1>2, <2>1, <2>2
<1> HIDE DEF bad
<1>5. bad # {} => Min(bad) \in 1..n
  BY <1>3, MinIs
<1>6. FirstBad(t, 1, n) = 0 <=> Verified(t)
  BY <1>2, <1>3, <1>5
<1>7. QED
  BY <1>4, <1>6

(* What the row at j is expected to continue. *)
LEMMA ExpectedLast ==
  ASSUME NEW n \in Nat, NEW t, NEW j, Before(t, j) \subseteq 1..n, NEW m \in Before(t, j),
         \A k \in Before(t, j) : k <= m
  PROVE  ExpectedPrev(t, 1, j) = t[m].hash
<1> DEFINE S == Before(t, j)
<1>1. S = {k \in DOMAIN t : 1 <= k /\ k < j}
  BY DEF Before
<1> HIDE DEF S
<1>2. S # {} /\ Max(S) = m
  BY MaxIs DEF S
<1>3. QED
  BY <1>1, <1>2 DEF ExpectedPrev

(* A change or removal of row i is not felt beyond the next row. *)
LEMMA FarFrom ==
  ASSUME NEW n \in Nat, NEW t1, NEW t2, DOMAIN t1 \subseteq 1..n,
         NEW i \in DOMAIN t1, NEW x \in DOMAIN t1, NEW j \in DOMAIN t1, i < x, x < j,
         DOMAIN t2 \in {DOMAIN t1, DOMAIN t1 \ {i}},
         \A k \in DOMAIN t1 \ {i} : t2[k].hash = t1[k].hash
  PROVE  ExpectedPrev(t2, 1, j) = ExpectedPrev(t1, 1, j)
<1> DEFINE S == Before(t1, j)
<1>1. x \in S /\ S \subseteq 1..n
  BY DEF Before
<1> PICK m : m = Max(S)
  OBVIOUS
<1>2. m \in S /\ \A k \in S : k <= m
  BY <1>1, MaxIs
<1>3. m # i /\ m \in DOMAIN t1
  BY <1>1, <1>2 DEF Before
<1>4. m \in Before(t2, j) /\ Before(t2, j) \subseteq S
  BY <1>2, <1>3 DEF Before
<1>5. ExpectedPrev(t1, 1, j) = t1[m].hash
  BY <1>1, <1>2, ExpectedLast
<1>6. ExpectedPrev(t2, 1, j) = t2[m].hash
  <2>1. Before(t2, j) \subseteq 1..n /\ \A k \in Before(t2, j) : k <= m
    BY <1>1, <1>2, <1>4
  <2>2. QED
    BY <1>4, <2>1, ExpectedLast
<1>7. QED
  BY <1>3, <1>5, <1>6

(* A row that hashes differently from the one its neighbour continues. *)
LEMMA HashesDiffer ==
  ASSUME NEW p1, NEW b1, NEW p2, NEW b2, b1.at # b2.at
  PROVE  ComputeHash(p1, b1) # ComputeHash(p2, b2) /\ ComputeHash(p1, b1) # Genesis
  BY DEF ComputeHash, Genesis

(* Tampering with one row of a chain that verifies. *)
LEMMA TamperOne ==
  ASSUME NEW n \in Nat, NEW t, DOMAIN t \subseteq 1..n, Verified(t),
         \A i \in DOMAIN t : Hashed(t[i], i), NEW i \in DOMAIN t
  PROVE  LET after   == {j \in DOMAIN t : j > i}
             forged  == [t[i].body EXCEPT !.at = 0]
             changed == [t EXCEPT ![i].body = forged]
             resumed == [changed EXCEPT ![i].hash = ComputeHash(t[i].prev, forged)]
             removed == [j \in DOMAIN t \ {i} |-> t[j]]
             next    == IF after = {} THEN 0 ELSE Min(after)
         IN  /\ FirstBad(changed, 1, n) = i
             /\ FirstBad(resumed, 1, n) = next
             /\ FirstBad(removed, 1, n) = next
<1> DEFINE after   == {j \in DOMAIN t : j > i}
           forged  == [t[i].body EXCEPT !.at = 0]
           changed == [t EXCEPT ![i].body = forged]
           resumed == [changed EXCEPT ![i].hash = ComputeHash(t[i].prev, forged)]
           removed == [j \in DOMAIN t \ {i} |-> t[j]]
           next    == IF after = {} THEN 0 ELSE Min(after)
<1>1. /\ \A j \in DOMAIN t : j \in 1..n /\ RowOk(t, 1, j) /\ j \in 1..(n + 1) /\ t[j].body.at = j
      /\ DOMAIN t[i] = {"body", "prev", "hash"} /\ DOMAIN t[i].body = {"unit", "op", "at"}
  BY DEF Verified, Hashed
<1>2. forged.at = 0 /\ forged.at # t[i].body.at
  BY <1>1
<1> HIDE DEF forged
<1>3. /\ DOMAIN changed = DOMAIN t
      /\ \A j \in DOMAIN t : j # i => changed[j] = t[j]
      /\ changed[i].body = forged /\ changed[i].prev = t[i].prev /\ changed[i].hash = t[i].hash
      /\ DOMAIN changed[i] = {"body", "prev", "hash"}
  BY <1>1
<1> HIDE DEF changed
<1>4. /\ DOMAIN resumed = DOMAIN t
      /\ \A j \in DOMAIN t : j # i => resumed[j] = t[j]
      /\ resumed[i].body = forged /\ resumed[i].prev = t[i].prev
      /\ resumed[i].hash = ComputeHash(t[i].prev, forged)
  BY <1>3
<1> HIDE DEF resumed
<1>5. /\ DOMAIN removed = DOMAIN t \ {i}
      /\ \A j \in DOMAIN t : j # i => removed[j] = t[j]
  OBVIOUS
<1> HIDE DEF removed
<1>6. t[i].hash = ComputeHash(t[i].prev, t[i].body)
  BY <1>1 DEF RowOk
<1>7. ComputeHash(t[i].prev, forged) # t[i].hash
  BY <1>2, <1>6, HashesDiffer
<1>8. FirstBad(changed, 1, n) = i
  <2>1. ASSUME NEW j \in DOMAIN t
        PROVE  ExpectedPrev(t, 1, j) = ExpectedPrev(changed, 1, j)
    <3>1. Before(t, j) = Before(changed, j) /\ \A k \in Before(t, j) : t[k].hash = changed[k].hash
      BY <1>3 DEF Before
    <3>2. QED
      BY <1>1, <3>1, ExpectedSame
  <2>2. ~RowOk(changed, 1, i)
    BY <1>3, <1>7 DEF RowOk
  <2>3. ASSUME NEW j \in DOMAIN t, j # i PROVE RowOk(changed, 1, j)
    BY <1>1, <1>3, <2>1, <2>3 DEF RowOk
  <2>4. QED
    BY <1>3, <2>2, <2>3, FirstBadIs
<1>9. ASSUME NEW t2, DOMAIN t2 \in {DOMAIN t, DOMAIN t \ {i}},
             \A j \in DOMAIN t : j # i => t2[j] = t[j],
             i \in DOMAIN t2 => t2[i].prev = t[i].prev /\ t2[i].hash = ComputeHash(t2[i].prev, t2[i].body),
             \A j \in DOMAIN t : j > i /\ (\A k \in DOMAIN t : k > i => j <= k)
                                 => ExpectedPrev(t2, 1, j) # t[i].hash
      PROVE  FirstBad(t2, 1, n) = next
  <2>1. ASSUME NEW j \in DOMAIN t2, ~(j > i)
        PROVE  RowOk(t2, 1, j)
    <3>1. j \in DOMAIN t
      BY <1>9
    <3>2. Before(t, j) = Before(t2, j) /\ \A k \in Before(t, j) : t[k].hash = t2[k].hash
      BY <1>1, <1>9, <2>1, <3>1 DEF Before
    <3>3. ExpectedPrev(t, 1, j) = ExpectedPrev(t2, 1, j)
      BY <1>1, <3>1, <3>2, ExpectedSame
    <3>4. CASE j = i
      BY <1>1, <1>9, <2>1, <3>3, <3>4 DEF RowOk
    <3>5. CASE j # i
      BY <1>1, <1>9, <3>1, <3>3, <3>5 DEF RowOk
    <3>6. QED
      BY <3>4, <3>5
  <2>2. CASE after = {}
    <3>1. \A j \in DOMAIN t2 : ~(j > i)
      BY <1>9, <2>2
    <3>2. Verified(t2)
      BY <2>1, <3>1 DEF Verified
    <3>3. DOMAIN t2 \subseteq 1..n
      BY <1>1, <1>9
    <3>4. QED
      BY <2>2, <3>2, <3>3, FirstBadIs
  <2>3. CASE after # {}
    <3> DEFINE x == Min(after)
    <3>1. after \subseteq 1..n
      BY <1>1
    <3>2. x \in after /\ \A k \in after : x <= k
      BY <2>3, <3>1, MinIs
    <3> HIDE DEF x
    <3>3. x \in DOMAIN t /\ x > i /\ x # i /\ x \in DOMAIN t2 /\ \A k \in DOMAIN t : k > i => x <= k
      BY <1>1, <1>9, <3>2
    <3>4. ~RowOk(t2, 1, x)
      <4>1. i \in Before(t, x) /\ \A k \in Before(t, x) : k <= i
        BY <1>1, <3>3 DEF Before
      <4>2. Before(t, x) \subseteq 1..n
        BY <1>1 DEF Before
      <4>3. ExpectedPrev(t, 1, x) = t[i].hash
        BY <4>1, <4>2, ExpectedLast
      <4>4. t2[x].prev = t[i].hash
        BY <1>1, <1>9, <3>3, <4>3 DEF RowOk
      <4>5. ExpectedPrev(t2, 1, x) # t[i].hash
        BY <1>9, <3>3
      <4>6. QED
        BY <4>4, <4>5 DEF RowOk
    <3>5. ASSUME NEW j \in DOMAIN t2, j # x, j > i
          PROVE  RowOk(t2, 1, j)
      <4>1. j \in DOMAIN t /\ i < x /\ x < j /\ j # i
        BY <1>1, <1>9, <3>3, <3>5
      <4>2. \A k \in DOMAIN t \ {i} : t2[k].hash = t[k].hash
        BY <1>9
      <4>3. ExpectedPrev(t2, 1, j) = ExpectedPrev(t, 1, j)
        BY <1>9, <3>3, <4>1, <4>2, FarFrom
      <4>4. QED
        BY <1>1, <1>9, <4>1, <4>3 DEF RowOk
    <3>6. \A j \in DOMAIN t2 : j # x => RowOk(t2, 1, j)
      BY <2>1, <3>5
    <3>7. DOMAIN t2 \subseteq 1..n
      BY <1>1, <1>9
    <3>8. FirstBad(t2, 1, n) = x
      BY <3>3, <3>4, <3>6, <3>7, FirstBadIs
    <3>9. QED
      BY <2>3, <3>8 DEF x
  <2>4. QED
    BY <2>2, <2>3
<1>10. ASSUME NEW j \in DOMAIN t, j > i, \A k \in DOMAIN t : k > i => j <= k
       PROVE  \A k \in Before(t, j) : k <= i
  BY <1>1, <1>10 DEF Before
<1>11. FirstBad(resumed, 1, n) = next
  <2>1. ASSUME NEW j \in DOMAIN t, j > i, \A k \in DOMAIN t : k > i => j <= k
        PROVE  ExpectedPrev(resumed, 1, j) # t[i].hash
    <3>1. Before(resumed, j) = Before(t, j) /\ Before(t, j) \subseteq 1..n /\ i \in Before(t, j)
      BY <1>1, <1>4, <2>1 DEF Before
    <3>2. ExpectedPrev(resumed, 1, j) = resumed[i].hash
      BY <1>10, <2>1, <3>1, ExpectedLast
    <3>3. QED
      BY <1>4, <1>7, <3>2
  <2> HIDE DEF next
  <2>2. QED
    BY <1>4, <1>9, <2>1
<1>12. FirstBad(removed, 1, n) = next
  <2>1. ASSUME NEW j \in DOMAIN t, j > i, \A k \in DOMAIN t : k > i => j <= k
        PROVE  ExpectedPrev(removed, 1, j) # t[i].hash
    <3> DEFINE S == Before(removed, j)
    <3>1. S = {k \in DOMAIN removed : 1 <= k /\ k < j} /\ S \subseteq 1..n
      BY <1>1, <1>5 DEF Before
    <3>2. S \subseteq DOMAIN t \ {i}
      BY <1>5 DEF Before
    <3> HIDE DEF S
    <3>3. CASE S = {}
      <4>1. ExpectedPrev(removed, 1, j) = Genesis
        BY <3>1, <3>3 DEF ExpectedPrev
      <4>2. QED
        BY <1>2, <1>6, <4>1, HashesDiffer
    <3>4. CASE S # {}
      <4>1. Max(S) \in S
        BY <3>1, <3>4, MaxIs
      <4>2. ExpectedPrev(removed, 1, j) = removed[Max(S)].hash
        BY <3>1, <3>4 DEF ExpectedPrev
      <4> PICK p : p = Max(S)
        OBVIOUS
      <4>3. p \in DOMAIN t /\ p # i /\ ExpectedPrev(removed, 1, j) = t[p].hash
        BY <1>5, <3>2, <4>1, <4>2
      <4>4. t[p].hash = ComputeHash(t[p].prev, t[p].body) /\ t[p].body.at # t[i].body.at
        BY <1>1, <4>3 DEF RowOk
      <4>5. QED
        BY <1>6, <4>3, <4>4, HashesDiffer
    <3>5. QED
      BY <3>3, <3>4
  <2> HIDE DEF next
  <2>2. QED
    BY <1>5, <1>9, <2>1
<1>13. QED
  BY <1>8, <1>11, <1>12 DEF forged, changed, resumed, removed

-----------------------------------------------------------------------------
(* The second layer is inductive on top of the first. *)
JInv == /\ Staged /\ Tables /\ Held /\ AllHashed /\ Later
        /\ TrailExplains /\ Serial /\ Counted

LEMMA InitTables ==
  Init => /\ Tables
          /\ \A k \in Kinds : /\ Exists(k) <=> k \in Present
                              /\ Exists(k) => rows[k].value = First
<1> SUFFICES ASSUME Init
             PROVE  /\ Tables
                    /\ \A k \in Kinds : /\ Exists(k) <=> k \in Present
                                        /\ Exists(k) => rows[k].value = First
  OBVIOUS
<1>1. DOMAIN rows = Kinds
  BY DEF Init
<1>2. ASSUME NEW k \in Kinds, k \in Present
      PROVE  rows[k] = [parent |-> ParentOf(k), value |-> First] /\ rows[k] \in RowOf(k) /\ Exists(k)
  <2>1. rows[k] = [parent |-> ParentOf(k), value |-> First]
    BY <1>2 DEF Init
  <2>2. First \in Values /\ First # NoValue
    BY KindsAssumption, UnitsAssumption
  <2>3. QED
    BY <2>1, <2>2 DEF RowOf, Exists, Absent
<1>3. ASSUME NEW k \in Kinds, k \notin Present
      PROVE  rows[k] = Absent /\ ~Exists(k)
  BY <1>3 DEF Init, Exists
<1>4. ASSUME NEW k \in Kinds, Exists(k), rows[k].parent # None
      PROVE  Exists(rows[k].parent)
  <2>1. k \in Present /\ rows[k].parent = ParentOf(k)
    <3>1. k \in Present
      BY <1>3, <1>4
    <3>2. rows[k] = [parent |-> ParentOf(k), value |-> First]
      BY <1>2, <3>1
    <3>3. QED
      BY <3>1, <3>2
  <2>2. ParentOf(k) \in Present /\ ParentOf(k) \in Kinds
    BY <1>4, <2>1, UnitsAssumption
  <2>3. QED
    BY <1>2, <2>1, <2>2
<1>5. QED
  BY <1>1, <1>2, <1>3, <1>4 DEF Tables, TablesOK

LEMMA InitSecond == Init => JInv
<1> SUFFICES ASSUME Init PROVE JInv
  OBVIOUS
<1>1. /\ log = [i \in {} |-> {}] /\ DOMAIN log = {} /\ seq = 0
      /\ \A u \in Units : unit[u] = NewUnit
      /\ \A u \in Units : unit[u].pc = "idle" /\ unit[u].op = NoOp /\ DOMAIN unit[u].pending = {}
  BY DEF Init, NewUnit
<1>2. Staged /\ Held /\ AllHashed /\ Later
  BY <1>1 DEF Staged, Places, Active, Held, AllHashed, Later
<1>3. Tables /\ TrailExplains
  <2>1. \A k \in Kinds : About(k) = {} /\ \A c : Wrote(k, c) = {}
    BY <1>1 DEF About, Wrote
  <2>2. QED
    BY <2>1, InitTables DEF TrailExplains
<1>4. Serial
  BY <1>1 DEF Serial, Recording
<1>5. Counted
  <2>1. Charged([i \in 1..seq |-> <<i, i>>])
    BY <1>1 DEF Charged
  <2>2. QED
    BY <1>1, <2>1 DEF Counted
<1>6. QED
  BY <1>2, <1>3, <1>4, <1>5 DEF JInv

LEMMA NextSecond == IInv /\ IInv' /\ JInv /\ [Next]_vars => JInv'
  BY NextStaged, NextHeld, NextHashed, NextLater, NextTrail, NextSerial, NextCounted DEF JInv

LEMMA SecondInductive == Spec => []JInv
<1>1. QED
  BY InitSecond, NextSecond, Inductive, PTL DEF Spec

(* Tables, log and transactions keep their shape, no more ids are taken    *)
(* than the units may take, and foreign keys hold at every commit: the row *)
(* locks of PostgreSQL are enough for _repositories_legacy.py at READ      *)
(* COMMITTED, however deletions and insertions overlap and fail.           *)
THEOREM TypeCorrect == Spec => []TypeOK
<1>1. IInv /\ JInv => TypeOK
  <2> SUFFICES ASSUME IInv, JInv PROVE TypeOK
    OBVIOUS
  <2>1. TablesOK /\ \A k \in Kinds : (Exists(k) /\ rows[k].parent # None) => Exists(rows[k].parent)
    BY DEF JInv, Tables
  <2>2. seq \in 0..(Cardinality(Units) * MaxRecords)
    BY SeqBound DEF JInv
  <2>3. DOMAIN log \subseteq 1..seq
    BY DEF IInv, Shape
  <2>4. \A u \in Units : DOMAIN unit[u].pending \subseteq (1..seq) \ DOMAIN log
    BY DEF IInv, Pending
  <2>5. \A u \in Units : unit[u].pc \in {"idle", "loaded", "staged", "read", "recorded", "done", "failed"}
    BY DEF JInv, Staged, Places
  <2>6. QED
    BY <2>1, <2>2, <2>3, <2>4, <2>5 DEF TypeOK
<1>2. QED
  BY <1>1, Inductive, SecondInductive, PTL

(* Units that recorded one after the other leave a log that verify() finds *)
(* intact, whatever was rolled back between them.                          *)
THEOREM SerialSafety == Spec => []SerialVerifies
<1>1. IInv /\ JInv => SerialVerifies
  <2> SUFFICES ASSUME IInv, JInv, ~overlap PROVE VerifyAll(log) = 0
    BY DEF SerialVerifies
  <2>1. Verified(log)
    BY SerialParts DEF JInv
  <2>2. seq \in Nat /\ DOMAIN log \subseteq 1..seq
    BY DEF IInv, Shape
  <2>3. QED
    BY <2>1, <2>2, FirstBadIs DEF VerifyAll
<1>2. QED
  BY <1>1, Inductive, SecondInductive, PTL

(* By id, the last entry whose call wrote a row says whether it is there,  *)
(* and the last one whose call wrote a column says what it holds: the row  *)
(* locks order the units whose calls issue statements, and a change and    *)
(* its records are committed together (unit_of_work, AuditService.record). *)
(* Tables changed by a unit that recorded nothing are left out, and the    *)
(* entry of an update that found nothing to change explains nothing.       *)
THEOREM TrailSafety == Spec => []TrailExplains
<1>1. JInv => TrailExplains
  BY DEF JInv
<1>2. QED
  BY <1>1, SecondInductive, PTL

(* verify() notices a changed row of a log that verifies, and a row that   *)
(* is removed or changed together with its hash, at the next row.          *)
THEOREM TamperSafety == Spec => []TamperEvident
<1>1. IInv /\ JInv => TamperEvident
  <2> SUFFICES ASSUME IInv, JInv, VerifyAll(log) = 0, NEW i \in DOMAIN log
               PROVE  LET after   == {j \in DOMAIN log : j > i}
                          forged  == [log[i].body EXCEPT !.at = 0]
                          changed == [log EXCEPT ![i].body = forged]
                          resumed == [changed EXCEPT ![i].hash = ComputeHash(log[i].prev, forged)]
                          removed == [j \in DOMAIN log \ {i} |-> log[j]]
                          next    == IF after = {} THEN 0 ELSE Min(after)
                      IN  /\ FirstBad(changed, 1, seq) = i
                          /\ FirstBad(resumed, 1, seq) = next
                          /\ FirstBad(removed, 1, seq) = next
    BY DEF TamperEvident, VerifyAll
  <2>1. seq \in Nat /\ DOMAIN log \subseteq 1..seq
    BY DEF IInv, Shape
  <2>2. Verified(log)
    BY <2>1, FirstBadIs DEF VerifyAll
  <2>3. \A j \in DOMAIN log : Hashed(log[j], j)
    BY DEF JInv, AllHashed
  <2>4. QED
    BY <2>1, <2>2, <2>3, TamperOne
<1>2. QED
  BY <1>1, Inductive, SecondInductive, PTL
=============================================================================
