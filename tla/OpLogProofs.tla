---------------------------- MODULE OpLogProofs ----------------------------
(***************************************************************************)
(* Proofs about OpLog, for any followers, keys, values, thresholds and     *)
(* bounds: the types, that a follower's acknowledged operations are the    *)
(* leader's, that none it was refused is in force, and that the leader's   *)
(* log only grows and its values stand until the leader changes them.      *)
(***************************************************************************)
EXTENDS OpLog, NaturalLemmas, FiniteSetTheorems, SequenceTheorems

(***************************************************************************)
(* The invariant.                                                          *)
(***************************************************************************)

UniqueIds(l) == \A i, j \in DOMAIN l : l[i].id = l[j].id => i = j

(* Two rows are of the same operation, word for word; their status may differ. *)
SameOp(r, s) == r.id = s.id /\ r.key = s.key /\ r.value = s.value /\ r.origin = s.origin

(* The leader has the operation of a row. *)
Known(r) == \E s \in Rows(log[Leader]) : SameOp(r, s)

(* What the leader's log is like: nothing is refused there, and what is pending is
   what an append of its own left so. *)
LeaderLike(l) ==
  \A r \in Rows(l) : r.status # "rejected_by_leader" /\ (r.status = "pending" => r.origin = Leader)

(* The leader has taken no operation of f with this id. *)
NotTaken(f, id) == \A s \in Rows(log[Leader]) : s.id = id => s.origin # f

(* What f may push is its own, or the leader's: only f brings operations of f, and
   one that it was refused it does not push again. *)
PendingIsOwn ==
  \A f \in Followers : \A r \in Rows(log[f]) : r.status = "pending" => r.origin \in {f, Leader}

AckedIsKnown == \A f \in Followers : \A r \in Rows(log[f]) : r.status = "acked" => Known(r)

RefusedIsNotTaken ==
  \A f \in Followers : \A r \in Rows(log[f]) :
    r.status = "rejected_by_leader" => NotTaken(f, r.id)

(* An answer on its way to a task of f, or none, says of the leader what will hold of
   the log it is put into. *)
IsTrue(f, task, a) ==
  a # NoAnswer =>
    /\ a.kind = "push" =>
         /\ task = "loop"
         /\ \A r \in Rows(a.acked) : Known(r)
         /\ \A id \in a.rejected : NotTaken(f, id)
    /\ a.kind \in {"pull", "ops"} => \A r \in Rows(a.ops) : Known(r)
    /\ a.kind = "snapshot" =>
         /\ UniqueIds(a.log)
         /\ LeaderLike(a.log)
         /\ \A r \in Rows(a.log) : Known(r)

AnswersAreTrue == \A f \in Followers, task \in Tasks : IsTrue(f, task, open[f][task])

Inv ==
  /\ TypeOK
  /\ LeaderLike(log[Leader])
  /\ PendingIsOwn
  /\ AckedIsKnown
  /\ RefusedIsNotTaken
  /\ AnswersAreTrue

(***************************************************************************)
(* Logs: what an insertion, an update and a sorted query do to the rows.   *)
(***************************************************************************)

LEMMA RowsOfAppend ==
  ASSUME NEW T, NEW l \in Seq(T), NEW x
  PROVE  Rows(Append(l, x)) = Rows(l) \cup {x}
<1>1. /\ Len(Append(l, x)) = Len(l) + 1
      /\ \A i \in 1..Len(l) : Append(l, x)[i] = l[i]
      /\ Append(l, x)[Len(l) + 1] = x
      /\ DOMAIN Append(l, x) = 1..(Len(l) + 1) /\ DOMAIN l = 1..Len(l) /\ Len(l) \in Nat
  OBVIOUS
<1> QED BY <1>1 DEF Rows

LEMMA UniqueAppend ==
  ASSUME NEW T, NEW l \in Seq(T), UniqueIds(l), NEW x, x.id \notin IdsOf(l)
  PROVE  UniqueIds(Append(l, x))
<1>1. /\ \A i \in 1..Len(l) : Append(l, x)[i] = l[i]
      /\ Append(l, x)[Len(l) + 1] = x
      /\ DOMAIN Append(l, x) = 1..(Len(l) + 1) /\ DOMAIN l = 1..Len(l) /\ Len(l) \in Nat
  OBVIOUS
<1>2. \A i \in 1..Len(l) : l[i].id # x.id
  BY <1>1 DEF IdsOf, Rows
<1> QED BY <1>1, <1>2 DEF UniqueIds

(* The row with an id is taken out, and only that. *)
LEMMA WithoutRows ==
  ASSUME NEW T, NEW l \in Seq(T), UniqueIds(l), NEW id
  PROVE  /\ Without(l, id) \in Seq(T)
         /\ UniqueIds(Without(l, id))
         /\ Rows(Without(l, id)) = {r \in Rows(l) : r.id # id}
<1>1. CASE id \notin IdsOf(l)
  <2>1. Without(l, id) = l
    BY <1>1 DEF Without
  <2> QED BY <1>1, <2>1 DEF IdsOf
<1>2. CASE id \in IdsOf(l)
  <2> DEFINE p == CHOOSE i \in DOMAIN l : l[i].id = id
             w == Without(l, id)
  <2>1. p \in DOMAIN l /\ l[p].id = id
    BY <1>2 DEF IdsOf, Rows
  <2>2. w = SubSeq(l, 1, p - 1) \o SubSeq(l, p + 1, Len(l))
    BY <1>2 DEF Without, RemoveAt
  <2> HIDE DEF p
  <2>3. p \in 1..Len(l) /\ Len(l) \in Nat /\ DOMAIN l = 1..Len(l)
    BY <2>1
  <2> DEFINE u == SubSeq(l, 1, p - 1)
             v == SubSeq(l, p + 1, Len(l))
  <2>4. /\ u \in Seq(T) /\ Len(u) = p - 1 /\ \A i \in 1..(p - 1) : u[i] = l[i]
        /\ v \in Seq(T) /\ Len(v) = Len(l) - p /\ \A i \in 1..(Len(l) - p) : v[i] = l[p + i]
    <3>1. \A i \in 1..Len(l) : l[i] \in T
      BY <2>3
    <3>2. /\ u \in Seq(T) /\ Len(u) = IF 1 <= p - 1 THEN (p - 1) - 1 + 1 ELSE 0
          /\ \A i \in 1..((p - 1) - 1 + 1) : u[i] = l[1 + i - 1]
      <4>1. 1 \in Int /\ p - 1 \in Int /\ \A i \in 1..(p - 1) : l[i] \in T
        BY <2>3, <3>1
      <4> QED BY <4>1, SubSeqProperties
    <3>3. /\ v \in Seq(T) /\ Len(v) = IF p + 1 <= Len(l) THEN Len(l) - (p + 1) + 1 ELSE 0
          /\ \A i \in 1..(Len(l) - (p + 1) + 1) : v[i] = l[p + 1 + i - 1]
      <4>1. p + 1 \in Int /\ Len(l) \in Int /\ \A i \in (p + 1)..Len(l) : l[i] \in T
        BY <2>3, <3>1
      <4> QED BY <4>1, SubSeqProperties
    <3> HIDE DEF u, v
    <3>4. (p - 1) - 1 + 1 = p - 1 /\ Len(l) - (p + 1) + 1 = Len(l) - p
      BY <2>3
    <3>5. Len(u) = p - 1 /\ Len(v) = Len(l) - p
      <4>1. (IF 1 <= p - 1 THEN (p - 1) - 1 + 1 ELSE 0) = p - 1
        BY <2>3
      <4>2. \A n \in Nat : \A q \in 1..n : (IF q + 1 <= n THEN n - (q + 1) + 1 ELSE 0) = n - q
        OBVIOUS
      <4>3. (IF p + 1 <= Len(l) THEN Len(l) - (p + 1) + 1 ELSE 0) = Len(l) - p
        BY <2>3, <4>2
      <4> QED BY <3>2, <3>3, <4>1, <4>3
    <3>6. \A i \in 1..(p - 1) : 1 + i - 1 = i
      OBVIOUS
    <3>7. \A i \in 1..(Len(l) - p) : p + 1 + i - 1 = p + i
      BY <2>3
    <3> QED BY <3>2, <3>3, <3>4, <3>5, <3>6, <3>7
  <2>5. w = u \o v
    BY <2>2
  <2> HIDE DEF u, v, w
  <2>6. /\ w \in Seq(T) /\ DOMAIN w = 1..(Len(l) - 1)
        /\ \A i \in 1..(p - 1) : w[i] = u[i]
        /\ \A i \in p..(Len(l) - 1) : w[i] = v[i - (p - 1)]
    <3>1. /\ w \in Seq(T) /\ Len(w) = Len(u) + Len(v)
          /\ \A i \in 1..(Len(u) + Len(v)) : w[i] = IF i <= Len(u) THEN u[i] ELSE v[i - Len(u)]
      BY <2>4, <2>5, ConcatProperties
    <3>2. Len(u) = p - 1 /\ Len(u) + Len(v) = Len(l) - 1
      BY <2>3, <2>4
    <3> QED BY <2>3, <3>1, <3>2
  <2>7. \A i \in 1..(Len(l) - 1) : w[i] = IF i < p THEN l[i] ELSE l[i + 1]
    <3>1. ASSUME NEW i \in 1..(Len(l) - 1) PROVE w[i] = IF i < p THEN l[i] ELSE l[i + 1]
      <4>1. CASE i < p
        BY <2>3, <2>4, <2>6, <4>1
      <4>2. CASE ~(i < p)
        <5>1. i \in p..(Len(l) - 1) /\ i - (p - 1) \in 1..(Len(l) - p) /\ p + (i - (p - 1)) = i + 1
          BY <2>3, <4>2
        <5> QED BY <2>4, <2>6, <4>2, <5>1
      <4> QED BY <4>1, <4>2
    <3> QED BY <3>1
  <2> DEFINE from(i) == IF i < p THEN i ELSE i + 1
  <2>10. \A i \in DOMAIN w : from(i) \in DOMAIN l /\ from(i) # p /\ w[i] = l[from(i)]
    BY <2>3, <2>6, <2>7
  <2>11. \A i, j \in DOMAIN w : from(i) = from(j) => i = j
    BY <2>3, <2>6
  <2> HIDE DEF from
  <2>8. UniqueIds(w)
    BY <2>10, <2>11 DEF UniqueIds
  <2>9. Rows(w) = {r \in Rows(l) : r.id # id}
    <3>1. ASSUME NEW i \in DOMAIN w PROVE w[i] \in Rows(l) /\ w[i].id # id
      <4>1. PICK j \in DOMAIN l : w[i] = l[j] /\ j # p
        BY <2>10
      <4> QED BY <2>1, <4>1 DEF Rows, UniqueIds
    <3>2. ASSUME NEW j \in DOMAIN l, l[j].id # id PROVE \E i \in DOMAIN w : w[i] = l[j]
      <4>1. j # p
        BY <2>1, <3>2
      <4>2. CASE j < p
        <5>1. j \in 1..(Len(l) - 1)
          BY <2>3, <4>2
        <5> QED BY <2>6, <2>7, <4>2, <5>1
      <4>3. CASE j > p
        <5>1. j - 1 \in 1..(Len(l) - 1) /\ ~(j - 1 < p) /\ (j - 1) + 1 = j
          BY <2>3, <4>3
        <5> QED BY <2>6, <2>7, <5>1
      <4> QED BY <2>3, <4>1, <4>2, <4>3
    <3> QED BY <3>1, <3>2 DEF Rows
  <2> QED BY <2>6, <2>8, <2>9 DEF w
<1> QED BY <1>1, <1>2

LEMMA UpsertRows ==
  ASSUME NEW T, NEW l \in Seq(T), UniqueIds(l), NEW row \in T
  PROVE  /\ Upsert(l, row) \in Seq(T)
         /\ UniqueIds(Upsert(l, row))
         /\ Rows(Upsert(l, row)) = {r \in Rows(l) : r.id # row.id} \cup {row}
         /\ row.id \notin IdsOf(l) => Upsert(l, row) = Append(l, row)
<1> DEFINE w == Without(l, row.id)
<1>1. w \in Seq(T) /\ UniqueIds(w) /\ Rows(w) = {r \in Rows(l) : r.id # row.id}
  BY WithoutRows
<1>2. Upsert(l, row) = Append(w, row)
  BY DEF Upsert
<1>3. row.id \notin IdsOf(w)
  BY <1>1 DEF IdsOf
<1>4. row.id \notin IdsOf(l) => w = l
  BY DEF Without
<1> HIDE DEF w
<1>5. Append(w, row) \in Seq(T) /\ Rows(Append(w, row)) = Rows(w) \cup {row}
      /\ UniqueIds(Append(w, row))
  BY <1>1, <1>3, RowsOfAppend, UniqueAppend
<1> QED BY <1>1, <1>2, <1>4, <1>5

LEMMA InsertedRows ==
  ASSUME NEW T, NEW l \in Seq(T), UniqueIds(l), NEW row \in T
  PROVE  /\ Inserted(l, row) \in Seq(T)
         /\ UniqueIds(Inserted(l, row))
         /\ Rows(l) \subseteq Rows(Inserted(l, row))
         /\ Rows(Inserted(l, row)) \subseteq Rows(l) \cup {row}
<1>1. CASE row.id \in IdsOf(l)
  BY <1>1 DEF Inserted
<1>2. CASE row.id \notin IdsOf(l)
  BY <1>2, RowsOfAppend, UniqueAppend DEF Inserted
<1> QED BY <1>1, <1>2

(* The rows of a log are finitely many. *)
LEMMA RowsAreFinite ==
  ASSUME NEW T, NEW l \in Seq(T)
  PROVE  Rows(l) \in SUBSET T /\ IsFiniteSet(Rows(l))
<1> DEFINE n == Len(l)
           f == [i \in 1..n |-> l[i]]
<1>1. n \in Nat /\ DOMAIN l = 1..n /\ \A i \in 1..n : l[i] \in T
  OBVIOUS
<1> HIDE DEF n
<1>2. IsFiniteSet(1..n)
  BY <1>1, FS_Interval
<1>3. f \in Surjection(1..n, Rows(l))
  BY <1>1 DEF Rows, Surjection
<1>4. IsFiniteSet(Rows(l))
  BY <1>2, <1>3, FS_Surjection
<1> QED BY <1>1, <1>4 DEF Rows

(* A query with ORDER BY op_id returns each of its rows once: counting the rows
   before one is a bijection to their places. *)
LEMMA ByIdLists ==
  ASSUME NEW T, NEW rows \in SUBSET T, IsFiniteSet(rows),
         \A r \in rows : r.id \in Nat \X Nat,
         \A r, q \in rows : r.id = q.id => r = q
  PROVE  /\ ById(rows) \in Seq(T)
         /\ Rows(ById(rows)) = rows
         /\ UniqueIds(ById(rows))
<1> DEFINE Ahead(r) == {q \in rows : Before(q.id, r.id)}
           n == Cardinality(rows)
           place == [r \in rows |-> Cardinality(Ahead(r)) + 1]
<1>1. n \in Nat
  BY FS_CardinalityType
<1>2. ASSUME NEW r \in rows
      PROVE  /\ IsFiniteSet(Ahead(r)) /\ r \notin Ahead(r)
             /\ Cardinality(Ahead(r)) \in Nat /\ Cardinality(Ahead(r)) < n
  <2>1. r \notin Ahead(r)
    BY DEF Before
  <2>2. Ahead(r) \in SUBSET rows /\ Ahead(r) # rows
    BY <2>1
  <2> HIDE DEF Ahead
  <2>3. IsFiniteSet(Ahead(r)) /\ Cardinality(Ahead(r)) <= n /\ Cardinality(Ahead(r)) # n
    BY <2>2, FS_Subset
  <2>4. Cardinality(Ahead(r)) \in Nat
    BY <2>3, FS_CardinalityType
  <2> QED BY <1>1, <2>1, <2>3, <2>4
<1>3. ASSUME NEW r \in rows, NEW q \in rows, Before(r.id, q.id)
      PROVE  Cardinality(Ahead(r)) < Cardinality(Ahead(q))
  <2>1. Ahead(r) \in SUBSET Ahead(q)
    BY <1>3 DEF Before
  <2>2. r \in Ahead(q) /\ r \notin Ahead(r)
    BY <1>2, <1>3
  <2> HIDE DEF Ahead
  <2>3. Cardinality(Ahead(r)) <= Cardinality(Ahead(q)) /\ Cardinality(Ahead(r)) # Cardinality(Ahead(q))
    BY <1>2, <2>1, <2>2, FS_Subset
  <2> QED BY <1>2, <2>3
<1>4. ASSUME NEW r \in rows, NEW q \in rows, r # q
      PROVE  Cardinality(Ahead(r)) # Cardinality(Ahead(q))
  <2>1. Before(r.id, q.id) \/ Before(q.id, r.id)
    <3>1. r.id \in Nat \X Nat /\ q.id \in Nat \X Nat /\ r.id # q.id
      BY <1>4
    <3> QED BY <3>1 DEF Before
  <2> HIDE DEF Ahead
  <2> QED BY <1>2, <1>3, <2>1
<1> HIDE DEF Ahead
<1>5. place \in Injection(rows, 1..n)
  <2>1. place \in [rows -> 1..n]
    BY <1>1, <1>2
  <2>2. \A r, q \in rows : place[r] = place[q] => r = q
    BY <1>2, <1>4
  <2> QED BY <2>1, <2>2 DEF Injection, IsInjective
<1>6. place \in Surjection(rows, 1..n)
  <2>1. IsFiniteSet(1..n) /\ Cardinality(1..n) = n
    BY <1>1, FS_Interval
  <2> HIDE DEF place
  <2> QED BY <1>5, <2>1, FS_Injection
<1>7. ASSUME NEW i \in 1..n
      PROVE  ById(rows)[i] \in rows /\ Cardinality(Ahead(ById(rows)[i])) = i - 1
  <2>1. \E r \in rows : Cardinality(Ahead(r)) = i - 1
    <3>1. PICK r \in rows : place[r] = i
      BY <1>6 DEF Surjection
    <3> QED BY <1>2, <3>1
  <2>2. ById(rows)[i] = CHOOSE r \in rows : Cardinality(Ahead(r)) = i - 1
    BY DEF ById, Ahead
  <2> QED BY <2>1, <2>2
<1>8. ById(rows) \in Seq(T) /\ DOMAIN ById(rows) = 1..n
  <2> DEFINE at(i) == CHOOSE r \in rows : Cardinality(Ahead(r)) = i - 1
  <2>1. ById(rows) = [i \in 1..n |-> at(i)]
    BY DEF ById, Ahead
  <2> HIDE DEF n, at
  <2>2. \A i \in 1..n : at(i) \in T
    BY <1>7, <2>1
  <2> QED BY <1>1, <2>1, <2>2
<1>9. Rows(ById(rows)) = rows
  <2>1. ASSUME NEW r \in rows PROVE \E i \in 1..n : ById(rows)[i] = r
    <3>1. place[r] \in 1..n /\ place[r] - 1 = Cardinality(Ahead(r))
      <4>1. place[r] = Cardinality(Ahead(r)) + 1
        OBVIOUS
      <4> HIDE DEF place
      <4> QED BY <1>1, <1>2, <4>1
    <3>2. ById(rows)[place[r]] \in rows /\ Cardinality(Ahead(ById(rows)[place[r]])) = Cardinality(Ahead(r))
      BY <1>7, <3>1
    <3> QED BY <1>4, <3>1, <3>2
  <2> QED BY <1>7, <1>8, <2>1 DEF Rows
<1>10. UniqueIds(ById(rows))
  <2>1. ASSUME NEW i \in 1..n, NEW j \in 1..n, ById(rows)[i].id = ById(rows)[j].id PROVE i = j
    <3>1. ById(rows)[i] = ById(rows)[j]
      BY <1>7, <2>1
    <3>2. i - 1 = j - 1
      BY <1>7, <3>1
    <3> QED BY <1>1, <3>2
  <2> QED BY <1>8, <2>1 DEF UniqueIds
<1> QED BY <1>8, <1>9, <1>10

(***************************************************************************)
(* accept_from_follower.                                                   *)
(***************************************************************************)

LEMMA LatestAfterAppend ==
  ASSUME NEW T, NEW l \in Seq(T), NEW x, x.status = "acked"
  PROVE  /\ LatestValue(Append(l, x), x.key) = {x.value}
         /\ \A k : k # x.key => LatestValue(Append(l, x), k) = LatestValue(l, k)
<1> DEFINE n == Len(l)
           m == Append(l, x)
<1>1. /\ n \in Nat /\ DOMAIN l = 1..n /\ DOMAIN m = 1..(n + 1)
      /\ m[n + 1] = x /\ \A i \in 1..n : m[i] = l[i]
  OBVIOUS
<1> HIDE DEF n, m
<1>2. LatestValue(m, x.key) = {x.value}
  <2>1. n + 1 \in AckedAt(m, x.key) /\ \A h \in AckedAt(m, x.key) : h \in Int /\ h <= n + 1
    BY <1>1 DEF AckedAt
  <2>2. {j \in AckedAt(m, x.key) : \A h \in AckedAt(m, x.key) : h <= j} = {n + 1}
    BY <1>1, <2>1
  <2> QED BY <1>1, <2>2 DEF LatestValue
<1>3. ASSUME NEW k, k # x.key PROVE LatestValue(m, k) = LatestValue(l, k)
  <2>1. AckedAt(m, k) = AckedAt(l, k) /\ \A j \in AckedAt(l, k) : m[j] = l[j]
    BY <1>1, <1>3 DEF AckedAt
  <2> QED BY <2>1 DEF LatestValue
<1> QED BY <1>2, <1>3 DEF m

Judging == {s \in [log : Seq(Row), acked : Seq(Row), rejected : SUBSET Ids] : UniqueIds(s.log)}

AsAcked(op) == [op EXCEPT !.status = "acked"]

(* What the leader has done after the first i of ops: its log has grown by some of
   them, it answers with rows of its log, what it refused is not in its log, and a
   key that had a value still has it. *)
JudgedSoFar(l, ops, i, s) ==
  /\ s \in Judging
  /\ Rows(l) \subseteq Rows(s.log)
  /\ \A r \in Rows(s.log) : r \in Rows(l) \/ \E j \in 1..i : r = AsAcked(ops[j])
  /\ Rows(s.acked) \subseteq Rows(s.log)
  /\ \A id \in s.rejected : id \notin IdsOf(s.log) /\ \E j \in 1..i : id = ops[j].id
  /\ \A k \in Keys : LatestValue(l, k) # {} => LatestValue(s.log, k) = LatestValue(l, k)

LEMMA AcceptOneTyped ==
  ASSUME NEW s \in Judging, NEW op \in Row
  PROVE  AcceptOne(s, op) \in Judging
<1>1. /\ s.log \in Seq(Row) /\ s.acked \in Seq(Row) /\ s.rejected \in SUBSET Ids
      /\ s = [log |-> s.log, acked |-> s.acked, rejected |-> s.rejected]
      /\ UniqueIds(s.log) /\ op.id \in Ids
  BY DEF Judging, Row
<1>2. CASE op.id \in IdsOf(s.log)
  <2> DEFINE r == CHOOSE q \in Rows(s.log) : q.id = op.id
  <2>1. r \in Rows(s.log)
    BY <1>2 DEF IdsOf
  <2>2. AcceptOne(s, op) = [s EXCEPT !.acked = Append(@, r)]
    BY <1>2 DEF AcceptOne
  <2> HIDE DEF r
  <2>3. r \in Row
    BY <1>1, <2>1, RowsAreFinite
  <2>4. Append(s.acked, r) \in Seq(Row)
    BY <1>1, <2>3
  <2>5. AcceptOne(s, op) = [log |-> s.log, acked |-> Append(s.acked, r), rejected |-> s.rejected]
    BY <1>1, <2>2
  <2> QED BY <1>1, <2>4, <2>5 DEF Judging
<1>3. CASE op.id \notin IdsOf(s.log) /\ Conflicts(s.log, op)
  <2>1. AcceptOne(s, op) = [s EXCEPT !.rejected = @ \cup {op.id}]
    BY <1>3 DEF AcceptOne
  <2> QED BY <1>1, <2>1 DEF Judging
<1>4. CASE op.id \notin IdsOf(s.log) /\ ~Conflicts(s.log, op)
  <2> DEFINE row == AsAcked(op)
  <2>1. AcceptOne(s, op) = [s EXCEPT !.log = Upsert(s.log, row), !.acked = Append(@, row)]
    BY <1>4 DEF AcceptOne, AsAcked
  <2>2. row \in Row
    BY DEF AsAcked, Row
  <2> HIDE DEF row
  <2>3. Upsert(s.log, row) \in Seq(Row) /\ UniqueIds(Upsert(s.log, row))
    BY <1>1, <2>2, UpsertRows
  <2>4. Append(s.acked, row) \in Seq(Row)
    BY <1>1, <2>2
  <2>5. AcceptOne(s, op) =
          [log |-> Upsert(s.log, row), acked |-> Append(s.acked, row), rejected |-> s.rejected]
    BY <1>1, <2>1
  <2> QED BY <1>1, <2>3, <2>4, <2>5 DEF Judging
<1> QED BY <1>2, <1>3, <1>4

LEMMA AcceptOneJudges ==
  ASSUME NEW l \in Seq(Row), NEW ops \in Seq(Row), UniqueIds(ops),
         NEW i \in 0..(Len(ops) - 1), NEW s, JudgedSoFar(l, ops, i, s)
  PROVE  JudgedSoFar(l, ops, i + 1, AcceptOne(s, ops[i + 1]))
<1> DEFINE op == ops[i + 1]
           t == AcceptOne(s, op)
<1>1. /\ s.log \in Seq(Row) /\ s.acked \in Seq(Row) /\ s.rejected \in SUBSET Ids
      /\ s = [log |-> s.log, acked |-> s.acked, rejected |-> s.rejected]
      /\ UniqueIds(s.log) /\ op \in Row
  BY DEF JudgedSoFar, Judging
<1>2. t \in Judging
  BY <1>1, AcceptOneTyped DEF JudgedSoFar
<1>3. i \in Nat /\ i + 1 \in DOMAIN ops /\ 1..i \subseteq 1..(i + 1) /\ 1..(i + 1) \subseteq DOMAIN ops
      /\ i + 1 \in 1..(i + 1)
  OBVIOUS
<1>4. CASE op.id \in IdsOf(s.log)
  <2> DEFINE r == CHOOSE q \in Rows(s.log) : q.id = op.id
  <2>1. r \in Rows(s.log)
    BY <1>4 DEF IdsOf
  <2>2. t = [s EXCEPT !.acked = Append(@, r)]
    BY <1>4 DEF AcceptOne
  <2> HIDE DEF r, t, op
  <2>3. t.log = s.log /\ t.rejected = s.rejected /\ t.acked = Append(s.acked, r)
    BY <1>1, <2>2
  <2>4. Rows(t.acked) = Rows(s.acked) \cup {r}
    BY <1>1, <2>3, RowsOfAppend
  <2> QED BY <1>2, <1>3, <2>1, <2>3, <2>4 DEF JudgedSoFar, t, op
<1>5. CASE op.id \notin IdsOf(s.log) /\ Conflicts(s.log, op)
  <2>1. t = [s EXCEPT !.rejected = @ \cup {op.id}]
    BY <1>5 DEF AcceptOne
  <2> HIDE DEF t
  <2>2. t.log = s.log /\ t.rejected = s.rejected \cup {op.id} /\ t.acked = s.acked
    BY <1>1, <2>1
  <2>3. \A id \in t.rejected : id \notin IdsOf(t.log) /\ \E j \in 1..(i + 1) : id = ops[j].id
    BY <1>3, <1>5, <2>2 DEF JudgedSoFar
  <2> QED BY <1>2, <1>3, <2>2, <2>3 DEF JudgedSoFar, t
<1>6. CASE op.id \notin IdsOf(s.log) /\ ~Conflicts(s.log, op)
  <2> DEFINE row == AsAcked(op)
  <2>1. t = [s EXCEPT !.log = Upsert(s.log, row), !.acked = Append(@, row)]
    BY <1>6 DEF AcceptOne, AsAcked
  <2>2. row \in Row /\ row.id = op.id /\ row.key = op.key /\ row.value = op.value /\ row.status = "acked"
    BY <1>1 DEF AsAcked, Row
  <2>3. row = AsAcked(ops[i + 1])
    OBVIOUS
  <2> HIDE DEF t, row
  <2>4. Upsert(s.log, row) = Append(s.log, row)
    BY <1>1, <1>6, <2>2, UpsertRows
  <2>5. t.log = Append(s.log, row) /\ t.rejected = s.rejected /\ t.acked = Append(s.acked, row)
    BY <1>1, <2>1, <2>4
  <2>6. Rows(t.log) = Rows(s.log) \cup {row} /\ Rows(t.acked) = Rows(s.acked) \cup {row}
    BY <1>1, <2>5, RowsOfAppend
  <2>7. \A r \in Rows(t.log) : r \in Rows(l) \/ \E j \in 1..(i + 1) : r = AsAcked(ops[j])
    BY <1>3, <2>3, <2>6 DEF JudgedSoFar
  <2>8. \A id \in t.rejected : id \notin IdsOf(t.log) /\ \E j \in 1..(i + 1) : id = ops[j].id
    <3>1. ASSUME NEW id \in s.rejected PROVE id # op.id
      <4>1. PICK j \in 1..i : id = ops[j].id
        BY <3>1 DEF JudgedSoFar
      <4>2. j \in DOMAIN ops /\ j # i + 1
        BY <1>3
      <4> QED BY <1>3, <4>1, <4>2 DEF UniqueIds
    <3>2. IdsOf(t.log) = IdsOf(s.log) \cup {op.id}
      BY <2>2, <2>6 DEF IdsOf
    <3> HIDE DEF op
    <3>3. ASSUME NEW id \in t.rejected PROVE \E j \in 1..(i + 1) : id = ops[j].id
      <4>1. PICK j \in 1..i : id = ops[j].id
        BY <2>5, <3>3 DEF JudgedSoFar
      <4> QED BY <1>3, <4>1
    <3> QED BY <2>5, <3>1, <3>2, <3>3 DEF JudgedSoFar
  <2>9. ASSUME NEW k \in Keys, LatestValue(l, k) # {} PROVE LatestValue(t.log, k) = LatestValue(l, k)
    <3>1. LatestValue(s.log, k) = LatestValue(l, k)
      BY <2>9 DEF JudgedSoFar
    <3>2. CASE k # op.key
      BY <1>1, <2>2, <2>5, <3>1, <3>2, LatestAfterAppend
    <3>3. CASE k = op.key
      <4>1. LatestValue(s.log, k) \in {{}, {op.value}}
        BY <1>6, <3>3 DEF Conflicts
      <4>2. LatestValue(t.log, k) = {op.value}
        <5>1. LatestValue(Append(s.log, row), row.key) = {row.value}
          BY <1>1, <2>2, LatestAfterAppend
        <5> QED BY <2>2, <2>5, <3>3, <5>1
      <4> QED BY <2>9, <3>1, <4>1, <4>2
    <3> QED BY <3>2, <3>3
  <2> HIDE DEF op
  <2> QED BY <1>2, <2>6, <2>7, <2>8, <2>9 DEF JudgedSoFar, t, op
<1> QED BY <1>4, <1>5, <1>6

LEMMA AcceptAllJudges ==
  ASSUME NEW l \in Seq(Row), UniqueIds(l), NEW ops \in Seq(Row), UniqueIds(ops)
  PROVE  JudgedSoFar(l, ops, Len(ops), AcceptAll(l, ops))
<1> DEFINE n == Len(ops)
           b == [log |-> l, acked |-> <<>>, rejected |-> {}]
           F == [i \in 1..n |-> [s \in Judging |-> AcceptOne(s, ops[i])]]
           Rec(g) == g = [i \in 0..n |-> IF i = 0 THEN b ELSE AcceptOne(g[i - 1], ops[i])]
           After == CHOOSE g : Rec(g)
<1>1. n \in Nat /\ DOMAIN ops = 1..n /\ \A i \in 1..n : ops[i] \in Row
  OBVIOUS
<1>2. b \in Judging
  BY DEF Judging
<1>3. StaysIn(F, n, Judging)
  BY <1>1, AcceptOneTyped DEF StaysIn
<1>4. \E g : Rec(g)
  <2>1. PICK g \in [0..n -> Judging] : Runs(g, n, b, F)
    <3>1. n \in Nat
      BY <1>1
    <3> HIDE DEF n, b, F
    <3> QED BY <1>2, <1>3, <3>1, LoopRuns
  <2> USE DEF Runs
  <2>2. \A i \in 0..n : i # 0 => i \in 1..n /\ g[i - 1] \in Judging
    BY <1>1
  <2>3. \A i \in 0..n : i # 0 => F[i][g[i - 1]] = AcceptOne(g[i - 1], ops[i])
    BY <2>2
  <2> HIDE DEF F, b
  <2>4. Rec(g)
    <3>1. g = [i \in 0..n |-> g[i]]
      BY <2>1
    <3>2. \A i \in 0..n : g[i] = IF i = 0 THEN b ELSE AcceptOne(g[i - 1], ops[i])
      BY <1>1, <2>1, <2>2, <2>3
    <3> QED BY <3>1, <3>2
  <2> QED BY <2>4
<1>5. AcceptAll(l, ops) = After[n]
  BY DEF AcceptAll
<1>6. Rec(After)
  BY <1>4
<1> HIDE DEF After, b, F, n
<1>7. After[0] = b /\ \A i \in 0..(n - 1) : After[i + 1] = AcceptOne(After[i], ops[i + 1])
  BY <1>1, <1>6
<1> DEFINE S == {i \in 0..n : JudgedSoFar(l, ops, i, After[i])}
<1>8. 0 \in S
  <2>1. b.log = l /\ b.acked = <<>> /\ b.rejected = {}
    BY DEF b
  <2>2. Rows(b.acked) = {}
    BY <2>1 DEF Rows
  <2>3. JudgedSoFar(l, ops, 0, b)
    BY <1>2, <2>1, <2>2 DEF JudgedSoFar
  <2> QED BY <1>1, <1>7, <2>3
<1>9. ASSUME NEW i \in 0..(n - 1), i \in S PROVE i + 1 \in S
  <2>1. i + 1 \in 0..n
    BY <1>1
  <2>2. JudgedSoFar(l, ops, i + 1, AcceptOne(After[i], ops[i + 1]))
    BY <1>9, AcceptOneJudges DEF n
  <2> QED BY <1>7, <2>1, <2>2
<1> HIDE DEF S
<1>10. n \in S
  <2>1. n \in 0..n
    BY <1>1
  <2> QED BY <1>1, <1>8, <1>9, <2>1, InductionUpTo
<1> QED BY <1>5, <1>10 DEF S, n

(***************************************************************************)
(* apply_acked, mark_rejected and the outbox appended again.               *)
(***************************************************************************)

(* The rows afterwards are those of before or of the answer, now acknowledged. *)
AppliedTo(l, ops) ==
  {m \in Seq(Row) :
     UniqueIds(m) /\ \A r \in Rows(m) : r \in Rows(l) \/ \E j \in DOMAIN ops : r = AsAcked(ops[j])}

LEMMA ApplyAckedRows ==
  ASSUME NEW l \in Seq(Row), UniqueIds(l), NEW ops \in Seq(Row)
  PROVE  ApplyAcked(l, ops) \in AppliedTo(l, ops)
<1> DEFINE n == Len(ops)
           St == AppliedTo(l, ops)
           F == [i \in 1..n |-> [m \in St |-> Upsert(m, [ops[i] EXCEPT !.status = "acked"])]]
           Rec(g) == g = [i \in 0..n |->
                            IF i = 0 THEN l ELSE Upsert(g[i - 1], [ops[i] EXCEPT !.status = "acked"])]
           After == CHOOSE g : Rec(g)
<1>1. n \in Nat /\ DOMAIN ops = 1..n /\ \A i \in 1..n : ops[i] \in Row
  OBVIOUS
<1>2. l \in St
  BY DEF AppliedTo
<1>3. ASSUME NEW i \in 1..n, NEW m \in St
      PROVE  Upsert(m, [ops[i] EXCEPT !.status = "acked"]) \in St
  <2> DEFINE row == [ops[i] EXCEPT !.status = "acked"]
  <2>1. row \in Row /\ row = AsAcked(ops[i])
    BY <1>1 DEF Row, AsAcked
  <2> HIDE DEF row
  <2>2. m \in Seq(Row) /\ UniqueIds(m)
    BY DEF AppliedTo
  <2>3. /\ Upsert(m, row) \in Seq(Row) /\ UniqueIds(Upsert(m, row))
        /\ Rows(Upsert(m, row)) = {r \in Rows(m) : r.id # row.id} \cup {row}
    <3>1. row \in Row
      BY <2>1
    <3> HIDE DEF St, F, Rec, n, After
    <3>2. Upsert(m, row) \in Seq(Row) /\ UniqueIds(Upsert(m, row))
      BY <2>2, <3>1, UpsertRows
    <3>3. Rows(Upsert(m, row)) = {r \in Rows(m) : r.id # row.id} \cup {row}
      BY <2>2, <3>1, UpsertRows
    <3> QED BY <3>2, <3>3
  <2>4. \A r \in Rows(Upsert(m, row)) : r \in Rows(l) \/ \E j \in DOMAIN ops : r = AsAcked(ops[j])
    BY <1>1, <2>1, <2>3 DEF AppliedTo
  <2>5. Upsert(m, row) \in St
    BY <2>3, <2>4 DEF AppliedTo
  <2> QED BY <2>5 DEF row
<1> HIDE DEF St
<1>4. \E g : Rec(g)
  <2>1. StaysIn(F, n, St)
    BY <1>3 DEF StaysIn
  <2>2. PICK g \in [0..n -> St] : Runs(g, n, l, F)
    <3>1. n \in Nat
      BY <1>1
    <3> HIDE DEF n, F
    <3> QED BY <1>2, <2>1, <3>1, LoopRuns
  <2>3. g = [i \in 0..n |-> g[i]]
    BY <2>2
  <2>4. \A i \in 0..n : g[i] = IF i = 0 THEN l ELSE Upsert(g[i - 1], [ops[i] EXCEPT !.status = "acked"])
    <3>1. \A i \in 0..n : i # 0 => i \in 1..n /\ g[i - 1] \in St
      BY <1>1, <2>2
    <3>2. \A i \in 1..n : g[i - 1] \in St
            => F[i][g[i - 1]] = Upsert(g[i - 1], [ops[i] EXCEPT !.status = "acked"])
      OBVIOUS
    <3> HIDE DEF F
    <3> QED BY <2>2, <3>1, <3>2 DEF Runs
  <2> QED BY <2>3, <2>4
<1>5. ApplyAcked(l, ops) = After[n]
  BY DEF ApplyAcked
<1>6. Rec(After)
  BY <1>4
<1> HIDE DEF After, F, n
<1> DEFINE S == {i \in 0..n : After[i] \in St}
<1>7. 0 \in S
  BY <1>1, <1>2, <1>6
<1>8. ASSUME NEW i \in 0..(n - 1), i \in S PROVE i + 1 \in S
  <2>1. i + 1 \in 1..n /\ i + 1 \in 0..n /\ i + 1 # 0 /\ (i + 1) - 1 = i
    BY <1>1
  <2>2. After[i + 1] = Upsert(After[i], [ops[i + 1] EXCEPT !.status = "acked"])
    BY <1>6, <2>1
  <2> QED BY <1>3, <1>8, <2>1, <2>2
<1> HIDE DEF S
<1>9. n \in S
  <2>1. n \in 0..n
    BY <1>1
  <2> QED BY <1>1, <1>7, <1>8, <2>1, InductionUpTo
<1> QED BY <1>5, <1>9 DEF S, St

LEMMA MarkRejectedRows ==
  ASSUME NEW l \in Seq(Row), UniqueIds(l), NEW ids
  PROVE  /\ MarkRejected(l, ids) \in Seq(Row)
         /\ UniqueIds(MarkRejected(l, ids))
         /\ \A r \in Rows(MarkRejected(l, ids)) :
              r \in Rows(l) \/ (r.status = "rejected_by_leader" /\ r.id \in ids)
<1> DEFINE n == Len(l)
           mark(i) == IF l[i].id \in ids THEN [l[i] EXCEPT !.status = "rejected_by_leader"] ELSE l[i]
           m == MarkRejected(l, ids)
<1>1. n \in Nat /\ DOMAIN l = 1..n /\ \A i \in 1..n : l[i] \in Row
  OBVIOUS
<1>2. m = [i \in 1..n |-> mark(i)]
  BY <1>1 DEF MarkRejected
<1>3. ASSUME NEW i \in 1..n
      PROVE  /\ mark(i) \in Row /\ mark(i).id = l[i].id
             /\ mark(i) = l[i] \/ (mark(i).status = "rejected_by_leader" /\ mark(i).id \in ids)
  <2>1. l[i] \in Row
    BY <1>1
  <2> QED BY <2>1 DEF Row
<1> HIDE DEF mark, n
<1>4. m \in Seq(Row) /\ DOMAIN m = 1..n /\ \A i \in 1..n : m[i] = mark(i)
  <2>1. m \in [1..n -> Row]
    BY <1>2, <1>3
  <2> QED BY <1>1, <1>2, <2>1
<1> HIDE DEF m
<1>5. UniqueIds(m)
  BY <1>1, <1>3, <1>4 DEF UniqueIds
<1>6. \A r \in Rows(m) : r \in Rows(l) \/ (r.status = "rejected_by_leader" /\ r.id \in ids)
  BY <1>1, <1>3, <1>4 DEF Rows
<1> QED BY <1>4, <1>5, <1>6 DEF m

(* A row before the bound on the numbers is looked at. *)
Wide == [id : (0..1) \X (Nat \ {0}), key : Keys, value : Values, origin : Nodes,
         status : {"pending", "acked", "rejected_by_leader"}]

(* The database after the first i pending operations were appended again. *)
Refilled(l, q, e, f, i) ==
  {s \in [log : Seq(Wide), seq : Nat, epoch : 0..1, node : Followers] :
     /\ UniqueIds(s.log)
     /\ s.seq = q + i /\ s.epoch = e /\ s.node = f
     /\ \A r \in Rows(s.log) :
          \/ r \in Rows(l)
          \/ r.status = "pending" /\ r.origin = f /\ r.id[2] <= q + i}

LEMMA AppendAgainRows ==
  ASSUME NEW l, NEW q \in Nat, NEW e \in 0..1, NEW f \in Followers, NEW i \in Nat,
         NEW s \in Refilled(l, q, e, f, i), NEW row \in Row
  PROVE  AppendAgain(s, row) \in Refilled(l, q, e, f, i + 1)
<1> DEFINE id == <<s.epoch, s.seq + 1>>
           new == NewRow(id, row.key, row.value, s.node)
           m == Inserted(s.log, new)
<1>1. /\ s = [log |-> s.log, seq |-> s.seq, epoch |-> s.epoch, node |-> s.node]
      /\ s.log \in Seq(Wide) /\ UniqueIds(s.log)
      /\ s.seq = q + i /\ s.epoch = e /\ s.node = f
  BY DEF Refilled
<1>2. /\ new \in Wide /\ new.id[2] = q + i + 1
      /\ new.status = "pending" /\ new.origin = f
  BY <1>1 DEF NewRow, Wide, Row, Nodes
<1>3. AppendAgain(s, row) = [s EXCEPT !.seq = @ + 1, !.log = m]
  BY DEF AppendAgain
<1> HIDE DEF new
<1>4. /\ m \in Seq(Wide) /\ UniqueIds(m)
      /\ Rows(m) \subseteq Rows(s.log) \cup {new}
  BY <1>1, <1>2, InsertedRows
<1> HIDE DEF m
<1>5. AppendAgain(s, row) = [log |-> m, seq |-> q + i + 1, epoch |-> e, node |-> f]
  BY <1>1, <1>3
<1>6. ASSUME NEW r \in Rows(m)
      PROVE  r \in Rows(l) \/ (r.status = "pending" /\ r.origin = f /\ r.id[2] <= q + (i + 1))
  <2>1. CASE r = new
    BY <1>2, <2>1
  <2>2. CASE r \in Rows(s.log) /\ r \notin Rows(l)
    <3>1. r.status = "pending" /\ r.origin = f /\ r.id[2] <= q + i
      BY <2>2 DEF Refilled
    <3>2. r \in Wide
      BY <1>1, <2>2, RowsAreFinite
    <3>3. r.id[2] \in Nat
      BY <3>2 DEF Wide
    <3> QED BY <3>1, <3>3
  <2> QED BY <1>4, <2>1, <2>2
<1> QED BY <1>4, <1>5, <1>6 DEF Refilled

LEMMA AppendAllRows ==
  ASSUME NEW l \in Seq(Row), UniqueIds(l), NEW q \in Nat, NEW e \in 0..1, NEW f \in Followers,
         NEW rows \in Seq(Row),
         NEW s, s = AppendAll([log |-> l, seq |-> q, epoch |-> e, node |-> f], rows),
         s.seq <= MaxSeq
  PROVE  /\ s.log \in Seq(Row) /\ UniqueIds(s.log)
         /\ s.seq \in 0..MaxSeq
         /\ \A r \in Rows(s.log) : r \in Rows(l) \/ (r.status = "pending" /\ r.origin = f)
<1> DEFINE n == Len(rows)
           b == [log |-> l, seq |-> q, epoch |-> e, node |-> f]
           At(i) == Refilled(l, q, e, f, i)
           St == UNION {At(i) : i \in Nat}
           F == [i \in 1..n |-> [t \in St |-> AppendAgain(t, rows[i])]]
           Rec(g) == g = [i \in 0..n |-> IF i = 0 THEN b ELSE AppendAgain(g[i - 1], rows[i])]
           After == CHOOSE g : Rec(g)
<1>1. n \in Nat /\ DOMAIN rows = 1..n /\ \A i \in 1..n : rows[i] \in Row
  OBVIOUS
<1>2. b \in At(0)
  <2>1. Row \subseteq Wide
    BY BoundsAreNat DEF Row, Wide, Ids
  <2>2. l \in Seq(Wide)
    BY <2>1, SeqMonotonic
  <2> QED BY <2>2 DEF Refilled
<1>3. \A i \in Nat : \A t \in At(i), row \in Row : AppendAgain(t, row) \in At(i + 1)
  BY AppendAgainRows
<1> HIDE DEF At
<1>4. \E g : Rec(g)
  <2>1. StaysIn(F, n, St)
    <3>1. ASSUME NEW i \in 1..n, NEW t \in St PROVE F[i][t] \in St
      <4>1. PICK k \in Nat : t \in At(k)
        OBVIOUS
      <4>2. AppendAgain(t, rows[i]) \in At(k + 1)
        BY <1>1, <1>3, <4>1
      <4> QED BY <4>2
    <3> QED BY <3>1 DEF StaysIn
  <2>2. b \in St
    BY <1>2
  <2>3. PICK g \in [0..n -> St] : Runs(g, n, b, F)
    <3>1. n \in Nat
      BY <1>1
    <3> HIDE DEF n, F, b, St
    <3> QED BY <2>1, <2>2, <3>1, LoopRuns
  <2> HIDE DEF St, b
  <2>4. g = [i \in 0..n |-> g[i]]
    BY <2>3
  <2>5. \A i \in 0..n : g[i] = IF i = 0 THEN b ELSE AppendAgain(g[i - 1], rows[i])
    <3>1. \A i \in 0..n : i # 0 => i \in 1..n /\ g[i - 1] \in St
      <4>1. n \in Nat
        BY <1>1
      <4> HIDE DEF n, F
      <4> QED BY <4>1
    <3>2. \A i \in 1..n : g[i - 1] \in St => F[i][g[i - 1]] = AppendAgain(g[i - 1], rows[i])
      OBVIOUS
    <3> HIDE DEF F
    <3> QED BY <2>3, <3>1, <3>2 DEF Runs
  <2> QED BY <2>4, <2>5
<1>5. s = After[n]
  BY DEF AppendAll
<1>6. Rec(After)
  BY <1>4
<1> HIDE DEF After, F, n, b
<1> DEFINE S == {i \in 0..n : After[i] \in At(i)}
<1>7. 0 \in S
  BY <1>1, <1>2, <1>6
<1>8. ASSUME NEW i \in 0..(n - 1), i \in S PROVE i + 1 \in S
  <2>1. i + 1 \in 1..n /\ i + 1 \in 0..n /\ i + 1 # 0 /\ (i + 1) - 1 = i /\ i \in Nat
    BY <1>1
  <2>2. After[i + 1] = AppendAgain(After[i], rows[i + 1])
    BY <1>6, <2>1
  <2> QED BY <1>1, <1>3, <1>8, <2>1, <2>2
<1> HIDE DEF S
<1>9. n \in S
  <2>1. n \in 0..n
    BY <1>1
  <2> QED BY <1>1, <1>7, <1>8, <2>1, InductionUpTo
<1>10. s \in Refilled(l, q, e, f, n)
  BY <1>5, <1>9 DEF S, At
<1>11. /\ s.log \in Seq(Wide) /\ UniqueIds(s.log) /\ s.seq \in Nat /\ s.seq = q + n
       /\ \A r \in Rows(s.log) :
            r \in Rows(l) \/ (r.status = "pending" /\ r.origin = f /\ r.id[2] <= q + n)
  BY <1>10 DEF Refilled
<1>12. s.seq \in 0..MaxSeq
  BY <1>11, BoundsAreNat
<1>13. ASSUME NEW j \in 1..Len(s.log) PROVE s.log[j] \in Row
  <2> DEFINE r == s.log[j]
  <2>1. r \in Wide /\ r \in Rows(s.log)
    BY <1>11 DEF Rows
  <2>2. CASE r \in Rows(l)
    BY <2>2, RowsAreFinite
  <2>3. CASE r.id[2] <= q + n
    <3>1. r.id[2] \in Nat \ {0} /\ r.id[2] <= MaxSeq /\ r.id = <<r.id[1], r.id[2]>> /\ r.id[1] \in 0..1
      <4> HIDE DEF r
      <4>1. r.id \in (0..1) \X (Nat \ {0})
        BY <2>1 DEF Wide
      <4>2. q + n <= MaxSeq
        BY <1>11
      <4>3. q + n \in Nat
        BY <1>1
      <4> HIDE DEF n
      <4> QED BY <2>3, <4>1, <4>2, <4>3, BoundsAreNat
    <3>2. r.id[2] \in 1..MaxSeq
      BY <3>1, BoundsAreNat
    <3>3. r.id \in Ids
      BY <3>1, <3>2 DEF Ids
    <3> HIDE DEF r
    <3>4. r \in Row
      BY <2>1, <3>3 DEF Wide, Row
    <3> QED BY <3>4 DEF r
  <2> QED BY <1>11, <2>1, <2>2, <2>3
<1>14. s.log \in Seq(Row)
  <2> DEFINE m == s.log
             k == Len(m)
  <2>1. m \in Seq(Wide) /\ k \in Nat /\ \A j \in 1..k : m[j] \in Row
    BY <1>11, <1>13
  <2>2. m = [j \in 1..k |-> m[j]]
    BY <2>1
  <2> HIDE DEF m, k
  <2>3. m \in [1..k -> Row]
    BY <2>1, <2>2
  <2>4. m \in Seq(Row)
    BY <2>1, <2>3
  <2> QED BY <2>4 DEF m
<1> QED BY <1>11, <1>12, <1>14

(***************************************************************************)
(* What a step has to show, at a follower and at the leader.               *)
(***************************************************************************)

Answers == [Followers -> [Tasks -> Answer \cup {NoAnswer}]]

LEMMA LogsTyped ==
  ASSUME Inv, NEW n \in Nodes
  PROVE  log[n] \in Seq(Row) /\ UniqueIds(log[n])
BY DEF Inv, TypeOK, UniqueIds

LEMMA SameOpAcked ==
  ASSUME NEW r \in Row
  PROVE  AsAcked(r) \in Row /\ AsAcked(r).status = "acked" /\ SameOp(AsAcked(r), r)
BY DEF AsAcked, Row, SameOp

(* The rows a log of a follower may have, given the leader's. *)
Fits(f, r) ==
  /\ r.status = "pending" => r.origin \in {f, Leader}
  /\ r.status = "acked" => Known(r)
  /\ r.status = "rejected_by_leader" => NotTaken(f, r.id)

LEMMA LogsFit ==
  ASSUME Inv, NEW f \in Followers
  PROVE  \A r \in Rows(log[f]) : Fits(f, r)
BY DEF Inv, PendingIsOwn, AckedIsKnown, RefusedIsNotTaken, Fits

LEMMA FollowerMoves ==
  ASSUME Inv, NEW f \in Followers, NEW m \in Seq(Row), UniqueIds(m), \A r \in Rows(m) : Fits(f, r),
         log' = [log EXCEPT ![f] = m],
         seq' \in [Nodes -> 0..MaxSeq], epoch' \in [Nodes -> 0..1], made' \in 0..MaxOps,
         open' \in Answers, \A g \in Followers, t \in Tasks : IsTrue(g, t, open'[g][t])
  PROVE  Inv'
<1>1. /\ f \in Nodes /\ Leader \in Nodes /\ f # Leader
      /\ \A g \in Followers : g \in Nodes
      /\ log \in [Nodes -> Seq(Row)]
  BY LeaderLeads DEF Nodes, Inv, TypeOK
<1>2. /\ log' \in [Nodes -> Seq(Row)] /\ log'[Leader] = log[Leader] /\ log'[f] = m
      /\ \A n \in Nodes : n # f => log'[n] = log[n]
  BY <1>1
<1>3. /\ \A r : Known(r)' <=> Known(r)
      /\ \A g, id : NotTaken(g, id)' <=> NotTaken(g, id)
  BY <1>2 DEF Known, NotTaken
<1>4. \A n \in Nodes : UniqueIds(log'[n])
  BY <1>2, LogsTyped
<1>5. TypeOK'
  BY <1>2, <1>4 DEF TypeOK, Answers, UniqueIds
<1>6. \A g \in Followers : \A r \in Rows(log'[g]) : Fits(g, r)
  BY <1>1, <1>2, LogsFit
<1>7. PendingIsOwn' /\ AckedIsKnown' /\ RefusedIsNotTaken'
  BY <1>3, <1>6 DEF PendingIsOwn, AckedIsKnown, RefusedIsNotTaken, Fits
<1>8. AnswersAreTrue'
  BY <1>3 DEF AnswersAreTrue, IsTrue
<1>9. LeaderLike(log[Leader])'
  BY <1>2 DEF Inv, LeaderLike
<1> QED BY <1>5, <1>7, <1>8, <1>9 DEF Inv

LEMMA AwaitIsTrue ==
  ASSUME Inv, NEW f \in Followers, NEW task \in Tasks, NEW what \in Answer \cup {NoAnswer},
         IsTrue(f, task, what), Await(f, task, what)
  PROVE  open' \in Answers /\ \A g \in Followers, t \in Tasks : IsTrue(g, t, open'[g][t])
<1>1. open \in Answers /\ open' = [open EXCEPT ![f][task] = what]
  BY DEF Inv, TypeOK, Answers, Await
<1>2. open' \in Answers
  BY <1>1 DEF Answers
<1>3. \A g \in Followers, t \in Tasks :
        open'[g][t] = IF g = f /\ t = task THEN what ELSE open[g][t]
  BY <1>1 DEF Answers
<1> QED BY <1>2, <1>3 DEF Inv, AnswersAreTrue

(* A step that leaves the log of every node as it is. *)
LEMMA LogsStay ==
  ASSUME Inv, NEW f \in Followers, UNCHANGED <<log, seq, epoch, made>>,
         open' \in Answers, \A g \in Followers, t \in Tasks : IsTrue(g, t, open'[g][t])
  PROVE  Inv'
<1>1. log' = [log EXCEPT ![f] = log[f]] /\ f \in Nodes
  BY DEF Inv, TypeOK, Nodes
<1>2. log[f] \in Seq(Row) /\ UniqueIds(log[f])
  BY <1>1, LogsTyped
<1>3. \A r \in Rows(log[f]) : Fits(f, r)
  BY LogsFit
<1>4. seq' \in [Nodes -> 0..MaxSeq] /\ epoch' \in [Nodes -> 0..1] /\ made' \in 0..MaxOps
  BY DEF Inv, TypeOK
<1> QED BY <1>1, <1>2, <1>3, <1>4, FollowerMoves

(* f knows, or is about to be told, that the operation with this id is refused. *)
Refused(f, id) ==
  \/ \E r \in Rows(log[f]) : r.status = "rejected_by_leader" /\ r.id = id
  \/ \E task \in Tasks : /\ open[f][task] # NoAnswer
                         /\ open[f][task].kind = "push"
                         /\ id \in open[f][task].rejected

LEMMA LeaderMoves ==
  ASSUME Inv, NEW m \in Seq(Row), UniqueIds(m), LeaderLike(m), Rows(log[Leader]) \subseteq Rows(m),
         log' = [log EXCEPT ![Leader] = m],
         \A r \in Rows(m) \ Rows(log[Leader]) : \A f \in Followers : r.origin = f => ~Refused(f, r.id),
         seq' \in [Nodes -> 0..MaxSeq], epoch' = epoch, made' \in 0..MaxOps,
         open' \in Answers,
         \A g \in Followers, t \in Tasks : open'[g][t] = open[g][t] \/ IsTrue(g, t, open[g][t])'
  PROVE  Inv'
<1>1. /\ Leader \in Nodes /\ \A g \in Followers : g \in Nodes /\ g # Leader
      /\ log \in [Nodes -> Seq(Row)]
  BY LeaderLeads DEF Nodes, Inv, TypeOK
<1>2. /\ log' \in [Nodes -> Seq(Row)] /\ log'[Leader] = m
      /\ \A n \in Nodes : n # Leader => log'[n] = log[n]
  BY <1>1
<1>3. \A r : Known(r) => Known(r)'
  BY <1>2 DEF Known
<1>4. \A f \in Followers : \A id : Refused(f, id) /\ NotTaken(f, id) => NotTaken(f, id)'
  BY <1>2 DEF NotTaken
<1>5. \A n \in Nodes : UniqueIds(log'[n])
  BY <1>2, LogsTyped
<1>6. TypeOK'
  BY <1>2, <1>5 DEF Inv, TypeOK, Answers, UniqueIds
<1>7. PendingIsOwn' /\ AckedIsKnown' /\ RefusedIsNotTaken'
  <2>1. \A g \in Followers : log'[g] = log[g]
    BY <1>1, <1>2
  <2>2. \A g \in Followers : \A r \in Rows(log[g]) :
          r.status = "rejected_by_leader" => NotTaken(g, r.id)'
    BY <1>4 DEF Inv, RefusedIsNotTaken, Refused
  <2> QED BY <1>3, <2>1, <2>2 DEF Inv, PendingIsOwn, AckedIsKnown, RefusedIsNotTaken
<1>8. AnswersAreTrue'
  <2>1. ASSUME NEW g \in Followers, NEW t \in Tasks, open'[g][t] = open[g][t]
        PROVE  IsTrue(g, t, open[g][t])'
    <3>1. IsTrue(g, t, open[g][t])
      BY DEF Inv, AnswersAreTrue
    <3>2. ASSUME open[g][t] # NoAnswer, open[g][t].kind = "push", NEW id \in open[g][t].rejected
          PROVE  NotTaken(g, id)'
      BY <1>4, <3>1, <3>2 DEF IsTrue, Refused
    <3> QED BY <1>3, <2>1, <3>1, <3>2 DEF IsTrue
  <2> QED BY <2>1 DEF AnswersAreTrue
<1>9. LeaderLike(log[Leader])'
  BY <1>2 DEF LeaderLike
<1> QED BY <1>6, <1>7, <1>8, <1>9 DEF Inv

(***************************************************************************)
(* The actions.                                                            *)
(***************************************************************************)

LEMMA QueryLists ==
  ASSUME NEW l \in Seq(Row), UniqueIds(l), NEW rows \in SUBSET Rows(l)
  PROVE  ById(rows) \in Seq(Row) /\ UniqueIds(ById(rows)) /\ Rows(ById(rows)) = rows
<1>1. Rows(l) \in SUBSET Row /\ IsFiniteSet(Rows(l))
  BY RowsAreFinite
<1>2. rows \in SUBSET Row /\ IsFiniteSet(rows)
  BY <1>1, FS_Subset
<1>3. \A r \in rows : r.id \in Nat \X Nat
  BY <1>2, BoundsAreNat DEF Row, Ids
<1>4. \A r, q \in rows : r.id = q.id => r = q
  BY DEF Rows, UniqueIds
<1> QED BY <1>2, <1>3, <1>4, ByIdLists

LEMMA PendingLists ==
  ASSUME Inv, NEW n \in Nodes
  PROVE  /\ Pending(n) \in Seq(Row) /\ UniqueIds(Pending(n))
         /\ Rows(Pending(n)) = {r \in Rows(log[n]) : r.status = "pending"}
<1> DEFINE rows == {r \in Rows(log[n]) : r.status = "pending"}
<1>1. log[n] \in Seq(Row) /\ UniqueIds(log[n]) /\ rows \in SUBSET Rows(log[n])
  BY LogsTyped
<1>2. Pending(n) = ById(rows)
  BY DEF Pending, WithStatus
<1> HIDE DEF rows
<1>3. ById(rows) \in Seq(Row) /\ UniqueIds(ById(rows)) /\ Rows(ById(rows)) = rows
  BY <1>1, QueryLists
<1> QED BY <1>2, <1>3 DEF rows

LEMMA OpenStays ==
  ASSUME Inv, open' = open
  PROVE  open' \in Answers /\ \A g \in Followers, t \in Tasks : IsTrue(g, t, open'[g][t])
BY DEF Inv, TypeOK, Answers, AnswersAreTrue

LEMMA NewRowTyped ==
  ASSUME Inv, NEW n \in Nodes, seq[n] < MaxSeq, NEW k \in Keys, NEW v \in Values
  PROVE  /\ NewRow(NewId(n), k, v, n) \in Row
         /\ NewRow(NewId(n), k, v, n).status = "pending" /\ NewRow(NewId(n), k, v, n).origin = n
         /\ NewRow(NewId(n), k, v, n).id = NewId(n)
         /\ [seq EXCEPT ![n] = @ + 1] \in [Nodes -> 0..MaxSeq]
<1>1. seq \in [Nodes -> 0..MaxSeq] /\ epoch[n] \in 0..1 /\ seq[n] + 1 \in 1..MaxSeq
  BY BoundsAreNat DEF Inv, TypeOK
<1>2. NewId(n) \in Ids
  BY <1>1 DEF NewId, Ids
<1>3. seq[n] + 1 \in 0..MaxSeq
  BY <1>1
<1> QED BY <1>1, <1>2, <1>3 DEF NewRow, Row

LEMMA MadeTyped ==
  ASSUME Inv, made < MaxOps, made' = made + 1
  PROVE  made' \in 0..MaxOps
BY BoundsAreNat DEF Inv, TypeOK

LEMMA ProposeKeeps ==
  ASSUME Inv, NEW f \in Followers, NEW k \in Keys, NEW v \in Values, Propose(f, k, v)
  PROVE  Inv'
<1> DEFINE row == NewRow(NewId(f), k, v, f)
           m == Inserted(log[f], row)
<1>1. f \in Nodes
  BY DEF Nodes
<1>2. log' = [log EXCEPT ![f] = m] /\ seq' = [seq EXCEPT ![f] = @ + 1] /\ UNCHANGED <<epoch, open>>
  BY DEF Propose
<1>3. /\ row \in Row /\ row.status = "pending" /\ row.origin = f
      /\ seq' \in [Nodes -> 0..MaxSeq] /\ epoch' \in [Nodes -> 0..1] /\ made' \in 0..MaxOps
  BY <1>1, <1>2, NewRowTyped, MadeTyped DEF Propose, Inv, TypeOK
<1> HIDE DEF row
<1>4. m \in Seq(Row) /\ UniqueIds(m) /\ Rows(m) \subseteq Rows(log[f]) \cup {row}
  BY <1>1, <1>3, LogsTyped, InsertedRows
<1>5. \A r \in Rows(m) : Fits(f, r)
  BY <1>3, <1>4, LogsFit DEF Fits
<1>6. open' \in Answers /\ \A g \in Followers, t \in Tasks : IsTrue(g, t, open'[g][t])
  BY <1>2, OpenStays
<1> HIDE DEF m
<1> QED BY <1>2, <1>3, <1>4, <1>5, <1>6, FollowerMoves

(* The leader appends a row of its own, or finds its number taken. *)
LEMMA OwnRowKeeps ==
  ASSUME Inv, NEW row \in Row, row.origin = Leader, row.status # "rejected_by_leader",
         NEW m \in Seq(Row), UniqueIds(m), Rows(log[Leader]) \subseteq Rows(m),
         Rows(m) \subseteq Rows(log[Leader]) \cup {row},
         log' = [log EXCEPT ![Leader] = m],
         seq' \in [Nodes -> 0..MaxSeq], made' \in 0..MaxOps, UNCHANGED <<epoch, open>>
  PROVE  Inv'
<1>1. LeaderLike(m)
  BY DEF Inv, LeaderLike
<1>2. \A r \in Rows(m) \ Rows(log[Leader]) : \A f \in Followers : r.origin # f
  BY LeaderLeads
<1>3. open' \in Answers /\ \A g \in Followers, t \in Tasks : open'[g][t] = open[g][t]
  BY OpenStays
<1> QED BY <1>1, <1>2, <1>3, LeaderMoves

LEMMA RecordKeeps ==
  ASSUME Inv, NEW k \in Keys, NEW v \in Values, Record(k, v) \/ RecordCut(k, v)
  PROVE  Inv' /\ Rows(log[Leader]) \subseteq Rows(log'[Leader]) /\ seq'[Leader] # seq[Leader]
<1> DEFINE new == NewRow(NewId(Leader), k, v, Leader)
           acked == [new EXCEPT !.status = "acked"]
           l == log[Leader]
<1>1. Leader \in Nodes /\ l \in Seq(Row) /\ UniqueIds(l) /\ log \in [Nodes -> Seq(Row)]
  BY LogsTyped DEF Nodes, Inv, TypeOK
<1>2. seq[Leader] < MaxSeq /\ seq' = [seq EXCEPT ![Leader] = @ + 1] /\ UNCHANGED <<epoch, open>>
  BY DEF Record, RecordCut
<1>3. /\ new \in Row /\ new.status = "pending" /\ new.origin = Leader /\ new.id = NewId(Leader)
      /\ seq' \in [Nodes -> 0..MaxSeq] /\ made' \in 0..MaxOps
  BY <1>1, <1>2, NewRowTyped, MadeTyped DEF Record, RecordCut
<1>4. acked \in Row /\ acked.status = "acked" /\ acked.origin = Leader /\ acked.id = NewId(Leader)
  BY <1>3 DEF Row
<1>5. seq'[Leader] # seq[Leader]
  BY <1>1, <1>2 DEF Inv, TypeOK
<1>6. CASE Record(k, v)
  <2> DEFINE m == IF NewId(Leader) \in IdsOf(l) THEN l ELSE Upsert(l, acked)
  <2>1. log' = [log EXCEPT ![Leader] = m]
    BY <1>6 DEF Record
  <2> HIDE DEF acked, new
  <2>2. /\ m \in Seq(Row) /\ UniqueIds(m)
        /\ Rows(l) \subseteq Rows(m) /\ Rows(m) \subseteq Rows(l) \cup {acked}
    <3>1. CASE NewId(Leader) \in IdsOf(l)
      BY <1>1, <3>1
    <3>2. CASE NewId(Leader) \notin IdsOf(l)
      <4>1. m = Upsert(l, acked)
        BY <3>2
      <4>2. Upsert(l, acked) = Append(l, acked)
        BY <1>1, <1>4, <3>2, UpsertRows
      <4>3. Rows(Append(l, acked)) = Rows(l) \cup {acked}
        BY <1>1, RowsOfAppend
      <4>4. m \in Seq(Row) /\ UniqueIds(m)
        BY <1>1, <1>4, <4>1, UpsertRows
      <4> QED BY <4>1, <4>2, <4>3, <4>4
    <3> QED BY <3>1, <3>2
  <2> HIDE DEF m
  <2>3. Inv'
    BY <1>2, <1>3, <1>4, <2>1, <2>2, OwnRowKeeps
  <2> QED BY <1>1, <1>5, <2>1, <2>2, <2>3
<1>7. CASE RecordCut(k, v)
  <2> DEFINE m == Inserted(l, new)
  <2>1. log' = [log EXCEPT ![Leader] = m]
    BY <1>7 DEF RecordCut
  <2> HIDE DEF new
  <2>2. /\ m \in Seq(Row) /\ UniqueIds(m)
        /\ Rows(l) \subseteq Rows(m) /\ Rows(m) \subseteq Rows(l) \cup {new}
    BY <1>1, <1>3, InsertedRows
  <2> HIDE DEF m
  <2>3. Inv'
    BY <1>2, <1>3, <2>1, <2>2, OwnRowKeeps
  <2> QED BY <1>1, <1>5, <2>1, <2>2, <2>3
<1> QED BY <1>6, <1>7

LEMMA PushKeeps ==
  ASSUME Inv, NEW f \in Followers, Push(f)
  PROVE  /\ Inv'
         /\ Rows(log[Leader]) \subseteq Rows(log'[Leader])
         /\ \A k \in Keys : LatestValue(log[Leader], k) # {}
              => LatestValue(log'[Leader], k) = LatestValue(log[Leader], k)
<1> DEFINE l == log[Leader]
           ops == Pending(f)
           s == AcceptAll(l, ops)
           what == [kind |-> "push", acked |-> s.acked, rejected |-> s.rejected, then |-> Direction(f)]
<1>1. /\ Leader \in Nodes /\ f \in Nodes /\ f # Leader
      /\ l \in Seq(Row) /\ UniqueIds(l) /\ log \in [Nodes -> Seq(Row)]
      /\ log[f] \in Seq(Row) /\ UniqueIds(log[f])
  BY LeaderLeads, LogsTyped DEF Nodes, Inv, TypeOK
<1>2. /\ ops \in Seq(Row) /\ UniqueIds(ops)
      /\ Rows(ops) = {r \in Rows(log[f]) : r.status = "pending"}
  BY <1>1, PendingLists
<1>3. /\ open[f]["loop"] = NoAnswer /\ log' = [log EXCEPT ![Leader] = s.log]
      /\ Await(f, "loop", what) /\ UNCHANGED <<seq, epoch, made>>
  BY DEF Push
<1>4. JudgedSoFar(l, ops, Len(ops), s)
  <2> HIDE DEF l, ops
  <2> QED BY <1>1, <1>2, AcceptAllJudges
<1> HIDE DEF s
<1>5. /\ s.log \in Seq(Row) /\ UniqueIds(s.log) /\ s.acked \in Seq(Row) /\ s.rejected \in SUBSET Ids
      /\ Rows(l) \subseteq Rows(s.log)
      /\ Rows(s.acked) \subseteq Rows(s.log)
      /\ \A id \in s.rejected : id \notin IdsOf(s.log)
      /\ \A k \in Keys : LatestValue(l, k) # {} => LatestValue(s.log, k) = LatestValue(l, k)
  BY <1>4 DEF JudgedSoFar, Judging
<1>6. ASSUME NEW r \in Rows(s.log), r \notin Rows(l)
      PROVE  \E op \in Rows(log[f]) : op.status = "pending" /\ op \in Row /\ r = AsAcked(op)
  <2>1. PICK j \in 1..Len(ops) : r = AsAcked(ops[j])
    BY <1>4, <1>6 DEF JudgedSoFar
  <2>2. ops[j] \in Row /\ ops[j] \in Rows(ops)
    BY <1>2 DEF Rows
  <2> QED BY <1>2, <2>1, <2>2
<1>7. LeaderLike(s.log)
  BY <1>6, SameOpAcked DEF Inv, LeaderLike
<1>8. ASSUME NEW r \in Rows(s.log) \ Rows(l), NEW g \in Followers, r.origin = g
      PROVE  ~Refused(g, r.id)
  <2>1. PICK op \in Rows(log[f]) : op.status = "pending" /\ op \in Row /\ r = AsAcked(op)
    BY <1>6
  <2>2. r.id = op.id /\ op.origin = g
    BY <1>8, <2>1, SameOpAcked DEF SameOp
  <2>3. g = f
    BY <2>1, <2>2, LeaderLeads DEF Inv, PendingIsOwn
  <2>4. ASSUME NEW q \in Rows(log[f]), q.id = op.id PROVE q.status # "rejected_by_leader"
    <3>1. q = op
      BY <1>1, <2>4 DEF Rows, UniqueIds
    <3> QED BY <2>1, <3>1
  <2>5. ASSUME NEW task \in Tasks, open[f][task] # NoAnswer PROVE open[f][task].kind # "push"
    BY <1>3, <2>5 DEF Inv, AnswersAreTrue, IsTrue
  <2> QED BY <2>2, <2>3, <2>4, <2>5 DEF Refused
<1>9. what \in Answer
  <2>1. Direction(f) \in {"near", "far"}
    BY DEF Direction
  <2> QED BY <1>5, <2>1 DEF Answer
<1>10. open \in Answers /\ open' = [open EXCEPT ![f]["loop"] = what] /\ "loop" \in Tasks
  BY <1>3 DEF Await, Inv, TypeOK, Answers, Tasks
<1>11. log'[Leader] = s.log
  BY <1>1, <1>3
<1>12. IsTrue(f, "loop", open[f]["loop"])'
  <2>1. open'[f]["loop"] = what
    BY <1>10 DEF Answers
  <2>2. \A r \in Rows(s.acked) : Known(r)'
    BY <1>5, <1>11 DEF Known, SameOp
  <2>3. \A id \in s.rejected : NotTaken(f, id)'
    BY <1>5, <1>11 DEF NotTaken, IdsOf
  <2>4. what.kind = "push" /\ what.acked = s.acked /\ what.rejected = s.rejected
    OBVIOUS
  <2> HIDE DEF what
  <2> QED BY <2>1, <2>2, <2>3, <2>4 DEF IsTrue
<1> HIDE DEF what
<1>13. open' \in Answers
  BY <1>9, <1>10 DEF Answers
<1>14. \A g \in Followers, t \in Tasks : open'[g][t] = open[g][t] \/ IsTrue(g, t, open[g][t])'
  <2>1. \A g \in Followers, t \in Tasks : open'[g][t] = open[g][t] \/ (g = f /\ t = "loop")
    BY <1>10 DEF Answers
  <2> QED BY <1>12, <2>1
<1>15. seq' \in [Nodes -> 0..MaxSeq] /\ made' \in 0..MaxOps
  BY <1>3 DEF Inv, TypeOK
<1>16. Inv'
  BY <1>3, <1>5, <1>7, <1>8, <1>13, <1>14, <1>15, LeaderMoves
<1> QED BY <1>5, <1>11, <1>16

(* What an open request waits for, by its kind. *)
LEMMA AnswerTyped ==
  ASSUME Inv, NEW f \in Followers, NEW task \in Tasks, NEW kind, Waiting(f, task, kind)
  PROVE  LET a == open[f][task] IN
         /\ a # NoAnswer /\ a.kind = kind /\ IsTrue(f, task, a)
         /\ kind = "push" => a.acked \in Seq(Row) /\ a.rejected \in SUBSET Ids /\ a.then \in {"near", "far"}
         /\ kind = "pull" => a.ops \in Seq(Row)
         /\ kind = "ops" => a.ops \in Seq(Row) /\ a.saved \in Seq(Row)
         /\ kind = "snapshot" => a.log \in Seq(Row) /\ a.seq \in Nat /\ a.epoch \in 0..1
<1> DEFINE a == open[f][task]
<1>1. a # NoAnswer /\ a.kind = kind /\ a \in Answer /\ IsTrue(f, task, a)
  BY DEF Waiting, Inv, TypeOK, AnswersAreTrue
<1> HIDE DEF a
<1>2. \/ a \in [kind : {"push"}, acked : Seq(Row), rejected : SUBSET Ids, then : {"near", "far"}]
      \/ a \in [kind : {"near", "far"}]
      \/ a \in [kind : {"pull"}, ops : Seq(Row)]
      \/ a \in [kind : {"snapshot"}, log : Seq(Row), seq : Nat, epoch : 0..1]
      \/ a \in [kind : {"ops"}, ops : Seq(Row), saved : Seq(Row)]
  BY <1>1 DEF Answer
<1>3. kind = "push" => a.acked \in Seq(Row) /\ a.rejected \in SUBSET Ids /\ a.then \in {"near", "far"}
  BY <1>1, <1>2
<1>4. kind = "pull" => a.ops \in Seq(Row)
  BY <1>1, <1>2
<1>5. kind = "ops" => a.ops \in Seq(Row) /\ a.saved \in Seq(Row)
  BY <1>1, <1>2
<1>6. kind = "snapshot" => a.log \in Seq(Row) /\ a.seq \in Nat /\ a.epoch \in 0..1
  BY <1>1, <1>2
<1> QED BY <1>1, <1>3, <1>4, <1>5, <1>6 DEF a

(* The task asks nothing of the leader any more, or is between two requests. *)
LEMMA NothingAsked ==
  ASSUME NEW f, NEW task, NEW what \in [kind : {"near", "far"}] \cup {NoAnswer}
  PROVE  what \in Answer \cup {NoAnswer} /\ IsTrue(f, task, what)
<1>1. what = NoAnswer \/ (what \in [kind : {"near", "far"}] /\ what.kind \in {"near", "far"})
  OBVIOUS
<1> QED BY <1>1 DEF Answer, IsTrue

LEMMA AppliedFits ==
  ASSUME NEW f \in Followers, NEW l \in Seq(Row), UniqueIds(l), \A r \in Rows(l) : Fits(f, r),
         NEW ops \in Seq(Row), \A r \in Rows(ops) : Known(r)
  PROVE  /\ ApplyAcked(l, ops) \in Seq(Row) /\ UniqueIds(ApplyAcked(l, ops))
         /\ \A r \in Rows(ApplyAcked(l, ops)) : Fits(f, r)
<1> DEFINE m == ApplyAcked(l, ops)
<1>1. m \in AppliedTo(l, ops)
  BY ApplyAckedRows
<1> HIDE DEF m
<1>2. /\ m \in Seq(Row) /\ UniqueIds(m)
      /\ \A r \in Rows(m) : r \in Rows(l) \/ \E j \in DOMAIN ops : r = AsAcked(ops[j])
  BY <1>1 DEF AppliedTo
<1>3. ASSUME NEW j \in DOMAIN ops PROVE Fits(f, AsAcked(ops[j]))
  <2>1. ops[j] \in Row /\ Known(ops[j])
    BY DEF Rows
  <2>2. Known(AsAcked(ops[j])) /\ AsAcked(ops[j]).status = "acked"
    BY <2>1, SameOpAcked DEF Known, SameOp
  <2> QED BY <2>2 DEF Fits
<1> QED BY <1>2, <1>3 DEF m

LEMMA HandlePushKeeps ==
  ASSUME Inv, NEW f \in Followers, HandlePush(f)
  PROVE  Inv'
<1> DEFINE a == open[f]["loop"]
           n == ApplyAcked(log[f], a.acked)
           m == MarkRejected(n, a.rejected)
           what == [kind |-> a.then]
<1>1. "loop" \in Tasks /\ f \in Nodes
  BY DEF Tasks, Nodes
<1>2. /\ Waiting(f, "loop", "push") /\ log' = [log EXCEPT ![f] = m] /\ Await(f, "loop", what)
      /\ UNCHANGED <<seq, epoch, made>>
  BY DEF HandlePush
<1>3. /\ a # NoAnswer /\ a.kind = "push" /\ IsTrue(f, "loop", a)
      /\ a.acked \in Seq(Row) /\ a.then \in {"near", "far"}
  BY <1>1, <1>2, AnswerTyped
<1> HIDE DEF a
<1>4. (\A r \in Rows(a.acked) : Known(r)) /\ \A id \in a.rejected : NotTaken(f, id)
  BY <1>3 DEF IsTrue
<1>5. log[f] \in Seq(Row) /\ UniqueIds(log[f]) /\ \A r \in Rows(log[f]) : Fits(f, r)
  BY <1>1, LogsTyped, LogsFit
<1>6. n \in Seq(Row) /\ UniqueIds(n) /\ \A r \in Rows(n) : Fits(f, r)
  BY <1>3, <1>4, <1>5, AppliedFits
<1> HIDE DEF n
<1>7. /\ m \in Seq(Row) /\ UniqueIds(m)
      /\ \A r \in Rows(m) : r \in Rows(n) \/ (r.status = "rejected_by_leader" /\ r.id \in a.rejected)
  BY <1>6, MarkRejectedRows
<1> HIDE DEF m
<1>8. \A r \in Rows(m) : Fits(f, r)
  BY <1>4, <1>6, <1>7 DEF Fits
<1>9. what \in [kind : {"near", "far"}]
  BY <1>3
<1> HIDE DEF what
<1>10. what \in Answer \cup {NoAnswer} /\ IsTrue(f, "loop", what)
  BY <1>9, NothingAsked
<1>11. open' \in Answers /\ \A g \in Followers, t \in Tasks : IsTrue(g, t, open'[g][t])
  BY <1>1, <1>2, <1>10, AwaitIsTrue
<1>12. seq' \in [Nodes -> 0..MaxSeq] /\ epoch' \in [Nodes -> 0..1] /\ made' \in 0..MaxOps
  BY <1>2 DEF Inv, TypeOK
<1> QED BY <1>2, <1>7, <1>8, <1>11, <1>12, FollowerMoves

(* The rows of the leader's log are known to it. *)
LEMMA LeaderKnows ==
  ASSUME NEW r \in Rows(log[Leader])
  PROVE  Known(r)
BY DEF Known, SameOp

LEMMA AckedLists ==
  ASSUME NEW l \in Seq(Row), UniqueIds(l), NEW since
  PROVE  /\ Acked(l) \in Seq(Row) /\ Rows(Acked(l)) \subseteq Rows(l)
         /\ Export(l, since) \in Seq(Row) /\ Rows(Export(l, since)) \subseteq Rows(l)
<1> DEFINE acked == {r \in Rows(l) : r.status = "acked"}
           later == {r \in acked : Before(since, r.id)}
<1>1. Acked(l) = ById(acked) /\ Export(l, since) = ById(later)
  BY DEF Acked, Export, WithStatus
<1>2. acked \in SUBSET Rows(l) /\ later \in SUBSET Rows(l)
  OBVIOUS
<1> HIDE DEF acked, later
<1>3. ById(acked) \in Seq(Row) /\ Rows(ById(acked)) = acked
  BY <1>2, QueryLists
<1>4. ById(later) \in Seq(Row) /\ Rows(ById(later)) = later
  BY <1>2, QueryLists
<1> QED BY <1>1, <1>2, <1>3, <1>4

(* Requests answered with a part of the leader's log. *)
LEMMA AskKeeps ==
  ASSUME Inv, NEW f \in Followers, NEW task \in Tasks,
         Pull(f, task) \/ AskSnapshot(f, task) \/ AskOps(f, task)
  PROVE  Inv'
<1> DEFINE l == log[Leader]
           since == LastAcked(log[f])
           pull == [kind |-> "pull", ops |-> Export(l, since)]
           snapshot == [kind |-> "snapshot", log |-> l, seq |-> seq[Leader], epoch |-> epoch[Leader]]
           all == [kind |-> "ops", ops |-> Acked(l), saved |-> Pending(f)]
<1>1. /\ f \in Nodes /\ Leader \in Nodes /\ l \in Seq(Row) /\ UniqueIds(l)
      /\ seq[Leader] \in Nat /\ epoch[Leader] \in 0..1 /\ Pending(f) \in Seq(Row)
  <2>1. f \in Nodes /\ Leader \in Nodes
    BY DEF Nodes
  <2>2. seq[Leader] \in Nat /\ epoch[Leader] \in 0..1
    BY <2>1, BoundsAreNat DEF Inv, TypeOK
  <2> QED BY <2>1, <2>2, LogsTyped, PendingLists
<1>2. /\ Acked(l) \in Seq(Row) /\ Rows(Acked(l)) \subseteq Rows(l)
      /\ Export(l, since) \in Seq(Row) /\ Rows(Export(l, since)) \subseteq Rows(l)
  <2> HIDE DEF l, since
  <2> QED BY <1>1, AckedLists
<1>3. \A r \in Rows(l) : Known(r)
  BY LeaderKnows
<1>4. LeaderLike(l)
  BY DEF Inv
<1> HIDE DEF l, since
<1>5. pull \in Answer /\ IsTrue(f, task, pull)
  <2>1. pull \in Answer /\ pull.kind = "pull" /\ pull.ops = Export(l, since)
    BY <1>2 DEF Answer
  <2> HIDE DEF pull
  <2> QED BY <1>2, <1>3, <2>1 DEF IsTrue
<1>6. snapshot \in Answer /\ IsTrue(f, task, snapshot)
  <2>1. snapshot \in Answer /\ snapshot.kind = "snapshot" /\ snapshot.log = l
    BY <1>1 DEF Answer
  <2> HIDE DEF snapshot
  <2> QED BY <1>1, <1>3, <1>4, <2>1 DEF IsTrue
<1>7. all \in Answer /\ IsTrue(f, task, all)
  <2>1. all \in Answer /\ all.kind = "ops" /\ all.ops = Acked(l)
    BY <1>1, <1>2 DEF Answer
  <2> HIDE DEF all
  <2> QED BY <1>2, <1>3, <2>1 DEF IsTrue
<1>8. /\ Await(f, task, pull) \/ Await(f, task, snapshot) \/ Await(f, task, all)
      /\ UNCHANGED <<log, seq, epoch, made>>
  BY DEF Pull, AskSnapshot, AskOps, l, since
<1> HIDE DEF pull, snapshot, all
<1>9. open' \in Answers /\ \A g \in Followers, t \in Tasks : IsTrue(g, t, open'[g][t])
  BY <1>5, <1>6, <1>7, <1>8, AwaitIsTrue
<1> QED BY <1>8, <1>9, LogsStay

LEMMA HandlePullKeeps ==
  ASSUME Inv, NEW f \in Followers, NEW task \in Tasks, HandlePull(f, task)
  PROVE  Inv'
<1> DEFINE a == open[f][task]
           m == ApplyAcked(log[f], a.ops)
<1>1. /\ Waiting(f, task, "pull") /\ log' = [log EXCEPT ![f] = m] /\ Await(f, task, NoAnswer)
      /\ UNCHANGED <<seq, epoch, made>> /\ f \in Nodes
  BY DEF HandlePull, Nodes
<1>2. a # NoAnswer /\ a.kind = "pull" /\ IsTrue(f, task, a) /\ a.ops \in Seq(Row)
  BY <1>1, AnswerTyped
<1>3. \A r \in Rows(a.ops) : Known(r)
  BY <1>2 DEF IsTrue
<1>4. log[f] \in Seq(Row) /\ UniqueIds(log[f]) /\ \A r \in Rows(log[f]) : Fits(f, r)
  BY <1>1, LogsTyped, LogsFit
<1> HIDE DEF a
<1>5. m \in Seq(Row) /\ UniqueIds(m) /\ \A r \in Rows(m) : Fits(f, r)
  BY <1>2, <1>3, <1>4, AppliedFits
<1> HIDE DEF m
<1>6. NoAnswer \in Answer \cup {NoAnswer} /\ IsTrue(f, task, NoAnswer)
  BY DEF IsTrue
<1>7. open' \in Answers /\ \A g \in Followers, t \in Tasks : IsTrue(g, t, open'[g][t])
  BY <1>1, <1>6, AwaitIsTrue
<1>8. seq' \in [Nodes -> 0..MaxSeq] /\ epoch' \in [Nodes -> 0..1] /\ made' \in 0..MaxOps
  BY <1>1 DEF Inv, TypeOK
<1> QED BY <1>1, <1>5, <1>7, <1>8, FollowerMoves

(* A database that came from the leader, and the outbox appended again. *)
LEMMA RefillKeeps ==
  ASSUME Inv, NEW f \in Followers, NEW l \in Seq(Row), UniqueIds(l), \A r \in Rows(l) : Fits(f, r),
         NEW q \in Nat, NEW e \in 0..1, NEW saved \in Seq(Row), Refill(f, l, q, e, saved),
         open' \in Answers, \A g \in Followers, t \in Tasks : IsTrue(g, t, open'[g][t])
  PROVE  Inv'
<1> DEFINE s == AppendAll([log |-> l, seq |-> q, epoch |-> e, node |-> f], saved)
<1>1. /\ s.seq <= MaxSeq /\ log' = [log EXCEPT ![f] = s.log]
      /\ seq' = [seq EXCEPT ![f] = s.seq] /\ epoch' = [epoch EXCEPT ![f] = e] /\ made' = made
  BY DEF Refill
<1>2. /\ s.log \in Seq(Row) /\ UniqueIds(s.log)
      /\ s.seq \in 0..MaxSeq
      /\ \A r \in Rows(s.log) : r \in Rows(l) \/ (r.status = "pending" /\ r.origin = f)
  BY <1>1, AppendAllRows
<1> HIDE DEF s
<1>3. \A r \in Rows(s.log) : Fits(f, r)
  BY <1>2 DEF Fits
<1>4. seq' \in [Nodes -> 0..MaxSeq] /\ epoch' \in [Nodes -> 0..1] /\ made' \in 0..MaxOps
  BY <1>1, <1>2 DEF Inv, TypeOK
<1> QED BY <1>1, <1>2, <1>3, <1>4, FollowerMoves

LEMMA SnapshotKeeps ==
  ASSUME Inv, NEW f \in Followers, NEW task \in Tasks, HandleSnapshot(f, task) \/ SnapshotCut(f, task)
  PROVE  Inv'
<1> DEFINE a == open[f][task]
<1>1. Waiting(f, task, "snapshot") /\ f \in Nodes
  BY DEF HandleSnapshot, SnapshotCut, Nodes
<1>2. /\ a # NoAnswer /\ a.kind = "snapshot" /\ IsTrue(f, task, a)
      /\ a.log \in Seq(Row) /\ a.seq \in Nat /\ a.epoch \in 0..1
  BY <1>1, AnswerTyped
<1> HIDE DEF a
<1>3. UniqueIds(a.log) /\ \A r \in Rows(a.log) : Fits(f, r)
  BY <1>2 DEF IsTrue, LeaderLike, Fits
<1>4. Pending(f) \in Seq(Row)
  BY <1>1, PendingLists
<1>5. NoAnswer \in Answer \cup {NoAnswer} /\ \A g, t : IsTrue(g, t, NoAnswer)
  BY DEF IsTrue
<1>6. CASE HandleSnapshot(f, task)
  <2>1. Await(f, task, NoAnswer) /\ Refill(f, a.log, a.seq, a.epoch, Pending(f))
    BY <1>6 DEF HandleSnapshot, a
  <2>2. open' \in Answers /\ \A g \in Followers, t \in Tasks : IsTrue(g, t, open'[g][t])
    BY <1>5, <2>1, AwaitIsTrue
  <2> QED BY <1>2, <1>3, <1>4, <2>1, <2>2, RefillKeeps
<1>7. CASE SnapshotCut(f, task)
  <2>1. PICK k \in 0..(Len(Pending(f)) - 1) :
          Refill(f, a.log, a.seq, a.epoch, SubSeq(Pending(f), 1, k))
    BY <1>7 DEF SnapshotCut, a
  <2>2. open \in Answers /\ open' = [open EXCEPT ![f] = [t \in Tasks |-> NoAnswer]]
    BY <1>7 DEF SnapshotCut, Inv, TypeOK, Answers
  <2>3. open' \in Answers
    BY <2>2 DEF Answers
  <2>4. \A g \in Followers, t \in Tasks : open'[g][t] \in {open[g][t], NoAnswer}
    BY <2>2 DEF Answers
  <2>5. \A g \in Followers, t \in Tasks : IsTrue(g, t, open'[g][t])
    BY <1>5, <2>4 DEF Inv, AnswersAreTrue
  <2>6. SubSeq(Pending(f), 1, k) \in Seq(Row)
    <3>1. 1 \in Int /\ k \in Int /\ \A i \in 1..k : Pending(f)[i] \in Row
      BY <1>4
    <3> QED BY <3>1, SubSeqProperties
  <2> QED BY <1>2, <1>3, <2>1, <2>3, <2>5, <2>6, RefillKeeps
<1> QED BY <1>6, <1>7

LEMMA HandleOpsKeeps ==
  ASSUME Inv, NEW f \in Followers, NEW task \in Tasks, HandleOps(f, task)
  PROVE  Inv'
<1> DEFINE a == open[f][task]
           l == ApplyAcked(<<>>, a.ops)
<1>1. /\ Waiting(f, task, "ops") /\ Await(f, task, NoAnswer)
      /\ Refill(f, l, seq[f], epoch[f], a.saved) /\ f \in Nodes
  BY DEF HandleOps, Nodes
<1>2. /\ a # NoAnswer /\ a.kind = "ops" /\ IsTrue(f, task, a)
      /\ a.ops \in Seq(Row) /\ a.saved \in Seq(Row)
  BY <1>1, AnswerTyped
<1> HIDE DEF a
<1>3. \A r \in Rows(a.ops) : Known(r)
  BY <1>2 DEF IsTrue
<1>4. <<>> \in Seq(Row) /\ UniqueIds(<<>>) /\ \A r \in Rows(<<>>) : Fits(f, r)
  BY DEF UniqueIds, Rows
<1>5. l \in Seq(Row) /\ UniqueIds(l) /\ \A r \in Rows(l) : Fits(f, r)
  BY <1>2, <1>3, <1>4, AppliedFits
<1> HIDE DEF l
<1>6. seq[f] \in Nat /\ epoch[f] \in 0..1
  BY <1>1, BoundsAreNat DEF Inv, TypeOK
<1>7. NoAnswer \in Answer \cup {NoAnswer} /\ IsTrue(f, task, NoAnswer)
  BY DEF IsTrue
<1>8. open' \in Answers /\ \A g \in Followers, t \in Tasks : IsTrue(g, t, open'[g][t])
  BY <1>1, <1>7, AwaitIsTrue
<1> QED BY <1>1, <1>2, <1>5, <1>6, <1>8, RefillKeeps

LEMMA TimeOutKeeps ==
  ASSUME Inv, NEW f \in Followers, NEW task \in Tasks, TimeOut(f, task)
  PROVE  Inv'
<1> DEFINE what == IF Waiting(f, task, "push") THEN [kind |-> open[f][task].then] ELSE NoAnswer
<1>1. Await(f, task, what) /\ UNCHANGED <<log, seq, epoch, made>>
  BY DEF TimeOut
<1>2. what \in [kind : {"near", "far"}] \cup {NoAnswer}
  <2>1. Waiting(f, task, "push") => open[f][task].then \in {"near", "far"}
    BY AnswerTyped
  <2> QED BY <2>1
<1> HIDE DEF what
<1>3. what \in Answer \cup {NoAnswer} /\ IsTrue(f, task, what)
  BY <1>2, NothingAsked
<1>4. open' \in Answers /\ \A g \in Followers, t \in Tasks : IsTrue(g, t, open'[g][t])
  BY <1>1, <1>3, AwaitIsTrue
<1> QED BY <1>1, <1>4, LogsStay

(***************************************************************************)
(* The theorems.                                                           *)
(***************************************************************************)

LEMMA InvInit == Init => Inv
<1> SUFFICES ASSUME Init PROVE Inv
  OBVIOUS
<1>1. Leader \in Nodes /\ \A f \in Followers : f \in Nodes
  BY DEF Nodes
<1>2. TypeOK
  BY BoundsAreNat DEF Init, TypeOK
<1>3. \A n \in Nodes : Rows(log[n]) = {}
  BY DEF Init, Rows
<1>4. LeaderLike(log[Leader]) /\ PendingIsOwn /\ AckedIsKnown /\ RefusedIsNotTaken
  BY <1>1, <1>3 DEF LeaderLike, PendingIsOwn, AckedIsKnown, RefusedIsNotTaken
<1>5. AnswersAreTrue
  BY DEF Init, AnswersAreTrue, IsTrue
<1> QED BY <1>2, <1>4, <1>5 DEF Inv

(* The steps of followers, but for the push, which moves the leader. *)
FollowerActs ==
  \E f \in Followers :
    \/ \E k \in Keys, v \in Values : Propose(f, k, v)
    \/ HandlePush(f)
    \/ \E task \in Tasks :
         \/ Pull(f, task) \/ HandlePull(f, task)
         \/ AskSnapshot(f, task) \/ HandleSnapshot(f, task) \/ SnapshotCut(f, task)
         \/ AskOps(f, task) \/ HandleOps(f, task)
         \/ TimeOut(f, task)

LEMMA NextSplit ==
  Next <=> \/ FollowerActs
           \/ \E f \in Followers : Push(f)
           \/ \E k \in Keys, v \in Values : Record(k, v) \/ RecordCut(k, v)
BY DEF Next, FollowerActs

LEMMA InvStep == Inv /\ [Next]_vars => Inv'
<1> SUFFICES ASSUME Inv, [Next]_vars PROVE Inv'
  OBVIOUS
<1>1. CASE FollowerActs
  BY <1>1, ProposeKeeps, HandlePushKeeps, AskKeeps, HandlePullKeeps, SnapshotKeeps,
     HandleOpsKeeps, TimeOutKeeps DEF FollowerActs
<1>2. CASE UNCHANGED vars
  BY <1>2 DEF vars, Inv, TypeOK, LeaderLike, PendingIsOwn, AckedIsKnown, RefusedIsNotTaken,
              AnswersAreTrue, IsTrue, Known, NotTaken
<1> QED BY <1>1, <1>2, NextSplit, PushKeeps, RecordKeeps

LEMMA Invariant == Spec => []Inv
BY InvInit, InvStep, PTL DEF Spec

(* A step of a follower leaves the leader's log alone. *)
LEMMA LeaderStays ==
  ASSUME Inv, FollowerActs \/ UNCHANGED vars
  PROVE  log'[Leader] = log[Leader]
<1>1. CASE UNCHANGED vars
  BY <1>1 DEF vars
<1>2. CASE FollowerActs
  <2> DEFINE Writes(f) == \E m : log' = [log EXCEPT ![f] = m]
  <2>1. log' = log \/ \E f \in Followers : Writes(f)
    <3>1. ASSUME NEW f \in Followers, NEW k \in Keys, NEW v \in Values, Propose(f, k, v)
          PROVE  Writes(f)
      BY <3>1 DEF Propose
    <3>2. ASSUME NEW f \in Followers, HandlePush(f) PROVE Writes(f)
      BY <3>2 DEF HandlePush
    <3>3. ASSUME NEW f \in Followers, NEW task \in Tasks, HandlePull(f, task) PROVE Writes(f)
      BY <3>3 DEF HandlePull
    <3>4. ASSUME NEW f \in Followers, NEW l, NEW q, NEW e, NEW saved, Refill(f, l, q, e, saved)
          PROVE  Writes(f)
      BY <3>4 DEF Refill
    <3>5. ASSUME NEW f \in Followers, NEW task \in Tasks,
                 HandleSnapshot(f, task) \/ SnapshotCut(f, task) \/ HandleOps(f, task)
          PROVE  Writes(f)
      <4> HIDE DEF Writes
      <4> QED BY <3>4, <3>5 DEF HandleSnapshot, SnapshotCut, HandleOps
    <3>6. ASSUME NEW f \in Followers, NEW task \in Tasks,
                 Pull(f, task) \/ AskSnapshot(f, task) \/ AskOps(f, task) \/ TimeOut(f, task)
          PROVE  log' = log
      BY <3>6 DEF Pull, AskSnapshot, AskOps, TimeOut
    <3> HIDE DEF Writes
    <3> QED BY <1>2, <3>1, <3>2, <3>3, <3>5, <3>6 DEF FollowerActs
  <2>2. ASSUME NEW f \in Followers, Writes(f) PROVE log'[Leader] = log[Leader]
    <3>1. f # Leader /\ log \in [Nodes -> Seq(Row)] /\ Leader \in Nodes
      BY LeaderLeads DEF Inv, TypeOK, Nodes
    <3> QED BY <2>2, <3>1
  <2> QED BY <2>1, <2>2
<1> QED BY <1>1, <1>2

(* What the leader's log does in a step: it only grows, and unless the leader
   appends, a key that has a value keeps it. *)
LEMMA LeaderGrows ==
  ASSUME Inv, [Next]_vars
  PROVE  /\ Rows(log[Leader]) \subseteq Rows(log'[Leader])
         /\ seq'[Leader] = seq[Leader] =>
              \A k \in Keys : LatestValue(log[Leader], k) # {}
                => LatestValue(log'[Leader], k) = LatestValue(log[Leader], k)
<1>1. CASE FollowerActs \/ UNCHANGED vars
  <2>1. log'[Leader] = log[Leader]
    BY <1>1, LeaderStays
  <2> QED BY <2>1
<1> QED BY <1>1, NextSplit, PushKeeps, RecordKeeps

(* Every log is a sequence of rows with ids of their own, and every answer on its
   way is what its handler expects: a restored database, an answer handled after
   another changed the log and a number used twice never make two rows of one id. *)
THEOREM TypeCorrect == Spec => []TypeOK
<1>1. Inv => TypeOK
  BY DEF Inv
<1> QED BY <1>1, Invariant, PTL

(* What a follower holds as acknowledged is an operation of the leader's log, word
   for word, however late, lost or overtaken the answers were that brought it. *)
THEOREM AckedIsAlwaysLeaders == Spec => []AckedIsLeaders
<1>1. Inv => AckedIsLeaders
  <2> SUFFICES ASSUME Inv, NEW f \in Followers, NEW r \in Rows(log[f]), r.status = "acked"
               PROVE  \E s \in Rows(log[Leader]) : [s EXCEPT !.status = "acked"] = r
    BY DEF AckedIsLeaders
  <2>1. PICK s \in Rows(log[Leader]) : SameOp(r, s)
    BY DEF Inv, AckedIsKnown, Known
  <2>2. f \in Nodes /\ Leader \in Nodes
    BY DEF Nodes
  <2>3. r \in Row /\ s \in Row
    BY <2>2, LogsTyped, RowsAreFinite
  <2>4. [s EXCEPT !.status = "acked"] = r
    BY <2>1, <2>3 DEF SameOp, Row
  <2> QED BY <2>4
<1> QED BY <1>1, Invariant, PTL

(* No operation is in force at the leader that the follower which made it was told
   is refused, although the answer may be handled after a restore gave its number
   to another. *)
THEOREM RefusedIsNeverInForce == Spec => []RefusedIsNotInForce
<1>1. Inv => RefusedIsNotInForce
  BY DEF Inv, RefusedIsNotTaken, NotTaken, RefusedIsNotInForce
<1> QED BY <1>1, Invariant, PTL

(* The leader never changes what an operation of its log says, nor takes an
   acknowledgement back, in any step. *)
THEOREM LeaderLogStaysStable == Spec => LeaderLogIsStable
<1> DEFINE Kept == \A r \in Rows(log[Leader]) :
                     \E s \in Rows(log'[Leader]) :
                        /\ [s EXCEPT !.status = r.status] = r
                        /\ r.status = "acked" => s.status = "acked"
<1>1. Inv /\ [Next]_vars => Kept
  <2> SUFFICES ASSUME Inv, [Next]_vars, NEW r \in Rows(log[Leader])
               PROVE  \E s \in Rows(log'[Leader]) :
                        /\ [s EXCEPT !.status = r.status] = r
                        /\ r.status = "acked" => s.status = "acked"
    OBVIOUS
  <2>1. r \in Row
    <3>1. Leader \in Nodes
      BY DEF Nodes
    <3> QED BY <3>1, LogsTyped, RowsAreFinite
  <2>2. [r EXCEPT !.status = r.status] = r
    BY <2>1 DEF Row
  <2> QED BY <2>2, LeaderGrows
<1>2. Inv /\ [Next]_vars => [Kept]_vars
  BY <1>1
<1> QED BY <1>2, Invariant, PTL DEF Spec, LeaderLogIsStable

(* leader_wins: whatever followers push and however often, a value the leader has
   for a key stands until the leader itself appends. *)
THEOREM LeaderAlwaysWins == Spec => LeaderWins
<1> DEFINE Stands == \A k \in Keys :
                       LatestValue(log[Leader], k) \notin {{}, LatestValue(log'[Leader], k)}
                         => seq'[Leader] # seq[Leader]
<1>1. Inv /\ [Next]_vars => [Stands]_vars
  BY LeaderGrows
<1> QED BY <1>1, Invariant, PTL DEF Spec, LeaderWins

(* Two nodes that hold an operation as acknowledged hold the same one. *)
NodesAgree ==
  \A f, g \in Nodes : \A r \in Rows(log[f]), s \in Rows(log[g]) :
    r.id = s.id /\ r.status = "acked" /\ s.status = "acked" => r = s

(* No two nodes ever take different operations under one id for acknowledged: the
   answers that bring them may be late, and a restored database may have given
   the number away a second time. *)
THEOREM NodesAlwaysAgree == Spec => []NodesAgree
<1>1. Inv /\ AckedIsLeaders => NodesAgree
  <2> SUFFICES ASSUME Inv, AckedIsLeaders PROVE NodesAgree
    OBVIOUS
  <2>1. /\ Leader \in Nodes /\ \A n \in Nodes : n = Leader \/ n \in Followers
        /\ \A n \in Nodes : \A r \in Rows(log[n]) : r \in Row
    BY LogsTyped, RowsAreFinite DEF Nodes
  <2>2. ASSUME NEW n \in Nodes, NEW r \in Rows(log[n]), r.status = "acked"
        PROVE  \E s \in Rows(log[Leader]) : s.id = r.id /\ [s EXCEPT !.status = "acked"] = r
    <3>1. CASE n = Leader
      <4>1. [r EXCEPT !.status = "acked"] = r
        BY <2>1, <2>2 DEF Row
      <4> QED BY <3>1, <4>1
    <3>2. CASE n \in Followers
      <4>1. PICK s \in Rows(log[Leader]) : [s EXCEPT !.status = "acked"] = r
        BY <2>2, <3>2 DEF AckedIsLeaders
      <4>2. s.id = r.id
        BY <2>1, <4>1 DEF Row
      <4> QED BY <4>1, <4>2
    <3> QED BY <2>1, <3>1, <3>2
  <2>3. \A s, u \in Rows(log[Leader]) : s.id = u.id => s = u
    BY <2>1, LogsTyped DEF UniqueIds, Rows
  <2> QED BY <2>2, <2>3 DEF NodesAgree
<1> QED BY <1>1, Invariant, AckedIsAlwaysLeaders, PTL
=============================================================================
