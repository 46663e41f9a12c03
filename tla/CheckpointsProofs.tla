------------------------ MODULE CheckpointsProofs ------------------------
(***************************************************************************)
(* Proofs about Checkpoints, for any columns, values, labels and limits:   *)
(* its types, that a checkpoint outside doubt restores to what it was      *)
(* taken of, and that pruning to a suffix changes no snapshot.             *)
(***************************************************************************)
EXTENDS Checkpoints, NaturalLemmas, FiniteSetTheorems, SequenceTheorems, TLAPS

(***************************************************************************)
(* The operators the model is built from.                                  *)
(***************************************************************************)

(* s lists the numbers of S from the smallest up. *)
Lists(s, S) ==
  /\ s \in [1..Cardinality(S) -> S]
  /\ Range(s) = S
  /\ \A i, j \in DOMAIN s : i < j => s[i] < s[j]

LEMMA NumbersAreFinite ==
  ASSUME NEW n \in Nat, NEW S \in SUBSET (1..n)
  PROVE  IsFiniteSet(S) /\ S \in SUBSET Nat /\ Cardinality(S) \in Nat
<1>1. S \in SUBSET Nat /\ \A x \in S : x <= n
  OBVIOUS
<1>2. IsFiniteSet(S)
  BY <1>1, FS_BoundedSetOfNaturals
<1> QED BY <1>1, <1>2, FS_CardinalityType

LEMMA ListWithLast ==
  ASSUME NEW S \in SUBSET Nat, IsFiniteSet(S), NEW m \in Nat, \A x \in S : x < m,
         \E s : Lists(s, S)
  PROVE  \E s : Lists(s, S \cup {m})
<1> DEFINE c == Cardinality(S)
<1>1. c \in Nat /\ m \notin S
  BY FS_CardinalityType
<1>2. Cardinality(S \cup {m}) = c + 1
  BY <1>1, FS_AddElement
<1>3. PICK s : Lists(s, S)
  OBVIOUS
<1> DEFINE t == [i \in 1..(c + 1) |-> IF i = c + 1 THEN m ELSE s[i]]
<1>4. s \in [1..c -> S] /\ Range(s) = S /\ \A i, j \in 1..c : i < j => s[i] < s[j]
  BY <1>3 DEF Lists
<1> HIDE DEF c
<1>5. t \in [1..(c + 1) -> S \cup {m}]
  <2>1. \A i \in 1..(c + 1) : i # c + 1 => i \in 1..c
    BY <1>1
  <2> QED BY <1>4, <2>1
<1>6. Range(t) = S \cup {m}
  <2>1. \A i \in 1..c : i \in 1..(c + 1) /\ i # c + 1
    BY <1>1
  <2>2. \A x \in S : \E i \in 1..c : s[i] = x
    BY <1>4 DEF Range
  <2>3. \A x \in S : \E i \in 1..(c + 1) : t[i] = x
    BY <2>1, <2>2
  <2>4. c + 1 \in 1..(c + 1) /\ t[c + 1] = m
    BY <1>1
  <2> HIDE DEF t
  <2> QED BY <1>5, <2>3, <2>4 DEF Range
<1>7. ASSUME NEW i \in 1..(c + 1), NEW j \in 1..(c + 1), i < j PROVE t[i] < t[j]
  <2>1. i \in 1..c /\ t[i] = s[i] /\ s[i] \in S
    BY <1>1, <1>4, <1>7
  <2>2. CASE j = c + 1
    BY <2>1, <2>2
  <2>3. CASE j # c + 1
    <3>1. j \in 1..c /\ t[j] = s[j]
      BY <1>1, <2>3
    <3> QED BY <1>4, <1>7, <2>1, <3>1
  <2> QED BY <2>2, <2>3
<1> HIDE DEF t
<1>8. Lists(t, S \cup {m})
  BY <1>2, <1>5, <1>6, <1>7 DEF Lists
<1> QED BY <1>8

LEMMA HasList ==
  ASSUME NEW n \in Nat
  PROVE  \A S \in SUBSET (1..n) : \E s : Lists(s, S)
<1> DEFINE P == {k \in 0..n : \A S \in SUBSET (1..k) : \E s : Lists(s, S)}
<1>1. 0 \in P
  <2>1. ASSUME NEW S \in SUBSET (1..0) PROVE \E s : Lists(s, S)
    <3>0. S = {}
      OBVIOUS
    <3>1. S = {} /\ Cardinality(S) = 0
      BY <3>0, FS_EmptySet
    <3>2. [i \in 1..0 |-> i] \in [1..0 -> {}] /\ Range([i \in 1..0 |-> i]) = {}
      BY DEF Range
    <3>3. Lists([i \in 1..0 |-> i], S)
      BY <3>1, <3>2 DEF Lists
    <3> QED BY <3>3
  <2> QED BY <2>1
<1>2. ASSUME NEW k \in 0..(n - 1), k \in P PROVE k + 1 \in P
  <2>1. ASSUME NEW S \in SUBSET (1..(k + 1)) PROVE \E s : Lists(s, S)
    <3> DEFINE T == S \ {k + 1}
    <3>1. T \in SUBSET (1..k) /\ \A x \in T : x < k + 1
      OBVIOUS
    <3>2. IsFiniteSet(T) /\ T \in SUBSET Nat
      <4> HIDE DEF T
      <4>1. k \in Nat
        OBVIOUS
      <4> QED BY <3>1, <4>1, NumbersAreFinite
    <3>3. \E s : Lists(s, T)
      BY <1>2, <3>1
    <3>4. CASE k + 1 \in S
      <4>1. S = T \cup {k + 1}
        BY <3>4
      <4> HIDE DEF T
      <4>2. \E s : Lists(s, T \cup {k + 1})
        BY <3>1, <3>2, <3>3, ListWithLast
      <4> QED BY <4>1, <4>2
    <3>5. CASE k + 1 \notin S
      <4>1. S = T
        BY <3>5
      <4> QED BY <3>3, <4>1
    <3> QED BY <3>4, <3>5
  <2> QED BY <2>1
<1>3. n \in P
  <2> HIDE DEF P
  <2>1. \A k \in 0..n : k \in P
    BY <1>1, <1>2, InductionUpTo
  <2> QED BY <2>1
<1> QED BY <1>3

LEMMA AscendingLists ==
  ASSUME NEW n \in Nat, NEW S \in SUBSET (1..n)
  PROVE  /\ Lists(Ascending(S), S)
         /\ Cardinality(S) \in Nat /\ DOMAIN Ascending(S) = 1..Cardinality(S)
         /\ Ascending(S) \in Seq(S)
<1>1. \E s \in [1..Cardinality(S) -> S] :
         Range(s) = S /\ \A i, j \in DOMAIN s : i < j => s[i] < s[j]
  BY HasList DEF Lists
<1>2. Lists(Ascending(S), S)
  BY <1>1 DEF Ascending, Lists
<1>3. Cardinality(S) \in Nat
  BY NumbersAreFinite
<1>4. Ascending(S) \in [1..Cardinality(S) -> S]
  BY <1>2 DEF Lists
<1>5. Ascending(S) \in Seq(S)
  BY <1>3, <1>4
<1> QED BY <1>2, <1>3, <1>4, <1>5

(* Frames are the functions from columns to values. *)
LEMMA FramesAre ==
  /\ \A f \in Frames : DOMAIN f \in SUBSET Columns /\ f \in [DOMAIN f -> Values]
  /\ \A S \in SUBSET Columns : \A f \in [S -> Values] : f \in Frames
BY DEF Frames

(* What an operation does to a frame. *)
SetsColumn(op, c) == op.kind = "set_cell" /\ op.column = c

LEMMA OpsAre ==
  ASSUME NEW op \in Ops, op.kind = "set_cell"
  PROVE  op.column \in Columns /\ op.value \in Values /\ op = SetCell(op.column, op.value)
BY DEF Ops, BulkInit, Structural, SetCell

LEMMA ReplayOpDoes ==
  ASSUME NEW f \in Frames, NEW op \in Ops
  PROVE  /\ ReplayOp(f, op) \in Frames
         /\ DOMAIN ReplayOp(f, op) = DOMAIN f
         /\ \A c \in DOMAIN f :
              ReplayOp(f, op)[c] = IF SetsColumn(op, c) THEN op.value ELSE f[c]
<1>1. DOMAIN f \in SUBSET Columns /\ f \in [DOMAIN f -> Values]
  BY FramesAre
<1>2. CASE op.kind = "set_cell" /\ op.column \in DOMAIN f
  <2>1. op.value \in Values
    BY <1>2, OpsAre
  <2>2. ReplayOp(f, op) = [f EXCEPT ![op.column] = op.value]
    BY <1>2 DEF ReplayOp
  <2>3. ReplayOp(f, op) \in [DOMAIN f -> Values]
    BY <1>1, <2>1, <2>2
  <2> QED BY <1>1, <1>2, <2>2, <2>3, FramesAre DEF SetsColumn
<1>3. CASE ~(op.kind = "set_cell" /\ op.column \in DOMAIN f)
  BY <1>3 DEF ReplayOp, SetsColumn
<1> QED BY <1>2, <1>3

(* g goes through the frames that replaying ops on f goes through. *)
Replays(g, f, ops) ==
  /\ g \in [0..Len(ops) -> Frames]
  /\ g[0] = f
  /\ \A i \in 1..Len(ops) : g[i] = ReplayOp(g[i - 1], ops[i])

LEMMA ReplayRuns ==
  ASSUME NEW f \in Frames, NEW ops \in Seq(Ops)
  PROVE  \E g : Replays(g, f, ops) /\ ReplayOps(f, ops) = g[Len(ops)]
<1> DEFINE n == Len(ops)
           F == [i \in 1..n |-> [h \in Frames |-> ReplayOp(h, ops[i])]]
           Rec(g) == g = [i \in 0..n |-> IF i = 0 THEN f ELSE ReplayOp(g[i - 1], ops[i])]
<1>1. n \in Nat /\ \A i \in 1..n : ops[i] \in Ops
  OBVIOUS
<1> HIDE DEF n
<1>2. StaysIn(F, n, Frames)
  BY <1>1, ReplayOpDoes DEF StaysIn
<1>3. PICK h \in [0..n -> Frames] : Runs(h, n, f, F)
  <2> HIDE DEF F
  <2> QED BY <1>1, <1>2, LoopRuns
<1>4. Rec(h)
  <2>1. \A i \in 0..n : h[i] = IF i = 0 THEN f ELSE ReplayOp(h[i - 1], ops[i])
    <3>1. ASSUME NEW i \in 1..n PROVE h[i] = ReplayOp(h[i - 1], ops[i])
      <4>1. h[i - 1] \in Frames
        BY <1>1
      <4> QED BY <1>3, <4>1 DEF Runs
    <3> QED BY <1>1, <1>3, <3>1 DEF Runs
  <2> QED BY <2>1
<1> DEFINE g == CHOOSE g0 : Rec(g0)
<1>5. Rec(g)
  <2> HIDE DEF Rec
  <2> QED BY <1>4
<1>6. ReplayOps(f, ops) = g[n]
  BY DEF ReplayOps, n
<1> HIDE DEF g
<1>7. /\ g[0] = f
      /\ \A i \in 1..n : g[i] = ReplayOp(g[i - 1], ops[i])
      /\ DOMAIN g = 0..n
  BY <1>1, <1>5
<1> HIDE DEF Rec
<1> DEFINE P == {i \in 0..n : g[i] \in Frames}
<1>8. 0 \in P
  BY <1>1, <1>7
<1>9. ASSUME NEW i \in 0..(n - 1), i \in P PROVE i + 1 \in P
  <2>1. i + 1 \in 1..n /\ i + 1 \in 0..n /\ (i + 1) - 1 = i
    BY <1>1
  <2>2. g[i + 1] = ReplayOp(g[i], ops[i + 1])
    BY <1>7, <2>1
  <2>3. g[i + 1] \in Frames
    BY <1>1, <1>9, <2>1, <2>2, ReplayOpDoes
  <2> QED BY <2>1, <2>3
<1>10. \A i \in 0..n : i \in P
  <2> HIDE DEF P
  <2> QED BY <1>1, <1>8, <1>9, InductionUpTo
<1>11. g \in [0..n -> Frames]
  <2>1. g = [i \in 0..n |-> g[i]]
    BY <1>5 DEF Rec
  <2> QED BY <1>10, <2>1
<1>12. Replays(g, f, ops)
  BY <1>7, <1>11 DEF Replays, n
<1> QED BY <1>6, <1>12 DEF n

LEMMA ReplayDomain ==
  ASSUME NEW f \in Frames, NEW ops \in Seq(Ops), NEW g, Replays(g, f, ops)
  PROVE  \A i \in 0..Len(ops) : DOMAIN g[i] = DOMAIN f
<1> DEFINE n == Len(ops)
           P == {i \in 0..n : DOMAIN g[i] = DOMAIN f}
<1>1. n \in Nat /\ \A i \in 1..n : ops[i] \in Ops
  OBVIOUS
<1>2. /\ g \in [0..n -> Frames] /\ g[0] = f
      /\ \A i \in 1..n : g[i] = ReplayOp(g[i - 1], ops[i])
  BY DEF Replays
<1> HIDE DEF n
<1>3. 0 \in P
  BY <1>1, <1>2
<1>4. ASSUME NEW i \in 0..(n - 1), i \in P PROVE i + 1 \in P
  <2>1. i + 1 \in 1..n /\ i + 1 \in 0..n /\ (i + 1) - 1 = i /\ i \in 0..n
    BY <1>1
  <2>2. g[i + 1] = ReplayOp(g[i], ops[i + 1]) /\ g[i] \in Frames /\ ops[i + 1] \in Ops
    BY <1>1, <1>2, <2>1
  <2>3. DOMAIN g[i + 1] = DOMAIN f
    BY <1>4, <2>2, ReplayOpDoes
  <2> QED BY <2>1, <2>3
<1>5. \A i \in 0..n : i \in P
  <2> HIDE DEF P
  <2> QED BY <1>1, <1>3, <1>4, InductionUpTo
<1> QED BY <1>5 DEF n

(* A column keeps its value where no operation sets it. *)
LEMMA ReplayKeeps ==
  ASSUME NEW f \in Frames, NEW ops \in Seq(Ops), NEW g, Replays(g, f, ops),
         NEW k \in 0..Len(ops), NEW c \in DOMAIN f,
         \A i \in (k + 1)..Len(ops) : ~SetsColumn(ops[i], c)
  PROVE  g[Len(ops)][c] = g[k][c]
<1> DEFINE n == Len(ops)
<1>1. n \in Nat /\ k \in 0..n /\ \A i \in 1..n : ops[i] \in Ops
  OBVIOUS
<1>2. /\ g \in [0..n -> Frames] /\ g[0] = f
      /\ \A i \in 1..n : g[i] = ReplayOp(g[i - 1], ops[i])
      /\ \A i \in (k + 1)..n : ~SetsColumn(ops[i], c)
  BY DEF Replays
<1> HIDE DEF n
<1> DEFINE P == {i \in 0..n : i >= k => g[i][c] = g[k][c]}
<1>3. 0 \in P
  BY <1>1, <1>2
<1>4. ASSUME NEW i \in 0..(n - 1), i \in P PROVE i + 1 \in P
  <2>1. i + 1 \in 1..n /\ i + 1 \in 0..n /\ (i + 1) - 1 = i
    BY <1>1
  <2>2. g[i + 1] = ReplayOp(g[i], ops[i + 1]) /\ g[i] \in Frames /\ ops[i + 1] \in Ops
    BY <1>1, <1>2, <2>1
  <2>3. DOMAIN g[i] = DOMAIN f
    BY <1>1, ReplayDomain DEF n
  <2>4. ASSUME i + 1 >= k PROVE g[i + 1][c] = g[k][c]
    <3>1. CASE i + 1 = k
      BY <3>1
    <3>2. CASE i >= k
      <4>1. ~SetsColumn(ops[i + 1], c)
        BY <1>1, <1>2, <2>1, <3>2
      <4>2. g[i + 1][c] = g[i][c]
        BY <2>2, <2>3, <4>1, ReplayOpDoes
      <4> QED BY <1>4, <3>2, <4>2
    <3> QED BY <1>1, <2>4, <3>1, <3>2
  <2> QED BY <2>1, <2>4
<1>5. \A i \in 0..n : i \in P
  <2> HIDE DEF P
  <2> QED BY <1>1, <1>3, <1>4, InductionUpTo
<1>6. n \in P /\ k \in P /\ n >= k
  BY <1>1, <1>5
<1> QED BY <1>6 DEF n

LEMMA ReplaySets ==
  ASSUME NEW f \in Frames, NEW ops \in Seq(Ops)
  PROVE  /\ ReplayOps(f, ops) \in Frames
         /\ DOMAIN ReplayOps(f, ops) = DOMAIN f
         /\ \A c \in DOMAIN f :
              /\ (\A i \in 1..Len(ops) : ~SetsColumn(ops[i], c)) => ReplayOps(f, ops)[c] = f[c]
              /\ \A k \in 1..Len(ops) :
                   SetsColumn(ops[k], c) /\ (\A i \in (k + 1)..Len(ops) : ~SetsColumn(ops[i], c))
                     => ReplayOps(f, ops)[c] = ops[k].value
<1>1. PICK g : Replays(g, f, ops) /\ ReplayOps(f, ops) = g[Len(ops)]
  BY ReplayRuns
<1> DEFINE n == Len(ops)
<1>2. n \in Nat /\ \A i \in 1..n : ops[i] \in Ops
  OBVIOUS
<1>3. /\ g \in [0..n -> Frames] /\ g[0] = f
      /\ \A i \in 1..n : g[i] = ReplayOp(g[i - 1], ops[i])
  BY <1>1 DEF Replays
<1>4. g[n] \in Frames
  <2> HIDE DEF n
  <2> QED BY <1>2, <1>3
<1>5. DOMAIN g[n] = DOMAIN f
  <2>1. n \in 0..n
    BY <1>2
  <2> QED BY <1>1, <2>1, ReplayDomain
<1>6. ASSUME NEW c \in DOMAIN f, \A i \in 1..n : ~SetsColumn(ops[i], c)
      PROVE  g[n][c] = f[c]
  <2>1. 0 \in 0..n /\ 0 + 1 = 1
    BY <1>2
  <2> QED BY <1>1, <1>3, <1>6, <2>1, ReplayKeeps
<1>7. ASSUME NEW c \in DOMAIN f, NEW k \in 1..n, SetsColumn(ops[k], c),
             \A i \in (k + 1)..n : ~SetsColumn(ops[i], c)
      PROVE  g[n][c] = ops[k].value
  <2>1. k \in 0..n /\ k - 1 \in 0..n
    BY <1>2
  <2>2. g[n][c] = g[k][c] /\ DOMAIN g[k] = DOMAIN f
    BY <1>1, <1>7, <2>1, ReplayKeeps, ReplayDomain
  <2>3. g[k] = ReplayOp(g[k - 1], ops[k]) /\ g[k - 1] \in Frames /\ ops[k] \in Ops
    BY <1>2, <1>3, <2>1
  <2>4. c \in DOMAIN g[k - 1]
    BY <2>2, <2>3, ReplayOpDoes
  <2>5. ReplayOp(g[k - 1], ops[k])[c] =
          IF SetsColumn(ops[k], c) THEN ops[k].value ELSE g[k - 1][c]
    BY <2>3, <2>4, ReplayOpDoes
  <2>6. g[k][c] = ops[k].value
    BY <1>7, <2>3, <2>5
  <2> QED BY <2>2, <2>6
<1> QED BY <1>1, <1>4, <1>5, <1>6, <1>7

(***************************************************************************)
(* Restoring a checkpoint.                                                 *)
(***************************************************************************)

Refs == Labels \cup {NoParent}
Results == Frames \cup {KeyError}

LEMMA EntryIs ==
  ASSUME NEW cps \in Seq(CheckpointEntries), NEW c \in Ids(cps)
  PROVE  /\ EntryOf(cps, c) \in CheckpointEntries /\ EntryOf(cps, c).id = c
         /\ \E i \in DOMAIN cps : EntryOf(cps, c) = cps[i]
         /\ c \in Labels
<1>1. PICK i \in DOMAIN cps : cps[i].id = c
  BY DEF Ids
<1>2. /\ (CHOOSE j \in DOMAIN cps : cps[j].id = c) \in DOMAIN cps
      /\ cps[CHOOSE j \in DOMAIN cps : cps[j].id = c].id = c
  BY <1>1
<1>3. \A j \in DOMAIN cps : cps[j] \in CheckpointEntries
  OBVIOUS
<1>4. EntryOf(cps, c) \in CheckpointEntries /\ EntryOf(cps, c).id = c
  BY <1>2, <1>3 DEF EntryOf
<1> QED BY <1>2, <1>4 DEF EntryOf, CheckpointEntries

(* What an entry restores to, given what its parent does. *)
Restored(e, base) ==
  IF e.kind = "full" THEN e.snapshot_df
  ELSE IF base = KeyError THEN KeyError ELSE ReplayOps(base, e.ops)

LEMMA RestoredTyped ==
  ASSUME NEW e \in CheckpointEntries, NEW base \in Results
  PROVE  Restored(e, base) \in Results /\ e.parent \in Refs
<1>1. e.snapshot_df \in Frames /\ e.ops \in Seq(Ops) /\ e.parent \in Refs
  BY DEF CheckpointEntries, Refs
<1> QED BY <1>1, ReplaySets DEF Restored, Results

(* The snapshots are what their recursion says, and a frame or KeyError. *)
SnapshotsAre(at, cps) ==
  \A V \in SUBSET Labels : \A c \in Refs :
    /\ at[V][c] \in Results
    /\ at[V][c] = IF c \in V \/ c \notin Ids(cps) THEN KeyError
                  ELSE Restored(EntryOf(cps, c), at[V \cup {c}][EntryOf(cps, c).parent])

LEMMA FewerToVisit ==
  ASSUME NEW V \in SUBSET Labels, NEW c \in Labels, c \notin V
  PROVE  /\ V \cup {c} \in SUBSET Labels
         /\ Cardinality(Labels) \in Nat
         /\ Cardinality(Labels \ V) \in 0..Cardinality(Labels)
         /\ Cardinality(Labels \ (V \cup {c})) \in 0..Cardinality(Labels)
         /\ Cardinality(Labels \ (V \cup {c})) = Cardinality(Labels \ V) - 1
<1>1. IsFiniteSet(Labels \ V)
  BY LabelsAreFinite, FS_Subset
<1>2. Labels \ (V \cup {c}) = (Labels \ V) \ {c} /\ c \in Labels \ V
  OBVIOUS
<1>3. Cardinality((Labels \ V) \ {c}) = Cardinality(Labels \ V) - 1
  BY <1>1, <1>2, FS_RemoveElement
<1>4. Cardinality(Labels) \in Nat /\ \A S \in SUBSET Labels : Cardinality(S) \in 0..Cardinality(Labels)
  BY LabelsAreFinite, FS_Subset, FS_CardinalityType
<1> QED BY <1>2, <1>3, <1>4

(* What holds of a set of visited labels if it does of every larger one, holds
   of all: the induction on the labels left to visit. *)
LeadsBack(G) ==
  \A V \in SUBSET Labels : (\A c \in Labels \ V : V \cup {c} \in G) => V \in G

LEMMA VisitInduction ==
  ASSUME NEW G \in SUBSET SUBSET Labels, LeadsBack(G)
  PROVE  \A V \in SUBSET Labels : V \in G
<1> DEFINE n == Cardinality(Labels)
           P == {k \in 0..n : \A V \in SUBSET Labels : Cardinality(Labels \ V) <= k => V \in G}
<1>1. n \in Nat /\ \A V \in SUBSET Labels : Cardinality(Labels \ V) \in 0..n
  BY LabelsAreFinite, FS_Subset, FS_CardinalityType
<1>2. ASSUME NEW V \in SUBSET Labels, NEW c \in Labels \ V
      PROVE  /\ V \cup {c} \in SUBSET Labels
             /\ Cardinality(Labels \ (V \cup {c})) = Cardinality(Labels \ V) - 1
  BY FewerToVisit
<1> HIDE DEF n
<1>3. 0 \in P
  <2>1. ASSUME NEW V \in SUBSET Labels, Cardinality(Labels \ V) <= 0 PROVE V \in G
    <3>1. ASSUME NEW c \in Labels \ V PROVE FALSE
      <4>1. /\ V \cup {c} \in SUBSET Labels
            /\ Cardinality(Labels \ (V \cup {c})) = Cardinality(Labels \ V) - 1
        BY <1>2
      <4>2. Cardinality(Labels \ (V \cup {c})) \in 0..n /\ Cardinality(Labels \ V) \in 0..n
        BY <1>1, <4>1
      <4> QED BY <1>1, <2>1, <4>1, <4>2
    <3> QED BY <3>1 DEF LeadsBack
  <2> QED BY <1>1, <2>1
<1>4. ASSUME NEW k \in 0..(n - 1), k \in P PROVE k + 1 \in P
  <2>1. ASSUME NEW V \in SUBSET Labels, Cardinality(Labels \ V) <= k + 1 PROVE V \in G
    <3>1. ASSUME NEW c \in Labels \ V PROVE V \cup {c} \in G
      <4>1. /\ V \cup {c} \in SUBSET Labels
            /\ Cardinality(Labels \ (V \cup {c})) = Cardinality(Labels \ V) - 1
        BY <1>2
      <4>2. Cardinality(Labels \ V) \in Int
        BY <1>1
      <4>3. Cardinality(Labels \ (V \cup {c})) <= k
        BY <1>1, <2>1, <4>1, <4>2
      <4> QED BY <1>4, <4>1, <4>3
    <3> QED BY <3>1 DEF LeadsBack
  <2>2. k + 1 \in 0..n
    BY <1>1
  <2> QED BY <2>1, <2>2
<1>5. n \in P
  <2> HIDE DEF P
  <2>1. \A k \in 0..n : k \in P
    BY <1>1, <1>3, <1>4, InductionUpTo
  <2> QED BY <1>1, <2>1
<1>6. ASSUME NEW V \in SUBSET Labels PROVE V \in G
  <2>1. Cardinality(Labels \ V) \in 0..n
    BY <1>1
  <2>2. Cardinality(Labels \ V) <= n
    BY <1>1, <2>1
  <2> QED BY <1>5, <2>2
<1> QED BY <1>6

LEMMA SnapshotsRecur ==
  ASSUME NEW cps \in Seq(CheckpointEntries)
  PROVE  SnapshotsAre(SnapshotsOf(cps), cps)
<1> DEFINE D == SUBSET Labels
           W == [Refs -> Results]
           Step(at, V, c) == IF c \in V \/ c \notin Ids(cps) THEN KeyError
                             ELSE Restored(EntryOf(cps, c), at[V \cup {c}][EntryOf(cps, c).parent])
           F == [at \in [D -> W] |-> [V \in D |-> [c \in Refs |-> Step(at, V, c)]]]
           n == Cardinality(Labels)
           r == [V \in D |-> Cardinality(Labels \ V)]
<1>1. n \in Nat /\ r \in [D -> 0..n]
  BY LabelsAreFinite, FS_Subset, FS_CardinalityType
<1>2. ASSUME NEW c \in Ids(cps)
      PROVE  c \in Labels /\ EntryOf(cps, c) \in CheckpointEntries /\ EntryOf(cps, c).parent \in Refs
  <2>1. EntryOf(cps, c) \in CheckpointEntries
    BY EntryIs
  <2> QED BY <2>1, EntryIs DEF CheckpointEntries, Refs
<1>3. ASSUME NEW V \in D, NEW c \in Refs, NEW at, c \in Ids(cps) /\ c \notin V =>
                                at[V \cup {c}][EntryOf(cps, c).parent] \in Results
      PROVE  Step(at, V, c) \in Results
  BY <1>2, <1>3, RestoredTyped DEF Results
<1>4. F \in [[D -> W] -> [D -> W]]
  <2>1. ASSUME NEW at \in [D -> W], NEW V \in D, NEW c \in Refs PROVE Step(at, V, c) \in Results
    <3>1. ASSUME c \in Ids(cps), c \notin V
          PROVE  at[V \cup {c}][EntryOf(cps, c).parent] \in Results
      <4>1. V \cup {c} \in D /\ EntryOf(cps, c).parent \in Refs
        BY <1>2, <3>1
      <4>2. at[V \cup {c}] \in W
        BY <4>1
      <4> QED BY <4>1, <4>2
    <3> QED BY <1>3, <3>1
  <2> HIDE DEF Step, D
  <2> QED BY <2>1
<1>5. CallsLess(F, D, W, r)
  <2>1. SUFFICES ASSUME NEW g \in [D -> W], NEW h \in [D -> W], NEW V \in D,
                        \A y \in D : r[y] < r[V] => g[y] = h[y]
                 PROVE  F[g][V] = F[h][V]
    BY DEF CallsLess
  <2>2. ASSUME NEW c \in Refs PROVE Step(g, V, c) = Step(h, V, c)
    <3>1. CASE c \in Ids(cps) /\ c \notin V
      <4>1. c \in Labels
        BY <1>2, <3>1
      <4>2. V \cup {c} \in D /\ r[V \cup {c}] < r[V]
        <5>1. /\ V \cup {c} \in D /\ Cardinality(Labels \ V) \in 0..n /\ n \in Nat
              /\ Cardinality(Labels \ (V \cup {c})) = Cardinality(Labels \ V) - 1
          BY <3>1, <4>1, FewerToVisit
        <5> QED BY <5>1
      <4>3. g[V \cup {c}] = h[V \cup {c}]
        BY <2>1, <4>2
      <4> QED BY <4>3
    <3>2. CASE ~(c \in Ids(cps) /\ c \notin V)
      BY <3>2
    <3> QED BY <3>1, <3>2
  <2> HIDE DEF Step, D, W
  <2> QED BY <2>2
<1>6. HasFixedPoint(F, D, W)
  <2>1. W # {}
    <3>1. [c \in Refs |-> KeyError] \in W
      BY DEF Results
    <3> QED BY <3>1
  <2> HIDE DEF F, D, W, n, r
  <2> QED BY <1>1, <1>4, <1>5, <2>1, RecursionByRank
<1> DEFINE Rec(at) == at = [V \in D |-> [c \in Refs |-> Step(at, V, c)]]
<1>7. \E at : Rec(at)
  <2> HIDE DEF Step, D, W
  <2> QED BY <1>6 DEF HasFixedPoint
<1> DEFINE at == CHOOSE a : Rec(a)
<1>8. Rec(at)
  <2> HIDE DEF Rec
  <2> QED BY <1>7
<1>9. SnapshotsOf(cps) = at
  BY DEF SnapshotsOf, Restored, Refs
<1> HIDE DEF at
<1>10. \A V \in D : \A c \in Refs : at[V][c] = Step(at, V, c)
  <2> HIDE DEF Step, D
  <2> QED BY <1>8
<1> HIDE DEF Rec, F, W
<1> DEFINE G == {V \in D : \A c \in Refs : at[V][c] \in Results}
<1>11. LeadsBack(G)
  <2>1. ASSUME NEW V \in D, \A c \in Labels \ V : V \cup {c} \in G, NEW c \in Refs
        PROVE  Step(at, V, c) \in Results
    <3>1. ASSUME c \in Ids(cps), c \notin V
          PROVE  at[V \cup {c}][EntryOf(cps, c).parent] \in Results
      <4>1. V \cup {c} \in G
        BY <1>2, <2>1, <3>1
      <4> QED BY <1>2, <3>1, <4>1
    <3> QED BY <1>3, <3>1
  <2> HIDE DEF Step
  <2> QED BY <1>10, <2>1 DEF LeadsBack
<1>12. \A V \in D : \A c \in Refs : at[V][c] \in Results
  <2>1. G \in SUBSET SUBSET Labels
    OBVIOUS
  <2> HIDE DEF G
  <2>2. \A V \in SUBSET Labels : V \in G
    BY <1>11, <2>1, VisitInduction
  <2> QED BY <2>2 DEF G
<1>13. ASSUME NEW V \in SUBSET Labels, NEW c \in Refs
       PROVE  /\ at[V][c] \in Results
              /\ at[V][c] = IF c \in V \/ c \notin Ids(cps) THEN KeyError
                            ELSE Restored(EntryOf(cps, c), at[V \cup {c}][EntryOf(cps, c).parent])
  <2>1. V \in D
    OBVIOUS
  <2>2. at[V][c] \in Results /\ at[V][c] = Step(at, V, c)
    BY <1>10, <1>12, <2>1
  <2> QED BY <2>2
<1>14. SnapshotsAre(at, cps)
  BY <1>13 DEF SnapshotsAre
<1> QED BY <1>9, <1>14

(* The snapshot of c, on a chain that has visited V. *)
At(cps, V, c) == SnapshotsOf(cps)[V][c]

LEMMA SnapshotIs ==
  ASSUME NEW cps \in Seq(CheckpointEntries), NEW V \in SUBSET Labels, NEW c \in Refs
  PROVE  /\ At(cps, V, c) \in Results
         /\ c \in V \/ c \notin Ids(cps) => At(cps, V, c) = KeyError
         /\ c \notin V /\ c \in Ids(cps) =>
              At(cps, V, c) = Restored(EntryOf(cps, c), At(cps, V \cup {c}, EntryOf(cps, c).parent))
<1>1. SnapshotsAre(SnapshotsOf(cps), cps)
  BY SnapshotsRecur
<1>2. /\ SnapshotsOf(cps)[V][c] \in Results
      /\ SnapshotsOf(cps)[V][c] =
           IF c \in V \/ c \notin Ids(cps) THEN KeyError
           ELSE Restored(EntryOf(cps, c), SnapshotsOf(cps)[V \cup {c}][EntryOf(cps, c).parent])
  BY <1>1 DEF SnapshotsAre
<1> QED BY <1>2 DEF At

(* What restoring found on the way to a snapshot. *)
Found(cps, V, c) ==
  /\ c \in Ids(cps) /\ c \in Labels /\ c \notin V /\ V \cup {c} \in SUBSET Labels
  /\ EntryOf(cps, c) \in CheckpointEntries
  /\ EntryOf(cps, c).parent \in Refs
  /\ \/ EntryOf(cps, c).kind = "full" /\ At(cps, V, c) = EntryOf(cps, c).snapshot_df
     \/ /\ EntryOf(cps, c).kind = "delta"
        /\ At(cps, V \cup {c}, EntryOf(cps, c).parent) # KeyError
        /\ At(cps, V, c) = ReplayOps(At(cps, V \cup {c}, EntryOf(cps, c).parent), EntryOf(cps, c).ops)

LEMMA SnapshotFound ==
  ASSUME NEW cps \in Seq(CheckpointEntries), NEW V \in SUBSET Labels, NEW c \in Refs,
         At(cps, V, c) # KeyError
  PROVE  Found(cps, V, c)
<1>1. c \notin V /\ c \in Ids(cps)
  BY SnapshotIs
<1>2. EntryOf(cps, c) \in CheckpointEntries /\ c \in Labels
  BY <1>1, EntryIs
<1>3. EntryOf(cps, c).parent \in Refs /\ EntryOf(cps, c).kind \in {"full", "delta"}
  BY <1>2 DEF CheckpointEntries, Refs
<1>4. At(cps, V, c) = Restored(EntryOf(cps, c), At(cps, V \cup {c}, EntryOf(cps, c).parent))
  BY <1>1, SnapshotIs
<1> QED BY <1>1, <1>2, <1>3, <1>4 DEF Found, Restored

(* A chain that visited less restores the same. *)
LEMMA VisitedLess ==
  ASSUME NEW cps \in Seq(CheckpointEntries)
  PROVE  \A V \in SUBSET Labels : \A U \in SUBSET V, c \in Refs :
           At(cps, V, c) # KeyError => At(cps, U, c) = At(cps, V, c)
<1> DEFINE Same(V) == \A U \in SUBSET V, c \in Refs :
                        At(cps, V, c) # KeyError => At(cps, U, c) = At(cps, V, c)
           G == {V \in SUBSET Labels : Same(V)}
<1>1. LeadsBack(G)
  <2>1. SUFFICES ASSUME NEW V \in SUBSET Labels, \A d \in Labels \ V : V \cup {d} \in G,
                        NEW U \in SUBSET V, NEW c \in Refs, At(cps, V, c) # KeyError
                 PROVE  At(cps, U, c) = At(cps, V, c)
    BY DEF LeadsBack
  <2> DEFINE e == EntryOf(cps, c)
  <2>2. Found(cps, V, c)
    BY <2>1, SnapshotFound
  <2>3. /\ c \notin U /\ U \in SUBSET Labels /\ c \in Ids(cps) /\ c \in Labels
        /\ At(cps, U, c) = Restored(e, At(cps, U \cup {c}, e.parent))
    BY <2>2, SnapshotIs DEF Found
  <2>4. CASE e.kind = "full"
    BY <2>2, <2>3, <2>4 DEF Found, Restored
  <2>5. CASE e.kind # "full"
    <3>1. /\ At(cps, V \cup {c}, e.parent) # KeyError /\ e.parent \in Refs /\ c \notin V
          /\ At(cps, V, c) = ReplayOps(At(cps, V \cup {c}, e.parent), e.ops)
      BY <2>2, <2>5 DEF Found
    <3>2. V \cup {c} \in G /\ U \cup {c} \in SUBSET (V \cup {c})
      BY <2>1, <2>3, <3>1
    <3>3. At(cps, U \cup {c}, e.parent) = At(cps, V \cup {c}, e.parent)
      BY <3>1, <3>2
    <3> QED BY <2>3, <2>5, <3>1, <3>3 DEF Restored
  <2> QED BY <2>4, <2>5
<1>2. G \in SUBSET SUBSET Labels
  OBVIOUS
<1>3. \A V \in SUBSET Labels : V \in G
  <2> HIDE DEF G
  <2> QED BY <1>1, <1>2, VisitInduction
<1> QED BY <1>3

(* A chain that breaks because it has visited c runs into c. *)
LEMMA VisitHits ==
  ASSUME NEW cps \in Seq(CheckpointEntries), NEW c \in Labels
  PROVE  \A V \in SUBSET Labels : \A x \in Refs :
           At(cps, V, x) # KeyError /\ At(cps, V \cup {c}, x) = KeyError =>
             \E W \in SUBSET Labels : V \subseteq W /\ At(cps, W, c) # KeyError /\ (x = c \/ x \in W)
<1> DEFINE Hits(V, x) == \E W \in SUBSET Labels :
                           V \subseteq W /\ At(cps, W, c) # KeyError /\ (x = c \/ x \in W)
           Hit(V) == \A x \in Refs :
                       At(cps, V, x) # KeyError /\ At(cps, V \cup {c}, x) = KeyError => Hits(V, x)
           G == {V \in SUBSET Labels : Hit(V)}
<1>1. LeadsBack(G)
  <2>1. SUFFICES ASSUME NEW V \in SUBSET Labels, \A d \in Labels \ V : V \cup {d} \in G,
                        NEW x \in Refs,
                        At(cps, V, x) # KeyError, At(cps, V \cup {c}, x) = KeyError
                 PROVE  Hits(V, x)
    BY DEF LeadsBack
  <2>2. CASE x = c
    BY <2>1, <2>2
  <2>3. CASE x # c
    <3> DEFINE e == EntryOf(cps, x)
    <3>1. Found(cps, V, x)
      BY <2>1, SnapshotFound
    <3>2. /\ x \notin V \cup {c} /\ V \cup {c} \in SUBSET Labels
          /\ (V \cup {c}) \cup {x} = (V \cup {x}) \cup {c}
      BY <2>3, <3>1 DEF Found
    <3>3. At(cps, V \cup {c}, x) = Restored(e, At(cps, (V \cup {x}) \cup {c}, e.parent))
      <4>1. x \in Ids(cps)
        BY <3>1 DEF Found
      <4>2. At(cps, V \cup {c}, x) = Restored(e, At(cps, (V \cup {c}) \cup {x}, e.parent))
        BY <3>2, <4>1, SnapshotIs
      <4> QED BY <3>2, <4>2
    <3>4. CASE e.kind = "full"
      BY <2>1, <3>1, <3>3, <3>4 DEF Found, Restored
    <3>5. CASE e.kind # "full"
      <4>1. At(cps, V \cup {x}, e.parent) # KeyError /\ e.parent \in Refs /\ V \cup {x} \in SUBSET Labels
        BY <3>1, <3>5 DEF Found
      <4>2. e.ops \in Seq(Ops) /\ At(cps, (V \cup {x}) \cup {c}, e.parent) \in Results
        <5>1. (V \cup {x}) \cup {c} \in SUBSET Labels
          BY <4>1
        <5>2. e.ops \in Seq(Ops)
          BY <3>1 DEF Found, CheckpointEntries
        <5> QED BY <4>1, <5>1, <5>2, SnapshotIs
      <4>3. At(cps, (V \cup {x}) \cup {c}, e.parent) = KeyError
        BY <2>1, <3>3, <3>5, <4>2, ReplaySets, KeyErrorIsNoFrame DEF Restored, Results
      <4>4. V \cup {x} \in G
        BY <2>1, <3>1 DEF Found
      <4>5. Hits(V \cup {x}, e.parent)
        BY <4>1, <4>3, <4>4
      <4> QED BY <4>5
    <3> QED BY <3>4, <3>5
  <2> QED BY <2>2, <2>3
<1>2. G \in SUBSET SUBSET Labels
  OBVIOUS
<1>3. \A V \in SUBSET Labels : V \in G
  <2> HIDE DEF G
  <2> QED BY <1>1, <1>2, VisitInduction
<1> QED BY <1>3

(* So the chain of a parent that can be restored does not run into its child. *)
LEMMA ParentWithoutChild ==
  ASSUME NEW cps \in Seq(CheckpointEntries), NEW c \in Ids(cps),
         EntryOf(cps, c).kind = "delta",
         At(cps, {}, EntryOf(cps, c).parent) # KeyError
  PROVE  At(cps, {c}, EntryOf(cps, c).parent) = At(cps, {}, EntryOf(cps, c).parent)
<1> DEFINE p == EntryOf(cps, c).parent
<1>1. c \in Labels /\ EntryOf(cps, c) \in CheckpointEntries
  BY EntryIs
<1>2. p \in Refs
  BY <1>1 DEF CheckpointEntries, Refs
<1>3. At(cps, {c}, p) # KeyError
  <2>1. SUFFICES ASSUME At(cps, {c}, p) = KeyError PROVE FALSE
    OBVIOUS
  <2>2. {} \in SUBSET Labels /\ {} \cup {c} = {c}
    OBVIOUS
  <2>3. PICK W \in SUBSET Labels : At(cps, W, c) # KeyError /\ (p = c \/ p \in W)
    BY <1>1, <1>2, <2>1, <2>2, VisitHits
  <2>4. Found(cps, W, c)
    BY <1>1, <2>3, SnapshotFound DEF Refs
  <2>5. At(cps, W \cup {c}, p) # KeyError
    BY <2>4 DEF Found
  <2>6. p \notin W \cup {c}
    BY <1>2, <2>4, <2>5, SnapshotIs DEF Found
  <2> QED BY <2>3, <2>6
<1>4. {c} \in SUBSET Labels /\ {} \in SUBSET {c}
  BY <1>1
<1> QED BY <1>2, <1>3, <1>4, VisitedLess

(* c's entry is the one it was, or a full copy of what that restored to. *)
SameEntry(new, cps, c) == EntryOf(new, c) = EntryOf(cps, c)
FullCopy(new, cps, c) ==
  EntryOf(new, c).kind = "full" /\ EntryOf(new, c).snapshot_df = At(cps, {}, c)
StaysWith(cps, c, S) ==
  EntryOf(cps, c).kind = "delta" /\ EntryOf(cps, c).parent \in Ids(cps) => EntryOf(cps, c).parent \in S

(* Checkpoints carried over with their parents, or as full copies, keep their
   snapshots. *)
Carries(new, cps, S) ==
  \A c \in S : \/ SameEntry(new, cps, c) /\ StaysWith(cps, c, S)
               \/ FullCopy(new, cps, c)

LEMMA CarriedKeep ==
  ASSUME NEW cps \in Seq(CheckpointEntries), NEW new \in Seq(CheckpointEntries),
         NEW S \in SUBSET (Ids(cps) \cap Ids(new)), Carries(new, cps, S)
  PROVE  \A V \in SUBSET Labels : \A c \in S :
           At(cps, V, c) # KeyError => At(new, V, c) = At(cps, V, c)
<1> DEFINE Keep(V) == \A c \in S : At(cps, V, c) # KeyError => At(new, V, c) = At(cps, V, c)
           G == {V \in SUBSET Labels : Keep(V)}
<1>1. LeadsBack(G)
  <2>1. SUFFICES ASSUME NEW V \in SUBSET Labels, \A d \in Labels \ V : V \cup {d} \in G,
                        NEW c \in S, At(cps, V, c) # KeyError
                 PROVE  At(new, V, c) = At(cps, V, c)
    BY DEF LeadsBack
  <2> DEFINE e == EntryOf(cps, c)
  <2>2. c \in Labels /\ c \in Refs /\ c \in Ids(cps) /\ c \in Ids(new)
    BY EntryIs DEF Refs
  <2>3. Found(cps, V, c)
    BY <2>1, <2>2, SnapshotFound
  <2>4. At(new, V, c) = Restored(EntryOf(new, c), At(new, V \cup {c}, EntryOf(new, c).parent))
    BY <2>2, <2>3, SnapshotIs DEF Found
  <2>5. CASE FullCopy(new, cps, c)
    <3>1. At(new, V, c) = At(cps, {}, c)
      BY <2>4, <2>5 DEF FullCopy, Restored
    <3>2. At(cps, {}, c) = At(cps, V, c)
      BY <2>1, <2>2, VisitedLess
    <3> QED BY <3>1, <3>2
  <2>6. CASE SameEntry(new, cps, c) /\ StaysWith(cps, c, S)
    <3>1. At(new, V, c) = Restored(e, At(new, V \cup {c}, e.parent))
      BY <2>4, <2>6 DEF SameEntry
    <3>2. CASE e.kind = "full"
      BY <2>3, <3>1, <3>2 DEF Found, Restored
    <3>3. CASE e.kind # "full"
      <4>1. /\ e.kind = "delta" /\ At(cps, V \cup {c}, e.parent) # KeyError /\ e.parent \in Refs
            /\ V \cup {c} \in SUBSET Labels /\ c \notin V
            /\ At(cps, V, c) = ReplayOps(At(cps, V \cup {c}, e.parent), e.ops)
        BY <2>3, <3>3 DEF Found
      <4>2. e.parent \in Ids(cps)
        BY <4>1, SnapshotIs
      <4>3. e.parent \in S
        BY <2>6, <4>1, <4>2 DEF StaysWith
      <4>4. V \cup {c} \in G
        BY <2>1, <2>2, <4>1
      <4>5. At(new, V \cup {c}, e.parent) = At(cps, V \cup {c}, e.parent)
        BY <4>1, <4>3, <4>4
      <4> QED BY <3>1, <3>3, <4>1, <4>5 DEF Restored
    <3> QED BY <3>2, <3>3
  <2>7. FullCopy(new, cps, c) \/ (SameEntry(new, cps, c) /\ StaysWith(cps, c, S))
    BY DEF Carries
  <2> QED BY <2>5, <2>6, <2>7
<1>2. G \in SUBSET SUBSET Labels
  OBVIOUS
<1>3. \A V \in SUBSET Labels : V \in G
  <2> HIDE DEF G
  <2> QED BY <1>1, <1>2, VisitInduction
<1> QED BY <1>3

(* The other way round: a checkpoint of S whose chain stays in S, but for the
   labels visited, restores to what it did before or not at all. *)
ComesFrom(new, cps, S, X) ==
  \A c \in S \cap Ids(new) : c \notin X =>
    /\ c \in Ids(cps)
    /\ \/ SameEntry(new, cps, c) /\ (EntryOf(cps, c).kind = "delta" => EntryOf(cps, c).parent \in S \cup {NoParent})
       \/ FullCopy(new, cps, c)

LEMMA ComesKeep ==
  ASSUME NEW cps \in Seq(CheckpointEntries), NEW new \in Seq(CheckpointEntries),
         NEW S \in SUBSET Labels, NEW X \in SUBSET Labels, ComesFrom(new, cps, S, X)
  PROVE  \A V \in SUBSET Labels : X \subseteq V =>
           \A c \in S : At(new, V, c) \in {KeyError, At(cps, {}, c)}
<1> DEFINE Keep(V) == X \subseteq V => \A c \in S : At(new, V, c) \in {KeyError, At(cps, {}, c)}
           G == {V \in SUBSET Labels : Keep(V)}
<1>1. LeadsBack(G)
  <2>1. SUFFICES ASSUME NEW V \in SUBSET Labels, \A d \in Labels \ V : V \cup {d} \in G,
                        X \subseteq V, NEW c \in S, At(new, V, c) # KeyError
                 PROVE  At(new, V, c) = At(cps, {}, c)
    BY DEF LeadsBack
  <2> DEFINE e == EntryOf(cps, c)
  <2>2. c \in Refs /\ c \in Labels
    BY DEF Refs
  <2>3. Found(new, V, c)
    BY <2>1, <2>2, SnapshotFound
  <2>4. c \in Ids(new) /\ c \notin X /\ c \notin V
    BY <2>1, <2>3 DEF Found
  <2>5. c \in Ids(cps)
    BY <2>4 DEF ComesFrom
  <2>6. CASE FullCopy(new, cps, c)
    BY <2>3, <2>6 DEF FullCopy, Found
  <2>7. CASE SameEntry(new, cps, c) /\ (e.kind = "delta" => e.parent \in S \cup {NoParent})
    <3>1. At(cps, {}, c) = Restored(e, At(cps, {c}, e.parent))
      <4>1. {} \in SUBSET Labels /\ {} \cup {c} = {c}
        OBVIOUS
      <4>2. At(cps, {}, c) = Restored(e, At(cps, {} \cup {c}, e.parent))
        BY <2>2, <2>5, <4>1, SnapshotIs
      <4> QED BY <4>1, <4>2
    <3>2. CASE e.kind = "full"
      BY <2>3, <2>7, <3>1, <3>2 DEF SameEntry, Found, Restored
    <3>3. CASE e.kind # "full"
      <4>1. /\ e.kind = "delta" /\ At(new, V \cup {c}, e.parent) # KeyError /\ e.parent \in Refs
            /\ V \cup {c} \in SUBSET Labels
            /\ At(new, V, c) = ReplayOps(At(new, V \cup {c}, e.parent), e.ops)
        BY <2>3, <2>7, <3>3 DEF Found, SameEntry
      <4>2. e.parent \in Ids(new)
        BY <4>1, SnapshotIs
      <4>3. e.parent \in S
        BY <2>7, <4>1, <4>2, EntryIs, NoParentIsNoLabel
      <4>4. V \cup {c} \in G /\ X \subseteq V \cup {c}
        BY <2>1, <2>2, <2>4
      <4>5. At(new, V \cup {c}, e.parent) = At(cps, {}, e.parent)
        BY <4>1, <4>3, <4>4
      <4>6. At(cps, {c}, e.parent) = At(cps, {}, e.parent)
        BY <2>5, <4>1, <4>5, ParentWithoutChild
      <4> QED BY <3>1, <3>3, <4>1, <4>5, <4>6 DEF Restored
    <3> QED BY <3>2, <3>3
  <2>8. \/ FullCopy(new, cps, c)
        \/ SameEntry(new, cps, c) /\ (e.kind = "delta" => e.parent \in S \cup {NoParent})
    BY <2>4 DEF ComesFrom
  <2> QED BY <2>6, <2>7, <2>8
<1>2. G \in SUBSET SUBSET Labels
  OBVIOUS
<1>3. \A V \in SUBSET Labels : V \in G
  <2> HIDE DEF G
  <2> QED BY <1>1, <1>2, VisitInduction
<1> QED BY <1>3

(***************************************************************************)
(* The list of checkpoints.                                                *)
(***************************************************************************)

Distinct(cps) == \A i, j \in DOMAIN cps : cps[i].id = cps[j].id => i = j
Listed(cps) == cps \in Seq(CheckpointEntries) /\ Distinct(cps)

LEMMA EntryAt ==
  ASSUME NEW cps, Listed(cps), NEW i \in DOMAIN cps
  PROVE  /\ cps[i] \in CheckpointEntries /\ cps[i].id \in Labels
         /\ cps[i].id \in Ids(cps) /\ EntryOf(cps, cps[i].id) = cps[i]
<1>1. cps \in Seq(CheckpointEntries) /\ \A j, k \in DOMAIN cps : cps[j].id = cps[k].id => j = k
  BY DEF Listed, Distinct
<1>2. cps[i] \in CheckpointEntries
  BY <1>1
<1>3. cps[i].id \in Ids(cps)
  BY DEF Ids
<1>4. (CHOOSE j \in DOMAIN cps : cps[j].id = cps[i].id) = i
  BY <1>1
<1> QED BY <1>2, <1>3, <1>4 DEF EntryOf, CheckpointEntries

(* Every delta's parent is listed right before it or later. *)
Close(cps) ==
  \A i, j \in DOMAIN cps :
    cps[i].kind = "delta" /\ cps[j].id = cps[i].parent => j >= i - 1

LEMMA PutDoes ==
  ASSUME NEW cps, Listed(cps), NEW e \in CheckpointEntries
  PROVE  /\ Listed(Put(cps, e))
         /\ Len(Put(cps, e)) \in Len(cps)..(Len(cps) + 1)
         /\ \A i \in DOMAIN Put(cps, e) :
              \/ Put(cps, e)[i] = e
              \/ i \in DOMAIN cps /\ Put(cps, e)[i] = cps[i] /\ cps[i].id # e.id
         /\ Ids(Put(cps, e)) = Ids(cps) \cup {e.id}
<1> DEFINE new == Put(cps, e)
           n == Len(cps)
<1>1. /\ cps \in Seq(CheckpointEntries) /\ n \in Nat /\ DOMAIN cps = 1..n
      /\ \A i \in 1..n : cps[i] \in CheckpointEntries
      /\ \A j, k \in DOMAIN cps : cps[j].id = cps[k].id => j = k
  BY DEF Listed, Distinct
<1>2. CASE e.id \in Ids(cps)
  <2>1. new = [i \in 1..n |-> IF cps[i].id = e.id THEN e ELSE cps[i]]
    BY <1>1, <1>2 DEF Put
  <2> HIDE DEF new, n
  <2>2. \A i \in 1..n : new[i] \in CheckpointEntries /\ new[i].id = cps[i].id
    BY <1>1, <2>1
  <2>3. new \in Seq(CheckpointEntries) /\ Len(new) = n /\ DOMAIN new = 1..n
    BY <1>1, <2>1, <2>2
  <2>4. Distinct(new)
    BY <1>1, <2>2, <2>3 DEF Distinct
  <2>5. Ids(new) = Ids(cps)
    BY <1>1, <2>2, <2>3 DEF Ids
  <2>6. \A i \in DOMAIN new : new[i] = e \/ (i \in DOMAIN cps /\ new[i] = cps[i] /\ cps[i].id # e.id)
    BY <1>1, <2>1, <2>3
  <2>7. Len(new) \in n..(n + 1)
    BY <1>1, <2>3
  <2> QED BY <1>2, <2>3, <2>4, <2>5, <2>6, <2>7 DEF Listed, n, new
<1>3. CASE e.id \notin Ids(cps)
  <2>1. new = Append(cps, e)
    BY <1>3 DEF Put
  <2>2. \A i \in 1..n : cps[i].id \in Ids(cps)
    BY <1>1 DEF Ids
  <2> HIDE DEF new
  <2>3. /\ new \in Seq(CheckpointEntries) /\ Len(new) = n + 1 /\ DOMAIN new = 1..(n + 1)
        /\ new[n + 1] = e /\ \A i \in 1..n : new[i] = cps[i]
    BY <1>1, <2>1
  <2> HIDE DEF n
  <2>4. \A i \in 1..(n + 1) : i \in 1..n \/ i = n + 1
    BY <1>1
  <2>5. \A i \in 1..n : cps[i].id # e.id
    BY <1>3, <2>2
  <2>6. Distinct(new)
    BY <1>1, <2>3, <2>4, <2>5 DEF Distinct
  <2>7. Ids(new) = Ids(cps) \cup {e.id}
    <3>1. \A x \in Ids(new) : x \in Ids(cps) \cup {e.id}
      BY <1>1, <2>3, <2>4 DEF Ids
    <3>2. \A i \in 1..n : i \in 1..(n + 1)
      BY <1>1
    <3>3. \A x \in Ids(cps) : x \in Ids(new)
      BY <1>1, <2>3, <3>2 DEF Ids
    <3>4. e.id \in Ids(new)
      BY <1>1, <2>3 DEF Ids
    <3> QED BY <3>1, <3>3, <3>4
  <2>8. \A i \in DOMAIN new : new[i] = e \/ (i \in DOMAIN cps /\ new[i] = cps[i] /\ cps[i].id # e.id)
    BY <1>1, <2>3, <2>4, <2>5
  <2>9. Len(new) \in n..(n + 1)
    BY <1>1, <2>3
  <2> QED BY <2>3, <2>6, <2>7, <2>8, <2>9 DEF Listed, new, n
<1> QED BY <1>2, <1>3

LEMMA PutEntries ==
  ASSUME NEW cps, Listed(cps), NEW e \in CheckpointEntries
  PROVE  /\ EntryOf(Put(cps, e), e.id) = e
         /\ \A c \in Ids(cps) : c # e.id => EntryOf(Put(cps, e), c) = EntryOf(cps, c)
<1> DEFINE new == Put(cps, e)
<1>1. /\ Listed(new) /\ Ids(new) = Ids(cps) \cup {e.id}
      /\ \A i \in DOMAIN new : new[i] = e \/ (i \in DOMAIN cps /\ new[i] = cps[i] /\ cps[i].id # e.id)
  BY PutDoes
<1> HIDE DEF new
<1>2. ASSUME NEW c \in Ids(new)
      PROVE  \E i \in DOMAIN new : new[i].id = c /\ EntryOf(new, c) = new[i]
  <2>1. PICK i \in DOMAIN new : new[i].id = c
    BY DEF Ids
  <2> QED BY <1>1, <2>1, EntryAt
<1>3. EntryOf(new, e.id) = e
  BY <1>1, <1>2
<1>4. ASSUME NEW c \in Ids(cps), c # e.id PROVE EntryOf(new, c) = EntryOf(cps, c)
  <2>1. PICK i \in DOMAIN new : new[i].id = c /\ EntryOf(new, c) = new[i]
    BY <1>1, <1>2
  <2>2. i \in DOMAIN cps /\ new[i] = cps[i]
    BY <1>1, <1>4, <2>1
  <2> QED BY <2>1, <2>2, EntryAt
<1> QED BY <1>3, <1>4 DEF new

(* A rebased entry is its checkpoint's, or the full copy that restores to. *)
LEMMA RebaseDoes ==
  ASSUME NEW cps, Listed(cps), NEW i \in DOMAIN cps
  PROVE  LET r == Rebase(cps, i) IN
         /\ r \in CheckpointEntries
         /\ r.id = cps[i].id /\ r.lsn = cps[i].lsn /\ r.auto = cps[i].auto
         /\ \/ r = cps[i] /\ (At(cps, {}, cps[i].id) # KeyError => r.kind = "full")
            \/ r.kind = "full" /\ r.snapshot_df = At(cps, {}, cps[i].id)
<1> DEFINE e == cps[i]
           s == At(cps, {}, e.id)
<1>1. e \in CheckpointEntries /\ e.id \in Labels
  BY EntryAt
<1>2. s = SnapshotOf(cps, e.id)
  BY DEF SnapshotOf, At
<1>3. s \in Results
  BY <1>1, SnapshotIs DEF Listed, Refs
<1>4. e = [id |-> e.id, lsn |-> e.lsn, kind |-> e.kind, snapshot_df |-> e.snapshot_df,
           parent |-> e.parent, ops |-> e.ops, auto |-> e.auto]
  BY <1>1 DEF CheckpointEntries
<1>5. CASE e.kind = "full" \/ s = KeyError
  <2>1. Rebase(cps, i) = e
    BY <1>2, <1>5 DEF Rebase
  <2> HIDE DEF e, s
  <2> QED BY <1>1, <1>5, <2>1 DEF e, s
<1>6. CASE ~(e.kind = "full" \/ s = KeyError)
  <2>1. Rebase(cps, i) = [e EXCEPT !.kind = "full", !.snapshot_df = s, !.parent = NoParent, !.ops = <<>>]
    BY <1>2, <1>6 DEF Rebase
  <2> HIDE DEF e, s
  <2> DEFINE r == [id |-> e.id, lsn |-> e.lsn, kind |-> "full", snapshot_df |-> s,
                   parent |-> NoParent, ops |-> <<>>, auto |-> e.auto]
  <2>2. Rebase(cps, i) = r
    BY <1>4, <2>1
  <2>3. /\ e.id \in Labels /\ e.lsn \in 0..MaxLsn /\ s \in Frames /\ e.auto \in BOOLEAN
        /\ <<>> \in Seq(Ops)
    BY <1>1, <1>3, <1>6 DEF CheckpointEntries, Results
  <2>4. r \in CheckpointEntries
    BY <2>3 DEF CheckpointEntries
  <2>5. r.id = e.id /\ r.lsn = e.lsn /\ r.auto = e.auto /\ r.kind = "full" /\ r.snapshot_df = s
    OBVIOUS
  <2> HIDE DEF r
  <2> QED BY <2>2, <2>4, <2>5 DEF e, s
<1> QED BY <1>5, <1>6

(* new lists the checkpoints of cps at the places K, those at R rebased. *)
PrunesTo(new, cps, K, R, s) ==
  /\ K \in SUBSET DOMAIN cps /\ R \in SUBSET K
  /\ Lists(s, K) /\ Cardinality(K) \in Nat
  /\ new = [k \in 1..Cardinality(K) |-> IF s[k] \in R THEN Rebase(cps, s[k]) ELSE cps[s[k]]]

LEMMA PrunesToTyped ==
  ASSUME NEW cps, Listed(cps), NEW new, NEW K, NEW R, NEW s, PrunesTo(new, cps, K, R, s)
  PROVE  /\ Listed(new) /\ DOMAIN new = 1..Cardinality(K) /\ s \in [DOMAIN new -> K]
         /\ \A k \in DOMAIN new :
              /\ new[k] = IF s[k] \in R THEN Rebase(cps, s[k]) ELSE cps[s[k]]
              /\ new[k].id = cps[s[k]].id /\ new[k].lsn = cps[s[k]].lsn
              /\ new[k].auto = cps[s[k]].auto
         /\ \A i \in K : \E k \in DOMAIN new : s[k] = i
         /\ \A j, k \in DOMAIN new : j < k => s[j] < s[k]
<1> DEFINE n == Cardinality(K)
<1>1. /\ K \in SUBSET DOMAIN cps /\ R \in SUBSET K /\ n \in Nat
      /\ s \in [1..n -> K] /\ Range(s) = K /\ \A j, k \in 1..n : j < k => s[j] < s[k]
      /\ new = [k \in 1..n |-> IF s[k] \in R THEN Rebase(cps, s[k]) ELSE cps[s[k]]]
  BY DEF PrunesTo, Lists
<1> HIDE DEF n
<1>2. DOMAIN new = 1..n
  BY <1>1
<1>3. \A k \in 1..n : new[k] = IF s[k] \in R THEN Rebase(cps, s[k]) ELSE cps[s[k]]
  BY <1>1
<1>4. ASSUME NEW k \in 1..n
      PROVE  /\ new[k] \in CheckpointEntries
             /\ new[k].id = cps[s[k]].id /\ new[k].lsn = cps[s[k]].lsn
             /\ new[k].auto = cps[s[k]].auto
  <2>1. s[k] \in DOMAIN cps
    BY <1>1
  <2>2. CASE s[k] \in R
    BY <1>3, <2>1, <2>2, RebaseDoes
  <2>3. CASE s[k] \notin R
    BY <1>3, <2>1, <2>3, EntryAt
  <2> QED BY <2>2, <2>3
<1>5. new \in Seq(CheckpointEntries)
  <2>1. new = [k \in 1..n |-> new[k]]
    BY <1>1
  <2>2. new \in [1..n -> CheckpointEntries]
    BY <1>4, <2>1
  <2> QED BY <1>1, <2>2
<1>6. Distinct(new)
  <2>1. SUFFICES ASSUME NEW j \in 1..n, NEW k \in 1..n, new[j].id = new[k].id PROVE j = k
    BY <1>2 DEF Distinct
  <2>2. s[j] \in DOMAIN cps /\ s[k] \in DOMAIN cps /\ cps[s[j]].id = cps[s[k]].id
    BY <1>1, <1>4, <2>1
  <2>3. s[j] = s[k]
    BY <2>2 DEF Listed, Distinct
  <2>4. s[j] \in Int /\ s[k] \in Int
    BY <2>2 DEF Listed
  <2>5. ~(s[j] < s[k]) /\ ~(s[k] < s[j])
    BY <2>3, <2>4
  <2> QED BY <1>1, <2>5
<1>7. \A i \in K : \E k \in 1..n : s[k] = i
  BY <1>1 DEF Range
<1> QED BY <1>1, <1>2, <1>3, <1>4, <1>5, <1>6, <1>7 DEF Listed, n

LEMMA PrunesToEntries ==
  ASSUME NEW cps, Listed(cps), NEW new, NEW K, NEW R, NEW s, PrunesTo(new, cps, K, R, s)
  PROVE  /\ Ids(new) = {cps[i].id : i \in K} /\ Ids(new) \in SUBSET Ids(cps)
         /\ \A i \in K : EntryOf(new, cps[i].id) = IF i \in R THEN Rebase(cps, i) ELSE cps[i]
<1>1. /\ Listed(new) /\ s \in [DOMAIN new -> K]
      /\ \A k \in DOMAIN new :
           /\ new[k] = IF s[k] \in R THEN Rebase(cps, s[k]) ELSE cps[s[k]]
           /\ new[k].id = cps[s[k]].id
      /\ \A i \in K : \E k \in DOMAIN new : s[k] = i
  BY PrunesToTyped
<1>2. K \in SUBSET DOMAIN cps
  BY DEF PrunesTo
<1>3. Ids(new) = {cps[i].id : i \in K}
  <2>1. \A x \in Ids(new) : x \in {cps[i].id : i \in K}
    BY <1>1 DEF Ids
  <2>2. ASSUME NEW i \in K PROVE cps[i].id \in Ids(new)
    <3>1. PICK k \in DOMAIN new : s[k] = i
      BY <1>1
    <3>2. new[k].id = cps[i].id
      BY <1>1, <3>1
    <3> QED BY <3>2 DEF Ids
  <2> QED BY <2>1, <2>2
<1>4. Ids(new) \in SUBSET Ids(cps)
  BY <1>2, <1>3 DEF Ids
<1>5. ASSUME NEW i \in K PROVE EntryOf(new, cps[i].id) = IF i \in R THEN Rebase(cps, i) ELSE cps[i]
  <2>1. PICK k \in DOMAIN new : s[k] = i
    BY <1>1
  <2>2. EntryOf(new, new[k].id) = new[k]
    BY <1>1, EntryAt
  <2> QED BY <1>1, <2>1, <2>2
<1> QED BY <1>3, <1>4, <1>5

LEMMA PrunesToClose ==
  ASSUME NEW cps, Listed(cps), Close(cps),
         NEW new, NEW K, NEW R, NEW s, PrunesTo(new, cps, K, R, s)
  PROVE  Close(new)
<1> DEFINE n == Cardinality(K)
<1>1. /\ DOMAIN new = 1..n /\ s \in [1..n -> K] /\ n \in Nat /\ K \in SUBSET Int
      /\ K \in SUBSET DOMAIN cps
      /\ \A k \in 1..n : /\ new[k] = IF s[k] \in R THEN Rebase(cps, s[k]) ELSE cps[s[k]]
                         /\ new[k].id = cps[s[k]].id
      /\ \A j, k \in 1..n : j < k => s[j] < s[k]
  <2>1. K \in SUBSET DOMAIN cps /\ n \in Nat
    BY DEF PrunesTo
  <2>2. DOMAIN cps \in SUBSET Int
    BY DEF Listed
  <2>3. /\ DOMAIN new = 1..n /\ s \in [DOMAIN new -> K]
        /\ \A k \in DOMAIN new :
             /\ new[k] = IF s[k] \in R THEN Rebase(cps, s[k]) ELSE cps[s[k]]
             /\ new[k].id = cps[s[k]].id
        /\ \A j, k \in DOMAIN new : j < k => s[j] < s[k]
    BY PrunesToTyped
  <2> QED BY <2>1, <2>2, <2>3
<1> HIDE DEF n
<1>2. SUFFICES ASSUME NEW i \in 1..n, NEW j \in 1..n, new[i].kind = "delta",
                      new[j].id = new[i].parent, j < i - 1
               PROVE  FALSE
  BY <1>1 DEF Close
<1>3. s[i] \in DOMAIN cps /\ s[j] \in DOMAIN cps /\ s[i] \in Int /\ s[j] \in Int
  BY <1>1
<1>4. new[i] = cps[s[i]]
  <2>1. CASE s[i] \in R
    BY <1>1, <1>2, <1>3, <2>1, RebaseDoes
  <2>2. CASE s[i] \notin R
    BY <1>1, <2>2
  <2> QED BY <2>1, <2>2
<1>5. s[j] >= s[i] - 1
  BY <1>1, <1>2, <1>3, <1>4 DEF Close
<1>6. j + 1 \in 1..n /\ j < j + 1 /\ j + 1 < i
  BY <1>1, <1>2
<1>7. s[j + 1] \in Int
  BY <1>1, <1>6
<1>8. s[j] < s[j + 1]
  BY <1>1, <1>6
<1>9. s[j + 1] < s[i]
  BY <1>1, <1>6
<1> QED BY <1>3, <1>5, <1>7, <1>8, <1>9

(***************************************************************************)
(* Pruning.                                                                *)
(***************************************************************************)

Cut(cps, keep_last) == Len(cps) - keep_last
NamedUpTo(cps, cut, keep_named) == {i \in 1..cut : keep_named /\ ~cps[i].auto}
KeptOf(cps, cut, keep_named) == NamedUpTo(cps, cut, keep_named) \cup (cut + 1)..Len(cps)

LEMMA PrunedIs ==
  ASSUME NEW cps, Listed(cps), NEW keep_last \in Nat, NEW keep_named, Cut(cps, keep_last) > 0
  PROVE  LET cut == Cut(cps, keep_last)
             K == KeptOf(cps, cut, keep_named)
             R == Rebased(cps, cut, NamedUpTo(cps, cut, keep_named))
         IN  PrunesTo(Pruned(cps, keep_last, keep_named), cps, K, R, Ascending(K))
<1> DEFINE n == Len(cps)
           cut == Cut(cps, keep_last)
           N == NamedUpTo(cps, cut, keep_named)
           K == KeptOf(cps, cut, keep_named)
           R == Rebased(cps, cut, N)
<1>1. n \in Nat /\ DOMAIN cps = 1..n /\ cut \in 1..n
  BY DEF Listed, Cut
<1>2. N \in SUBSET (1..cut) /\ K = N \cup (cut + 1)..n
  BY DEF NamedUpTo, KeptOf
<1>3. K \in SUBSET (1..n) /\ (cut + 1)..n \in SUBSET K
  <2> HIDE DEF n, cut, N, K
  <2>1. \A x \in 1..cut : x \in 1..n
    BY <1>1
  <2>2. \A x \in (cut + 1)..n : x \in 1..n
    BY <1>1
  <2> QED BY <1>2, <2>1, <2>2
<1>4. R \in SUBSET K
  <2>1. \A x \in {cut + 1} \cap 1..n : x \in (cut + 1)..n
    BY <1>1
  <2> HIDE DEF K, N, cut, n
  <2>2. R = IF N # {} THEN N ELSE {cut + 1} \cap 1..n
    BY <1>1 DEF Rebased
  <2> QED BY <1>2, <1>3, <2>1, <2>2
<1>5. /\ Lists(Ascending(K), K) /\ Cardinality(K) \in Nat
      /\ DOMAIN Ascending(K) = 1..Cardinality(K)
  <2> HIDE DEF K, n
  <2> QED BY <1>1, <1>3, AscendingLists
<1>6. Pruned(cps, keep_last, keep_named) =
        [k \in DOMAIN Ascending(K) |->
           IF Ascending(K)[k] \in R THEN Rebase(cps, Ascending(K)[k]) ELSE cps[Ascending(K)[k]]]
  <2>1. ~(cut <= 0)
    BY <1>1
  <2> QED BY <2>1 DEF Pruned, Cut, NamedUpTo, KeptOf
<1> HIDE DEF K, R
<1>7. K \in SUBSET DOMAIN cps
  BY <1>1, <1>3
<1>8. PrunesTo(Pruned(cps, keep_last, keep_named), cps, K, R, Ascending(K))
  BY <1>4, <1>5, <1>6, <1>7 DEF PrunesTo
<1> QED BY <1>8 DEF K, R

(* What is left after a pruning restores to what it did, or not at all. *)
LEMMA PruningComes ==
  ASSUME NEW cps, Listed(cps), NEW new, NEW K, NEW R, NEW s, PrunesTo(new, cps, K, R, s)
  PROVE  \A c \in Ids(new) : At(new, {}, c) \in {KeyError, At(cps, {}, c)}
<1>1. /\ cps \in Seq(CheckpointEntries) /\ new \in Seq(CheckpointEntries)
      /\ K \in SUBSET DOMAIN cps
  <2>1. Listed(new)
    BY PrunesToTyped
  <2>2. K \in SUBSET DOMAIN cps
    BY DEF PrunesTo
  <2> QED BY <2>1, <2>2 DEF Listed
<1>2. ASSUME NEW c \in Ids(new)
      PROVE  /\ c \in Ids(cps) /\ c \in Labels /\ EntryOf(cps, c).parent \in Labels \cup {NoParent}
             /\ SameEntry(new, cps, c) \/ FullCopy(new, cps, c)
  <2>1. PICK i \in K : c = cps[i].id
    BY PrunesToEntries
  <2>2. /\ EntryOf(cps, c) = cps[i] /\ c \in Ids(cps) /\ c \in Labels
        /\ cps[i] \in CheckpointEntries
    BY <1>1, <2>1, EntryAt
  <2>3. EntryOf(new, c) = IF i \in R THEN Rebase(cps, i) ELSE cps[i]
    BY <2>1, PrunesToEntries
  <2>4. EntryOf(cps, c).parent \in Labels \cup {NoParent}
    BY <2>2 DEF CheckpointEntries
  <2>5. CASE i \in R
    <3>1. \/ Rebase(cps, i) = cps[i]
          \/ Rebase(cps, i).kind = "full" /\ Rebase(cps, i).snapshot_df = At(cps, {}, cps[i].id)
      BY <1>1, RebaseDoes
    <3> QED BY <2>1, <2>2, <2>3, <2>4, <2>5, <3>1 DEF SameEntry, FullCopy
  <2>6. CASE i \notin R
    BY <2>2, <2>3, <2>4, <2>6 DEF SameEntry
  <2> QED BY <2>5, <2>6
<1>3. ComesFrom(new, cps, Labels, {})
  BY <1>2 DEF ComesFrom
<1>4. \A c \in Labels : At(new, {}, c) \in {KeyError, At(cps, {}, c)}
  <2>1. {} \in SUBSET Labels /\ Labels \in SUBSET Labels
    OBVIOUS
  <2> QED BY <1>1, <1>3, <2>1, ComesKeep
<1> QED BY <1>2, <1>4

(* Where every checkpoint kept as it is has all from its parent's place on kept
   with it, what is left restores to what it did. *)
TakesParents(cps, K, R) ==
  \A i \in K : i \notin R => \A j \in DOMAIN cps : j >= i - 1 => j \in K

LEMMA PruningKeeps ==
  ASSUME NEW cps, Listed(cps), Close(cps),
         NEW new, NEW K, NEW R, NEW s, PrunesTo(new, cps, K, R, s), TakesParents(cps, K, R)
  PROVE  \A c \in Ids(new) : At(cps, {}, c) # KeyError => At(new, {}, c) = At(cps, {}, c)
<1> DEFINE S == {c \in Ids(new) : At(cps, {}, c) # KeyError}
<1>1. /\ cps \in Seq(CheckpointEntries) /\ new \in Seq(CheckpointEntries)
      /\ K \in SUBSET DOMAIN cps /\ Ids(new) \in SUBSET Ids(cps)
  <2>1. Listed(new) /\ Ids(new) \in SUBSET Ids(cps)
    BY PrunesToTyped, PrunesToEntries
  <2>2. K \in SUBSET DOMAIN cps
    BY DEF PrunesTo
  <2> QED BY <2>1, <2>2 DEF Listed
<1>2. ASSUME NEW c \in S
      PROVE  \/ SameEntry(new, cps, c) /\ StaysWith(cps, c, S)
             \/ FullCopy(new, cps, c)
  <2>1. PICK i \in K : c = cps[i].id
    BY PrunesToEntries
  <2>2. /\ i \in DOMAIN cps /\ EntryOf(cps, c) = cps[i] /\ c \in Ids(cps) /\ c \in Labels
        /\ cps[i] \in CheckpointEntries
    BY <1>1, <2>1, EntryAt
  <2>3. EntryOf(new, c) = IF i \in R THEN Rebase(cps, i) ELSE cps[i]
    BY <2>1, PrunesToEntries
  <2>4. CASE i \in R
    <3>1. \/ Rebase(cps, i) = cps[i] /\ cps[i].kind = "full"
          \/ Rebase(cps, i).kind = "full" /\ Rebase(cps, i).snapshot_df = At(cps, {}, cps[i].id)
      BY <2>1, <2>2, RebaseDoes
    <3> QED BY <2>1, <2>2, <2>3, <2>4, <3>1 DEF SameEntry, FullCopy, StaysWith
  <2>5. CASE i \notin R
    <3>1. SameEntry(new, cps, c)
      BY <2>2, <2>3, <2>5 DEF SameEntry
    <3> DEFINE p == cps[i].parent
    <3>2. ASSUME cps[i].kind = "delta", p \in Ids(cps) PROVE p \in S
      <4>1. PICK j \in DOMAIN cps : cps[j].id = p
        BY <3>2 DEF Ids
      <4>2. j >= i - 1
        BY <2>2, <3>2, <4>1 DEF Close
      <4>3. j \in K
        BY <2>5, <4>2 DEF TakesParents
      <4>4. p \in Ids(new)
        BY <4>1, <4>3, PrunesToEntries
      <4>5. Found(cps, {}, c)
        BY <1>1, <2>2, SnapshotFound DEF Refs
      <4>6. p \in Refs /\ At(cps, {} \cup {c}, p) # KeyError /\ {} \cup {c} \in SUBSET Labels
        BY <2>2, <3>2, <4>5 DEF Found
      <4>7. At(cps, {}, p) # KeyError
        <5>1. {} \in SUBSET ({} \cup {c})
          OBVIOUS
        <5> QED BY <1>1, <4>6, <5>1, VisitedLess
      <4> QED BY <4>4, <4>7
    <3>3. StaysWith(cps, c, S)
      BY <2>2, <3>2 DEF StaysWith
    <3> QED BY <3>1, <3>3
  <2> QED BY <2>4, <2>5
<1>3. Carries(new, cps, S)
  BY <1>2 DEF Carries
<1>4. S \in SUBSET (Ids(cps) \cap Ids(new)) /\ {} \in SUBSET Labels
  BY <1>1
<1>5. \A c \in S : At(cps, {}, c) # KeyError => At(new, {}, c) = At(cps, {}, c)
  <2> HIDE DEF S
  <2> QED BY <1>1, <1>3, <1>4, CarriedKeep
<1> QED BY <1>5

(* Automatic checkpoints, and how many a pruning leaves. *)
AutosAt(cps, K) == {i \in K : cps[i].auto}

LEMMA PruningCounts ==
  ASSUME NEW cps, Listed(cps), NEW new, NEW K, NEW R, NEW s, PrunesTo(new, cps, K, R, s)
  PROVE  Autos(new) <= Cardinality(AutosAt(cps, K))
<1> DEFINE A == AutosAt(new, DOMAIN new)
           B == AutosAt(cps, K)
           f == [k \in A |-> s[k]]
<1>1. /\ s \in [DOMAIN new -> K]
      /\ \A k \in DOMAIN new : new[k].auto = cps[s[k]].auto
      /\ \A j, k \in DOMAIN new : j < k => s[j] < s[k]
      /\ DOMAIN new = 1..Cardinality(K)
  BY PrunesToTyped
<1>2. /\ K \in SUBSET DOMAIN cps /\ Cardinality(K) \in Nat
      /\ Len(cps) \in Nat /\ DOMAIN cps = 1..Len(cps)
  BY DEF PrunesTo, Listed
<1>3. IsFiniteSet(B)
  <2>1. B \in SUBSET (1..Len(cps))
    BY <1>2 DEF AutosAt
  <2> HIDE DEF B
  <2> QED BY <1>2, <2>1, NumbersAreFinite
<1>4. f \in [A -> B]
  BY <1>1 DEF AutosAt
<1>5. ASSUME NEW j \in A, NEW k \in A, f[j] = f[k] PROVE j = k
  <2>1. j \in DOMAIN new /\ k \in DOMAIN new /\ s[j] = s[k]
    BY <1>5 DEF AutosAt
  <2>2. s[j] \in 1..Len(cps) /\ s[k] \in 1..Len(cps)
    BY <1>1, <1>2, <2>1
  <2>3. j \in Int /\ k \in Int
    BY <1>1, <2>1
  <2>4. ~(j < k) /\ ~(k < j)
    BY <1>1, <2>1, <2>2
  <2> QED BY <2>3, <2>4
<1> HIDE DEF A, B
<1>6. f \in Injection(A, B)
  BY <1>4, <1>5 DEF Injection, IsInjective
<1>7. Cardinality(A) <= Cardinality(B)
  <2> HIDE DEF f
  <2> QED BY <1>3, <1>6, FS_Injection
<1> QED BY <1>7 DEF A, B, AutosAt, Autos

(* All that pruning does to the list, whether it cuts anything off or not. *)
LEMMA PrunedDoes ==
  ASSUME NEW cps, Listed(cps), NEW keep_last \in Nat, NEW keep_named
  PROVE  LET new == Pruned(cps, keep_last, keep_named) IN
         /\ Listed(new) /\ Ids(new) \in SUBSET Ids(cps)
         /\ Close(cps) => Close(new)
         /\ \A k \in DOMAIN new : \E i \in DOMAIN cps :
              new[k].id = cps[i].id /\ new[k].lsn = cps[i].lsn
         /\ \A c \in Ids(new) : At(new, {}, c) \in {KeyError, At(cps, {}, c)}
         /\ Autos(new) <= Autos(cps)
         /\ keep_named => Autos(new) <= keep_last
<1> DEFINE new == Pruned(cps, keep_last, keep_named)
           cut == Cut(cps, keep_last)
           n == Len(cps)
<1>1. n \in Nat /\ DOMAIN cps = 1..n /\ cut = n - keep_last
  BY DEF Listed, Cut
<1>2. \A S \in SUBSET (1..n) : Cardinality(AutosAt(cps, S)) <= Autos(cps) /\ IsFiniteSet(S)
  <2>1. SUFFICES ASSUME NEW S \in SUBSET (1..n)
                 PROVE  Cardinality(AutosAt(cps, S)) <= Autos(cps) /\ IsFiniteSet(S)
    OBVIOUS
  <2>2. IsFiniteSet(AutosAt(cps, 1..n)) /\ IsFiniteSet(S)
    <3>1. AutosAt(cps, 1..n) \in SUBSET (1..n)
      BY DEF AutosAt
    <3> QED BY <1>1, <3>1, NumbersAreFinite
  <2>3. AutosAt(cps, S) \in SUBSET AutosAt(cps, 1..n)
    BY DEF AutosAt
  <2>4. Cardinality(AutosAt(cps, S)) <= Cardinality(AutosAt(cps, 1..n))
    BY <2>2, <2>3, FS_Subset
  <2> QED BY <1>1, <2>2, <2>4 DEF AutosAt, Autos
<1>3. CASE cut <= 0
  <2>1. new = cps
    BY <1>3 DEF Pruned, Cut
  <2>2. Autos(cps) \in Nat /\ Autos(cps) <= n
    <3>1. AutosAt(cps, 1..n) \in SUBSET (1..n)
      BY DEF AutosAt
    <3>2. IsFiniteSet(1..n) /\ Cardinality(1..n) = n
      <4>1. 1 \in Int /\ n \in Int
        BY <1>1
      <4>2. Cardinality(1..n) = IF 1 > n THEN 0 ELSE n - 1 + 1
        BY <4>1, FS_Interval
      <4>3. IsFiniteSet(1..n)
        BY <4>1, FS_Interval
      <4> QED BY <1>1, <4>2, <4>3
    <3>3. Cardinality(AutosAt(cps, 1..n)) <= n /\ Cardinality(AutosAt(cps, 1..n)) \in Nat
      BY <3>1, <3>2, FS_Subset, FS_CardinalityType
    <3> QED BY <1>1, <3>3 DEF AutosAt, Autos
  <2>3. Autos(cps) <= Autos(cps) /\ Autos(cps) <= keep_last
    BY <1>1, <1>3, <2>2
  <2>4. \A c \in Ids(cps) : At(cps, {}, c) \in {KeyError, At(cps, {}, c)}
    OBVIOUS
  <2> HIDE DEF new
  <2> QED BY <2>1, <2>3, <2>4 DEF new
<1>4. CASE cut > 0
  <2> DEFINE K == KeptOf(cps, cut, keep_named)
             R == Rebased(cps, cut, NamedUpTo(cps, cut, keep_named))
             s == Ascending(K)
  <2>1. PrunesTo(new, cps, K, R, s)
    BY <1>4, PrunedIs
  <2>2. K \in SUBSET (1..n) /\ K = NamedUpTo(cps, cut, keep_named) \cup (cut + 1)..n
    BY <1>1, <2>1 DEF PrunesTo, KeptOf
  <2> HIDE DEF new, K, R, s
  <2>3. Listed(new) /\ Ids(new) \in SUBSET Ids(cps) /\ (Close(cps) => Close(new))
    BY <2>1, PrunesToTyped, PrunesToEntries, PrunesToClose
  <2>4. \A c \in Ids(new) : At(new, {}, c) \in {KeyError, At(cps, {}, c)}
    BY <2>1, PruningComes
  <2>5. ASSUME NEW k \in DOMAIN new
        PROVE  \E i \in DOMAIN cps : new[k].id = cps[i].id /\ new[k].lsn = cps[i].lsn
    <3>1. s[k] \in K /\ new[k].id = cps[s[k]].id /\ new[k].lsn = cps[s[k]].lsn
      BY <2>1, PrunesToTyped
    <3> QED BY <1>1, <2>2, <3>1
  <2>6. Autos(new) <= Cardinality(AutosAt(cps, K)) /\ Cardinality(AutosAt(cps, K)) <= Autos(cps)
    BY <1>2, <2>1, <2>2, PruningCounts
  <2>7. Autos(new) \in Nat /\ Autos(cps) \in Nat /\ Cardinality(AutosAt(cps, K)) \in Nat
    <3>1. IsFiniteSet(AutosAt(cps, DOMAIN cps)) /\ IsFiniteSet(AutosAt(cps, K))
      <4>1. AutosAt(cps, DOMAIN cps) \in SUBSET (1..n) /\ AutosAt(cps, K) \in SUBSET (1..n)
        BY <1>1, <2>2 DEF AutosAt
      <4> QED BY <1>1, <4>1, NumbersAreFinite
    <3>2. IsFiniteSet(AutosAt(new, DOMAIN new))
      <4>1. AutosAt(new, DOMAIN new) \in SUBSET (1..Len(new)) /\ Len(new) \in Nat
        BY <2>3 DEF AutosAt, Listed
      <4> QED BY <4>1, NumbersAreFinite
    <3> QED BY <3>1, <3>2, FS_CardinalityType DEF Autos, AutosAt
  <2>8. ASSUME keep_named PROVE Autos(new) <= keep_last
    <3>1. AutosAt(cps, K) \in SUBSET ((cut + 1)..n)
      BY <2>2, <2>8 DEF AutosAt, NamedUpTo
    <3>2. IsFiniteSet((cut + 1)..n) /\ Cardinality((cut + 1)..n) = keep_last
      <4>1. cut + 1 \in Int /\ n \in Int
        BY <1>1
      <4>2. Cardinality((cut + 1)..n) = IF cut + 1 > n THEN 0 ELSE n - (cut + 1) + 1
        BY <4>1, FS_Interval
      <4>3. IsFiniteSet((cut + 1)..n)
        BY <4>1, FS_Interval
      <4>4. CASE cut + 1 > n
        BY <1>1, <4>2, <4>3, <4>4
      <4>5. CASE ~(cut + 1 > n)
        BY <1>1, <4>2, <4>3, <4>5
      <4> QED BY <4>4, <4>5
    <3>3. Cardinality(AutosAt(cps, K)) <= keep_last
      BY <3>1, <3>2, FS_Subset
    <3> QED BY <2>6, <2>7, <3>3
  <2>9. Autos(new) <= Autos(cps)
    BY <2>6, <2>7
  <2> QED BY <2>3, <2>4, <2>5, <2>8, <2>9 DEF new
<1>5. cut \in Int
  BY <1>1
<1> QED BY <1>3, <1>4, <1>5

(***************************************************************************)
(* The invariant.                                                          *)
(***************************************************************************)

(* Since entry l, only cells were written. *)
OnlySets(l) == \A k \in CommittedSince(l) : wal[k].op.kind = "set_cell"

Unset(l, c) == \A k \in CommittedSince(l) : ~SetsColumn(wal[k].op, c)

LastSet(l, c, k) ==
  /\ k \in CommittedSince(l) /\ SetsColumn(wal[k].op, c)
  /\ \A m \in CommittedSince(l) : m > k => ~SetsColumn(wal[m].op, c)

(* If so, the frame has the value the log last gave each of its columns, or the
   one it had in t, the frame at entry l. *)
Explained(l, t, c) ==
  \/ Unset(l, c) /\ c \in DOMAIN t /\ t[c] = df[c]
  \/ \E k \in 1..Len(wal) : LastSet(l, c, k) /\ wal[k].op.value = df[c]

FollowsLog(l, t) == OnlySets(l) => \A c \in DOMAIN df : Explained(l, t, c)

(* The log explains the frame from every checkpoint on. *)
LogFollowed ==
  \A i \in DOMAIN checkpoints :
    /\ checkpoints[i].lsn <= Len(wal)
    /\ FollowsLog(checkpoints[i].lsn, taken[checkpoints[i].id])

ParentsClose == Close(checkpoints)

IInv == TypeOK /\ LogFollowed /\ ParentsClose /\ DeltasRestore

(* TypeOK, part by part. *)
LEMMA TypesAre ==
  ASSUME TypeOK
  PROVE  /\ Listed(checkpoints) /\ Autos(checkpoints) <= AutoMax
         /\ wal \in Seq(Entries) /\ Len(wal) \in 0..MaxLsn
         /\ \A k \in 1..Len(wal) : wal[k].op \in Ops /\ wal[k].committed \in BOOLEAN
         /\ df \in Frames /\ taken \in [Ids(checkpoints) -> Frames]
         /\ MaxLsn \in Nat
<1>1. MaxLsn \in Nat
  BY SizesAreNat
<1>2. wal \in Seq(Entries) /\ Len(wal) \in 0..MaxLsn
  BY <1>1 DEF TypeOK
<1>3. \A k \in 1..Len(wal) : wal[k] \in Entries
  BY <1>2
<1>4. \A k \in 1..Len(wal) : wal[k].op \in Ops /\ wal[k].committed \in BOOLEAN
  BY <1>3 DEF Entries
<1>5. Listed(checkpoints) /\ Autos(checkpoints) <= AutoMax
  BY DEF TypeOK, Listed, Distinct, Autos
<1> QED BY <1>1, <1>2, <1>4, <1>5 DEF TypeOK

(***************************************************************************)
(* Taking a checkpoint.                                                    *)
(***************************************************************************)

(* The operations since entry l are those of its committed entries, in order. *)
LEMMA OpsSinceAre ==
  ASSUME TypeOK, NEW l \in Nat
  PROVE  /\ OpsSince(l) \in Seq(Ops)
         /\ \E s : /\ s \in [1..Len(OpsSince(l)) -> CommittedSince(l)]
                   /\ \A i \in 1..Len(OpsSince(l)) : OpsSince(l)[i] = wal[s[i]].op
                   /\ \A k \in CommittedSince(l) : \E i \in 1..Len(OpsSince(l)) : s[i] = k
                   /\ \A i, j \in 1..Len(OpsSince(l)) : i < j => s[i] < s[j]
<1> DEFINE S == CommittedSince(l)
           s == Ascending(S)
           n == Cardinality(S)
           ops == OpsSince(l)
<1>1. Len(wal) \in Nat /\ \A k \in 1..Len(wal) : wal[k].op \in Ops
  BY TypesAre
<1>2. S \in SUBSET (1..Len(wal))
  BY <1>1 DEF CommittedSince
<1>3. /\ n \in Nat /\ s \in [1..n -> S] /\ Range(s) = S /\ DOMAIN s = 1..n
      /\ \A i, j \in 1..n : i < j => s[i] < s[j]
  <2> HIDE DEF S
  <2>1. Lists(Ascending(S), S) /\ Cardinality(S) \in Nat /\ DOMAIN Ascending(S) = 1..Cardinality(S)
    BY <1>1, <1>2, AscendingLists
  <2> QED BY <2>1 DEF Lists
<1>4. ops = [i \in 1..n |-> wal[s[i]].op]
  BY <1>3 DEF OpsSince
<1> HIDE DEF s, n, ops, S
<1>5. ops \in [1..n -> Ops]
  BY <1>1, <1>2, <1>3, <1>4
<1>6. ops \in Seq(Ops) /\ Len(ops) = n
  BY <1>3, <1>5
<1>7. \A k \in S : \E i \in 1..n : s[i] = k
  BY <1>3 DEF Range
<1>8. \A i \in 1..n : ops[i] = wal[s[i]].op
  BY <1>4
<1>9. /\ s \in [1..Len(ops) -> S]
      /\ \A i \in 1..Len(ops) : ops[i] = wal[s[i]].op
      /\ \A k \in S : \E i \in 1..Len(ops) : s[i] = k
      /\ \A i, j \in 1..Len(ops) : i < j => s[i] < s[j]
  BY <1>3, <1>6, <1>7, <1>8
<1> QED BY <1>6, <1>9 DEF ops, S

(* If they only write cells, replaying them on what agrees with the frame at
   entry l gives what agrees with the frame now. *)
LEMMA ReplayAgrees ==
  ASSUME TypeOK, NEW l \in Nat, NEW t \in Frames, OnlySets(l), FollowsLog(l, t),
         NEW base \in Frames, Agree(base, t)
  PROVE  Agree(ReplayOps(base, OpsSince(l)), df)
<1> DEFINE ops == OpsSince(l)
           n == Len(ops)
           g == ReplayOps(base, ops)
<1>1. ops \in Seq(Ops)
  BY OpsSinceAre
<1>2. PICK s : /\ s \in [1..n -> CommittedSince(l)]
               /\ \A i \in 1..n : ops[i] = wal[s[i]].op
               /\ \A k \in CommittedSince(l) : \E i \in 1..n : s[i] = k
               /\ \A i, j \in 1..n : i < j => s[i] < s[j]
  BY OpsSinceAre
<1>3. Len(wal) \in Nat /\ CommittedSince(l) \in SUBSET Int
  BY TypesAre DEF CommittedSince
<1> HIDE DEF ops
<1>4. /\ DOMAIN g = DOMAIN base
      /\ \A c \in DOMAIN base :
           /\ (\A i \in 1..n : ~SetsColumn(ops[i], c)) => g[c] = base[c]
           /\ \A k \in 1..n :
                SetsColumn(ops[k], c) /\ (\A i \in (k + 1)..n : ~SetsColumn(ops[i], c))
                  => g[c] = ops[k].value
  BY <1>1, ReplaySets
<1>5. n \in Nat
  BY <1>1
<1> HIDE DEF g, n
<1>6. SUFFICES ASSUME NEW c \in DOMAIN base, c \in DOMAIN df PROVE g[c] = df[c]
  BY <1>4 DEF Agree, g, ops
<1>7. Explained(l, t, c)
  BY <1>6 DEF FollowsLog
<1>8. CASE Unset(l, c) /\ c \in DOMAIN t /\ t[c] = df[c]
  <2>1. \A i \in 1..n : ~SetsColumn(ops[i], c)
    BY <1>2, <1>8 DEF Unset
  <2>2. g[c] = base[c]
    BY <1>4, <2>1
  <2>3. base[c] = t[c]
    BY <1>8 DEF Agree
  <2> QED BY <1>8, <2>2, <2>3
<1>9. CASE \E k \in 1..Len(wal) : LastSet(l, c, k) /\ wal[k].op.value = df[c]
  <2>1. PICK k \in 1..Len(wal) : LastSet(l, c, k) /\ wal[k].op.value = df[c]
    BY <1>9
  <2>2. k \in CommittedSince(l) /\ SetsColumn(wal[k].op, c)
        /\ \A m \in CommittedSince(l) : m > k => ~SetsColumn(wal[m].op, c)
    BY <2>1 DEF LastSet
  <2>3. PICK i \in 1..n : s[i] = k
    BY <1>2, <2>2
  <2>4. ops[i] = wal[k].op
    BY <1>2, <2>3
  <2>5. ASSUME NEW j \in (i + 1)..n PROVE ~SetsColumn(ops[j], c)
    <3>1. j \in 1..n /\ i < j
      BY <1>5
    <3>2. s[j] \in CommittedSince(l) /\ ops[j] = wal[s[j]].op /\ s[i] < s[j]
      BY <1>2, <3>1
    <3>3. s[j] > k
      BY <1>3, <2>2, <2>3, <3>2
    <3> QED BY <2>2, <3>2, <3>3
  <2>6. g[c] = ops[i].value
    BY <1>4, <2>2, <2>4, <2>5
  <2> QED BY <2>1, <2>4, <2>6
<1> QED BY <1>7, <1>8, <1>9 DEF Explained

(* The entry checkpoint() makes: a full copy, or the operations since the last
   checkpoint, none of which changes the shape. *)
IsFull(e) == e.kind = "full" /\ e.snapshot_df = df
IsDelta(e, last) ==
  /\ e.kind = "delta" /\ e.parent = last.id
  /\ e.ops = OpsSince(last.lsn) /\ Structural \notin Range(e.ops)

LEMMA NewEntryIs ==
  ASSUME TypeOK, NEW id \in Labels, NEW auto \in BOOLEAN
  PROVE  LET e == NewEntry(id, auto)
             n == Len(checkpoints)
         IN  /\ e \in CheckpointEntries /\ e.id = id /\ e.lsn = Len(wal) /\ e.auto = auto
             /\ \/ IsFull(e)
                \/ n \in DOMAIN checkpoints /\ IsDelta(e, checkpoints[n])
<1> DEFINE full == [id |-> id, lsn |-> Len(wal), kind |-> "full", snapshot_df |-> df,
                    parent |-> NoParent, ops |-> <<>>, auto |-> auto]
           last == Last(checkpoints)
           delta == [id |-> id, lsn |-> Len(wal), kind |-> "delta", snapshot_df |-> <<>>,
                     parent |-> last.id, ops |-> OpsSince(last.lsn), auto |-> auto]
           n == Len(checkpoints)
           e == NewEntry(id, auto)
<1>1. Listed(checkpoints) /\ Len(wal) \in 0..MaxLsn /\ df \in Frames
  BY TypesAre
<1>2. full \in CheckpointEntries
  <2>1. <<>> \in Seq(Ops)
    OBVIOUS
  <2> QED BY <1>1, <2>1 DEF CheckpointEntries
<1>3. CASE e = full
  BY <1>2, <1>3 DEF IsFull
<1>4. CASE e # full
  <2>1. /\ checkpoints # <<>> /\ DeltaFits(last.lsn)
        /\ e = [full EXCEPT !.kind = "delta", !.snapshot_df = <<>>,
                            !.parent = HeadCommit, !.ops = OpsSince(last.lsn)]
    BY <1>4 DEF NewEntry
  <2>2. HeadCommit = last.id
    BY <2>1 DEF HeadCommit
  <2> HIDE DEF last
  <2>3. e = delta
    BY <2>1, <2>2
  <2>4. n \in DOMAIN checkpoints /\ last = checkpoints[n]
    BY <1>1, <2>1 DEF Listed, last, Last
  <2>5. last \in CheckpointEntries /\ last.id \in Labels
    BY <1>1, <2>4, EntryAt
  <2>6. last.lsn \in Nat
    BY <2>5, SizesAreNat DEF CheckpointEntries
  <2>7. OpsSince(last.lsn) \in Seq(Ops)
    BY <2>6, OpsSinceAre
  <2>8. <<>> \in Frames
    <3>1. <<>> \in [{} -> Values]
      OBVIOUS
    <3>2. {} \in SUBSET Columns
      OBVIOUS
    <3> QED BY <3>1, <3>2, FramesAre
  <2>9. delta \in CheckpointEntries
    BY <1>1, <2>5, <2>7, <2>8 DEF CheckpointEntries
  <2>10. IsDelta(delta, last)
    BY <2>1 DEF IsDelta, DeltaFits
  <2> QED BY <2>3, <2>4, <2>9, <2>10
<1> QED BY <1>3, <1>4

(* Operations that are neither a seed's nor a change of shape write cells. *)
LEMMA OnlyCellOps ==
  ASSUME TypeOK, NEW l \in Nat,
         Structural \notin Range(OpsSince(l)), BulkInit \notin Range(OpsSince(l))
  PROVE  OnlySets(l)
<1> DEFINE ops == OpsSince(l)
<1>1. ops \in Seq(Ops) /\ DOMAIN ops = 1..Len(ops)
  BY OpsSinceAre
<1>2. PICK s : /\ s \in [1..Len(ops) -> CommittedSince(l)]
               /\ \A i \in 1..Len(ops) : ops[i] = wal[s[i]].op
               /\ \A k \in CommittedSince(l) : \E i \in 1..Len(ops) : s[i] = k
               /\ \A i, j \in 1..Len(ops) : i < j => s[i] < s[j]
  BY OpsSinceAre
<1> HIDE DEF ops
<1>3. ASSUME NEW k \in CommittedSince(l) PROVE wal[k].op.kind = "set_cell"
  <2>1. PICK i \in 1..Len(ops) : s[i] = k
    BY <1>2
  <2>2. ops[i] = wal[k].op
    BY <1>2, <2>1
  <2>3. wal[k].op \in Range(ops) /\ wal[k].op \in Ops
    BY <1>1, <2>2 DEF Range
  <2> QED BY <2>3 DEF Ops, SetCell, ops
<1> QED BY <1>3 DEF OnlySets

(* Restored, what is not in doubt agrees with what it was taken of. *)
Restores(cps, t, doubt) ==
  \A c \in Ids(cps) \ doubt : At(cps, {}, c) # KeyError => Agree(At(cps, {}, c), t[c])

LEMMA RestoresIs == DeltasRestore <=> Restores(checkpoints, taken, doubtful)
BY DEF DeltasRestore, Restores, At, SnapshotOf

(* The deltas put in doubt because their parent's label is used again. *)
Deltas == {c \in Ids(checkpoints) : EntryOf(checkpoints, c).kind = "delta"}
Reused(id) == IF \E c \in Deltas : EntryOf(checkpoints, c).parent = id THEN Deltas ELSE {}
Over(e) == e.kind = "delta" /\ (BulkInit \in Range(e.ops) \/ e.parent \in doubtful)
Doubt(e, id) == ((doubtful \cup Reused(id)) \ {id}) \cup (IF Over(e) THEN {id} ELSE {})

(* The checkpoint just taken restores to the frame. *)
LEMMA NewRestores ==
  ASSUME IInv, NEW id \in Labels, NEW e \in CheckpointEntries, e.id = id, ~Over(e),
         IsFull(e) \/ (Len(checkpoints) \in DOMAIN checkpoints
                         /\ IsDelta(e, checkpoints[Len(checkpoints)])),
         At(Put(checkpoints, e), {}, id) # KeyError
  PROVE  Agree(At(Put(checkpoints, e), {}, id), df)
<1> DEFINE cps == Put(checkpoints, e)
           n == Len(checkpoints)
           p == checkpoints[n].id
           l == checkpoints[n].lsn
<1>1. TypeOK /\ Listed(checkpoints) /\ Listed(cps) /\ cps \in Seq(CheckpointEntries)
  BY TypesAre, PutDoes DEF IInv, Listed
<1>2. EntryOf(cps, id) = e /\ \A c \in Ids(checkpoints) : c # id => EntryOf(cps, c) = EntryOf(checkpoints, c)
  BY <1>1, PutEntries
<1>3. Ids(cps) = Ids(checkpoints) \cup {id}
  BY <1>1, PutDoes
<1>4. {} \in SUBSET Labels /\ {id} \in SUBSET Labels /\ {} \cup {id} = {id} /\ id \in Refs
  BY DEF Refs
<1> HIDE DEF cps
<1>5. Found(cps, {}, id)
  BY <1>1, <1>4, SnapshotFound DEF cps
<1>6. CASE IsFull(e)
  BY <1>2, <1>5, <1>6 DEF Found, IsFull, Agree, cps
<1>7. CASE n \in DOMAIN checkpoints /\ IsDelta(e, checkpoints[n])
  <2>1. checkpoints[n] \in CheckpointEntries /\ p \in Labels /\ p \in Ids(checkpoints)
    BY <1>1, <1>7, EntryAt
  <2>2. l \in Nat
    BY <2>1, SizesAreNat DEF CheckpointEntries
  <2>3. e.kind = "delta" /\ e.parent = p /\ e.ops = OpsSince(l) /\ Structural \notin Range(OpsSince(l))
    BY <1>7 DEF IsDelta
  <2>4. BulkInit \notin Range(OpsSince(l)) /\ p \notin doubtful
    BY <2>3 DEF Over
  <2>5. At(cps, {id}, p) # KeyError /\ At(cps, {}, id) = ReplayOps(At(cps, {id}, p), OpsSince(l))
    BY <1>2, <1>4, <1>5, <2>3 DEF Found
  <2>6. At(cps, {id}, p) = At(checkpoints, {}, p)
    <3>1. ASSUME NEW c \in Labels \cap Ids(cps), c \notin {id}
          PROVE  /\ c \in Ids(checkpoints) /\ SameEntry(cps, checkpoints, c)
                 /\ EntryOf(checkpoints, c).parent \in Labels \cup {NoParent}
      <4>1. c \in Ids(checkpoints)
        BY <1>3, <3>1
      <4>2. EntryOf(checkpoints, c) \in CheckpointEntries
        BY <1>1, <4>1, EntryIs DEF Listed
      <4> QED BY <1>2, <3>1, <4>1, <4>2 DEF SameEntry, CheckpointEntries
    <3>2. ComesFrom(cps, checkpoints, Labels, {id})
      BY <3>1 DEF ComesFrom
    <3>3. checkpoints \in Seq(CheckpointEntries) /\ Labels \in SUBSET Labels
      BY <1>1 DEF Listed
    <3>4. \A V \in SUBSET Labels : {id} \subseteq V =>
            \A c \in Labels : At(cps, V, c) \in {KeyError, At(checkpoints, {}, c)}
      BY <1>1, <1>4, <3>2, <3>3, ComesKeep
    <3> QED BY <1>4, <2>1, <2>5, <3>4
  <2>7. At(checkpoints, {}, p) \in Frames
    BY <1>1, <1>4, <2>1, <2>5, <2>6, SnapshotIs DEF Results, Refs, Listed
  <2>8. Agree(At(checkpoints, {}, p), taken[p])
    <3>1. Restores(checkpoints, taken, doubtful)
      BY RestoresIs DEF IInv
    <3> QED BY <2>1, <2>4, <2>5, <2>6, <3>1 DEF Restores
  <2>9. taken[p] \in Frames
    BY <1>1, <2>1, TypesAre
  <2>10. FollowsLog(l, taken[p])
    BY <1>7 DEF IInv, LogFollowed
  <2>11. OnlySets(l)
    BY <1>1, <2>2, <2>3, <2>4, OnlyCellOps
  <2>12. Agree(ReplayOps(At(checkpoints, {}, p), OpsSince(l)), df)
    BY <1>1, <2>2, <2>7, <2>8, <2>9, <2>10, <2>11, ReplayAgrees
  <2> QED BY <2>5, <2>6, <2>12 DEF cps
<1> QED BY <1>6, <1>7

(* So do the others as they did, but for the deltas put in doubt. *)
LEMMA OthersRestore ==
  ASSUME IInv, NEW id \in Labels, NEW e \in CheckpointEntries, e.id = id,
         NEW c \in Ids(checkpoints), c # id, c \notin doubtful, c \notin Reused(id)
  PROVE  At(Put(checkpoints, e), {}, c) \in {KeyError, At(checkpoints, {}, c)}
<1> DEFINE cps == Put(checkpoints, e)
<1>1. /\ Listed(checkpoints) /\ Listed(cps) /\ cps \in Seq(CheckpointEntries)
      /\ checkpoints \in Seq(CheckpointEntries)
  BY TypesAre, PutDoes DEF IInv, Listed
<1>2. \A d \in Ids(checkpoints) : d # id => EntryOf(cps, d) = EntryOf(checkpoints, d)
  BY <1>1, PutEntries
<1>3. Ids(cps) = Ids(checkpoints) \cup {id}
  BY <1>1, PutDoes
<1>4. \A d \in Ids(checkpoints) : /\ d \in Labels /\ EntryOf(checkpoints, d) \in CheckpointEntries
                                  /\ EntryOf(checkpoints, d).parent \in Labels \cup {NoParent}
                                  /\ EntryOf(checkpoints, d).kind \in {"full", "delta"}
  <2>1. SUFFICES ASSUME NEW d \in Ids(checkpoints)
                 PROVE  /\ d \in Labels /\ EntryOf(checkpoints, d) \in CheckpointEntries
                        /\ EntryOf(checkpoints, d).parent \in Labels \cup {NoParent}
                        /\ EntryOf(checkpoints, d).kind \in {"full", "delta"}
    OBVIOUS
  <2>2. d \in Labels /\ EntryOf(checkpoints, d) \in CheckpointEntries
    BY <1>1, EntryIs
  <2> QED BY <2>2 DEF CheckpointEntries
<1> HIDE DEF cps
<1>5. CASE \E d \in Deltas : EntryOf(checkpoints, d).parent = id
  <2>1. EntryOf(checkpoints, c).kind = "full"
    BY <1>4, <1>5 DEF Reused, Deltas
  <2>2. {} \in SUBSET Labels /\ c \in Refs /\ c \in Ids(cps) /\ c \notin {}
    BY <1>3, <1>4 DEF Refs
  <2>3. At(cps, {}, c) = EntryOf(checkpoints, c).snapshot_df
    <3>1. At(cps, {}, c) = Restored(EntryOf(cps, c), At(cps, {} \cup {c}, EntryOf(cps, c).parent))
      BY <1>1, <2>2, SnapshotIs
    <3>2. EntryOf(cps, c) = EntryOf(checkpoints, c)
      BY <1>2
    <3> QED BY <2>1, <3>1, <3>2 DEF Restored
  <2>4. At(checkpoints, {}, c) = EntryOf(checkpoints, c).snapshot_df
    BY <1>1, <2>1, <2>2, SnapshotIs DEF Restored
  <2> QED BY <2>3, <2>4 DEF cps
<1>6. CASE \A d \in Deltas : EntryOf(checkpoints, d).parent # id
  <2> DEFINE S == Labels \ {id}
  <2>1. ASSUME NEW d \in S \cap Ids(cps)
        PROVE  /\ d \in Ids(checkpoints) /\ SameEntry(cps, checkpoints, d)
               /\ EntryOf(checkpoints, d).kind = "delta" =>
                    EntryOf(checkpoints, d).parent \in S \cup {NoParent}
    <3>1. d \in Ids(checkpoints) /\ d # id
      BY <1>3, <2>1
    <3> QED BY <1>2, <1>4, <1>6, <3>1 DEF SameEntry, Deltas
  <2>2. ComesFrom(cps, checkpoints, S, {})
    BY <2>1 DEF ComesFrom
  <2>3. S \in SUBSET Labels /\ {} \in SUBSET Labels /\ {} \subseteq {} /\ c \in S
    BY <1>4
  <2> HIDE DEF S
  <2>4. \A V \in SUBSET Labels : {} \subseteq V =>
          \A d \in S : At(cps, V, d) \in {KeyError, At(checkpoints, {}, d)}
    BY <1>1, <2>2, <2>3, ComesKeep
  <2> QED BY <2>3, <2>4 DEF cps
<1> QED BY <1>5, <1>6

LEMMA PutRestores ==
  ASSUME IInv, NEW id \in Labels, NEW e \in CheckpointEntries, e.id = id,
         IsFull(e) \/ (Len(checkpoints) \in DOMAIN checkpoints
                         /\ IsDelta(e, checkpoints[Len(checkpoints)])),
         NEW t, \A c \in Ids(Put(checkpoints, e)) : t[c] = IF c = id THEN df ELSE taken[c]
  PROVE  Restores(Put(checkpoints, e), t, Doubt(e, id))
<1> DEFINE cps == Put(checkpoints, e)
<1>1. SUFFICES ASSUME NEW c \in Ids(cps), c \notin Doubt(e, id), At(cps, {}, c) # KeyError
               PROVE  Agree(At(cps, {}, c), t[c])
  BY DEF Restores
<1>2. Ids(cps) = Ids(checkpoints) \cup {id}
  BY PutDoes, TypesAre DEF IInv
<1>3. CASE c = id
  <2>1. ~Over(e)
    BY <1>1, <1>3 DEF Doubt
  <2>2. Agree(At(cps, {}, id), df)
    BY <1>1, <1>3, <2>1, NewRestores
  <2> QED BY <1>1, <1>3, <2>2
<1>4. CASE c # id
  <2>1. c \in Ids(checkpoints) /\ c \notin doubtful /\ c \notin Reused(id)
    BY <1>1, <1>2, <1>4 DEF Doubt
  <2>2. At(cps, {}, c) = At(checkpoints, {}, c)
    BY <1>1, <1>4, <2>1, OthersRestore
  <2>3. Restores(checkpoints, taken, doubtful)
    BY RestoresIs DEF IInv
  <2>4. Agree(At(checkpoints, {}, c), taken[c])
    BY <1>1, <2>1, <2>2, <2>3 DEF Restores
  <2> HIDE DEF cps
  <2> QED BY <1>1, <1>4, <2>2, <2>4 DEF cps
<1> QED BY <1>3, <1>4

(* A checkpoint taken keeps the log's account of the frame, and parents close. *)
LEMMA PutFollows ==
  ASSUME IInv, NEW id \in Labels, NEW e \in CheckpointEntries, e.id = id, e.lsn = Len(wal),
         NEW t, \A c \in Ids(Put(checkpoints, e)) : t[c] = IF c = id THEN df ELSE taken[c]
  PROVE  \A i \in DOMAIN Put(checkpoints, e) :
           /\ Put(checkpoints, e)[i].lsn <= Len(wal)
           /\ FollowsLog(Put(checkpoints, e)[i].lsn, t[Put(checkpoints, e)[i].id])
<1> DEFINE cps == Put(checkpoints, e)
<1>1. Listed(checkpoints) /\ Len(wal) \in Nat
  BY TypesAre DEF IInv
<1>2. SUFFICES ASSUME NEW i \in DOMAIN cps
               PROVE  cps[i].lsn <= Len(wal) /\ FollowsLog(cps[i].lsn, t[cps[i].id])
  OBVIOUS
<1>3. cps[i].id \in Ids(cps)
  BY DEF Ids
<1>4. cps[i] = e \/ (i \in DOMAIN checkpoints /\ cps[i] = checkpoints[i] /\ checkpoints[i].id # id)
  BY <1>1, PutDoes
<1> HIDE DEF cps
<1>5. CASE cps[i] = e
  <2>1. CommittedSince(Len(wal)) = {}
    BY <1>1 DEF CommittedSince
  <2>2. \A c \in DOMAIN df : Explained(Len(wal), df, c)
    BY <2>1 DEF Explained, Unset
  <2>3. FollowsLog(Len(wal), df)
    BY <2>2 DEF FollowsLog
  <2>4. t[cps[i].id] = df
    BY <1>3, <1>5 DEF cps
  <2> QED BY <1>1, <1>5, <2>3, <2>4
<1>6. CASE i \in DOMAIN checkpoints /\ cps[i] = checkpoints[i] /\ checkpoints[i].id # id
  <2>1. t[cps[i].id] = taken[checkpoints[i].id]
    BY <1>3, <1>6 DEF cps
  <2> QED BY <1>6, <2>1 DEF IInv, LogFollowed
<1> QED BY <1>4, <1>5, <1>6

LEMMA PutClose ==
  ASSUME IInv, NEW id \in Labels, NEW e \in CheckpointEntries, e.id = id,
         IsFull(e) \/ (Len(checkpoints) \in DOMAIN checkpoints
                         /\ IsDelta(e, checkpoints[Len(checkpoints)]))
  PROVE  Close(Put(checkpoints, e))
<1> DEFINE cps == Put(checkpoints, e)
           n == Len(checkpoints)
<1>1. /\ Listed(checkpoints) /\ Listed(cps) /\ Len(cps) \in n..(n + 1)
      /\ \A i \in DOMAIN cps : cps[i] = e \/ (i \in DOMAIN checkpoints /\ cps[i] = checkpoints[i]
                                                /\ checkpoints[i].id # id)
  BY TypesAre, PutDoes DEF IInv
<1>2. n \in Nat /\ DOMAIN checkpoints = 1..n /\ DOMAIN cps = 1..Len(cps) /\ Len(cps) \in Nat
  BY <1>1 DEF Listed
<1> HIDE DEF cps
<1>3. SUFFICES ASSUME NEW i \in DOMAIN cps, NEW j \in DOMAIN cps, cps[i].kind = "delta",
                      cps[j].id = cps[i].parent
               PROVE  j >= i - 1
  BY DEF Close, cps
<1>4. i \in 1..Len(cps) /\ j \in 1..Len(cps)
  BY <1>2
<1>5. CASE cps[i] = e
  <2>1. n \in 1..n /\ e.parent = checkpoints[n].id
    BY <1>2, <1>3, <1>5 DEF IsFull, IsDelta
  <2>2. CASE cps[j] = e
    <3>1. e.parent = id
      BY <1>3, <1>5, <2>2
    <3>2. checkpoints[n].id = id /\ id \in Ids(checkpoints)
      BY <1>2, <2>1, <3>1 DEF Ids
    <3>3. Len(cps) = n
      BY <1>2, <3>2 DEF cps, Put
    <3>4. cps[n] = e
      <4>1. n \in DOMAIN cps
        BY <1>2, <2>1, <3>3
      <4> QED BY <1>1, <3>2, <4>1
    <3>5. n \in DOMAIN cps /\ cps[j].id = cps[n].id
      BY <1>2, <2>1, <2>2, <3>3, <3>4
    <3>6. j = n
      BY <1>1, <3>5 DEF Listed, Distinct
    <3> QED BY <1>2, <1>4, <3>3, <3>6
  <2>3. CASE j \in DOMAIN checkpoints /\ cps[j] = checkpoints[j]
    <3>1. j = n
      BY <1>1, <1>2, <1>3, <1>5, <2>1, <2>3 DEF Listed, Distinct
    <3> QED BY <1>1, <1>2, <1>4, <3>1
  <2> QED BY <1>1, <2>2, <2>3
<1>6. CASE i \in DOMAIN checkpoints /\ cps[i] = checkpoints[i]
  <2>1. CASE cps[j] = e
    <3>1. CASE id \in Ids(checkpoints)
      <4>1. Len(cps) = n
        BY <1>2, <3>1 DEF cps, Put
      <4>2. PICK k \in DOMAIN checkpoints : checkpoints[k].id = id
        BY <3>1 DEF Ids
      <4>3. cps[k] = e
        BY <1>1, <1>2, <4>1, <4>2
      <4>4. k = j
        BY <1>1, <1>2, <2>1, <4>1, <4>2, <4>3 DEF Listed, Distinct
      <4> QED BY <1>3, <1>6, <2>1, <4>2, <4>4 DEF IInv, ParentsClose, Close
    <3>2. CASE id \notin Ids(checkpoints)
      <4>1. j \notin DOMAIN checkpoints
        <5>1. ASSUME j \in DOMAIN checkpoints PROVE FALSE
          <6>1. cps[j] = checkpoints[j] /\ checkpoints[j].id \in Ids(checkpoints)
            BY <1>2, <3>2, <5>1 DEF cps, Put, Ids
          <6> QED BY <2>1, <3>2, <6>1
        <5> QED BY <5>1
      <4>2. j > n
        BY <1>2, <1>4, <4>1
      <4> QED BY <1>2, <1>4, <1>6, <4>2
    <3> QED BY <3>1, <3>2
  <2>2. CASE j \in DOMAIN checkpoints /\ cps[j] = checkpoints[j]
    BY <1>3, <1>6, <2>2 DEF IInv, ParentsClose, Close
  <2> QED BY <1>1, <2>1, <2>2
<1> QED BY <1>1, <1>5, <1>6

(* new is cps, or what a pruning leaves of it. *)
Descends(new, cps) ==
  /\ Listed(new) /\ Ids(new) \in SUBSET Ids(cps)
  /\ Close(cps) => Close(new)
  /\ \A k \in DOMAIN new : \E i \in DOMAIN cps :
       new[k].id = cps[i].id /\ new[k].lsn = cps[i].lsn
  /\ \A c \in Ids(new) : At(new, {}, c) \in {KeyError, At(cps, {}, c)}

LEMMA DescendsFrom ==
  ASSUME NEW cps, Listed(cps), NEW keep_last \in Nat, NEW keep_named
  PROVE  Descends(cps, cps) /\ Descends(Pruned(cps, keep_last, keep_named), cps)
<1>1. Descends(Pruned(cps, keep_last, keep_named), cps)
  BY PrunedDoes DEF Descends
<1>2. Descends(cps, cps)
  BY DEF Descends
<1> QED BY <1>1, <1>2

(* What the log says of each checkpoint of a list. *)
Accounted(cps, t) ==
  \A i \in DOMAIN cps : cps[i].lsn <= Len(wal) /\ FollowsLog(cps[i].lsn, t[cps[i].id])

LEMMA DescendsKeeps ==
  ASSUME NEW cps, NEW new, Descends(new, cps), NEW t, NEW u, NEW doubt,
         \A c \in Ids(new) : u[c] = t[c]
  PROVE  /\ Restores(cps, t, doubt) => Restores(new, u, doubt \cap Ids(new))
         /\ Accounted(cps, t) => Accounted(new, u)
<1>1. ASSUME Restores(cps, t, doubt) PROVE Restores(new, u, doubt \cap Ids(new))
  <2>1. SUFFICES ASSUME NEW c \in Ids(new), c \notin doubt, At(new, {}, c) # KeyError
                 PROVE  Agree(At(new, {}, c), u[c])
    BY DEF Restores
  <2>2. c \in Ids(cps) /\ At(new, {}, c) = At(cps, {}, c) /\ u[c] = t[c]
    BY <2>1 DEF Descends
  <2>3. Agree(At(cps, {}, c), t[c])
    BY <1>1, <2>1, <2>2 DEF Restores
  <2> QED BY <2>2, <2>3
<1>2. ASSUME Accounted(cps, t) PROVE Accounted(new, u)
  <2>1. SUFFICES ASSUME NEW k \in DOMAIN new
                 PROVE  new[k].lsn <= Len(wal) /\ FollowsLog(new[k].lsn, u[new[k].id])
    BY DEF Accounted
  <2>2. PICK i \in DOMAIN cps : new[k].id = cps[i].id /\ new[k].lsn = cps[i].lsn
    BY DEF Descends
  <2>3. new[k].id \in Ids(new)
    BY DEF Ids
  <2>4. u[new[k].id] = t[cps[i].id]
    BY <2>2, <2>3
  <2> QED BY <1>2, <2>2, <2>4 DEF Accounted
<1> QED BY <1>1, <1>2

(* Where the frame and the log stay, the invariant is about the list. *)
LEMMA SameFrame ==
  ASSUME UNCHANGED <<df, wal>>
  PROVE  /\ LogFollowed' <=> Accounted(checkpoints', taken')
         /\ DeltasRestore' <=> Restores(checkpoints', taken', doubtful')
         /\ ParentsClose' <=> Close(checkpoints')
<1>1. LogFollowed' <=> Accounted(checkpoints', taken')
  BY DEF LogFollowed, Accounted, FollowsLog, OnlySets, Explained, Unset, LastSet, CommittedSince
<1>2. DeltasRestore' <=> Restores(checkpoints', taken', doubtful')
  BY DEF DeltasRestore, Restores, At, SnapshotOf
<1> QED BY <1>1, <1>2 DEF ParentsClose

LEMMA AccountedIs == LogFollowed <=> Accounted(checkpoints, taken)
BY DEF LogFollowed, Accounted

LEMMA CheckpointKeeps ==
  ASSUME IInv, NEW id \in Labels, NEW auto \in BOOLEAN, Checkpoint(id, auto)
  PROVE  IInv'
<1> DEFINE e == NewEntry(id, auto)
           cps == Put(checkpoints, e)
           new == IF OverLimit(cps, auto) THEN Pruned(cps, AutoMax, TRUE) ELSE cps
           t == [c \in Ids(cps) |-> IF c = id THEN df ELSE taken[c]]
<1>1. /\ checkpoints' = new /\ UNCHANGED <<df, wal>> /\ calls < MaxCalls /\ calls' = calls + 1
      /\ taken' = [c \in Ids(new) |-> IF c = id THEN df ELSE taken[c]]
      /\ doubtful' = Ids(new) \cap Doubt(e, id)
  BY DEF Checkpoint, Doubt, Reused, Over, Deltas
<1>2. TypeOK /\ Listed(checkpoints) /\ df \in Frames /\ taken \in [Ids(checkpoints) -> Frames]
      /\ Autos(checkpoints) <= AutoMax /\ AutoMax \in Nat
  BY TypesAre, SizesAreNat DEF IInv
<1>3. /\ e \in CheckpointEntries /\ e.id = id /\ e.lsn = Len(wal) /\ e.auto = auto
      /\ IsFull(e) \/ (Len(checkpoints) \in DOMAIN checkpoints
                         /\ IsDelta(e, checkpoints[Len(checkpoints)]))
  BY <1>2, NewEntryIs
<1> HIDE DEF e
<1>4. /\ Listed(cps) /\ Ids(cps) = Ids(checkpoints) \cup {id}
      /\ \A i \in DOMAIN cps : cps[i] = e \/ (i \in DOMAIN checkpoints /\ cps[i] = checkpoints[i])
  BY <1>2, <1>3, PutDoes
<1>5. \A c \in Ids(cps) : t[c] = IF c = id THEN df ELSE taken[c]
  OBVIOUS
<1> HIDE DEF t
<1>6. Restores(cps, t, Doubt(e, id)) /\ Accounted(cps, t) /\ Close(cps)
  BY <1>3, <1>5, PutRestores, PutFollows, PutClose DEF Accounted
<1> HIDE DEF cps
<1>7. Descends(new, cps)
  BY <1>2, <1>4, DescendsFrom
<1>8. Listed(new) /\ Ids(new) \in SUBSET Ids(cps) /\ Close(new)
  BY <1>6, <1>7 DEF Descends
<1>9. \A c \in Ids(new) : taken'[c] = t[c]
  BY <1>1, <1>5, <1>8
<1>10. Restores(new, taken', Doubt(e, id) \cap Ids(new)) /\ Accounted(new, taken')
  BY <1>6, <1>7, <1>9, DescendsKeeps
<1>11. Autos(new) <= AutoMax
  <2>1. Autos(cps) \in Nat
    <3>1. AutosAt(cps, DOMAIN cps) \in SUBSET (1..Len(cps)) /\ Len(cps) \in Nat
      BY <1>4 DEF AutosAt, Listed
    <3>2. IsFiniteSet(AutosAt(cps, DOMAIN cps))
      BY <3>1, NumbersAreFinite
    <3> QED BY <3>2, FS_CardinalityType DEF Autos, AutosAt
  <2>2. CASE OverLimit(cps, auto)
    BY <1>2, <1>4, <2>2, PrunedDoes
  <2>3. CASE auto /\ ~OverLimit(cps, auto)
    BY <1>2, <2>1, <2>3 DEF OverLimit
  <2>4. CASE ~auto /\ ~OverLimit(cps, auto)
    <3>1. AutosAt(cps, DOMAIN cps) \in SUBSET AutosAt(checkpoints, DOMAIN checkpoints)
      BY <1>3, <1>4, <2>4 DEF AutosAt
    <3>2. IsFiniteSet(AutosAt(checkpoints, DOMAIN checkpoints))
      <4>1. AutosAt(checkpoints, DOMAIN checkpoints) \in SUBSET (1..Len(checkpoints))
            /\ Len(checkpoints) \in Nat
        BY <1>2 DEF AutosAt, Listed
      <4> QED BY <4>1, NumbersAreFinite
    <3>3. /\ Cardinality(AutosAt(cps, DOMAIN cps)) <= Cardinality(AutosAt(checkpoints, DOMAIN checkpoints))
          /\ Cardinality(AutosAt(checkpoints, DOMAIN checkpoints)) \in Nat
      BY <3>1, <3>2, FS_Subset, FS_CardinalityType
    <3>4. Autos(cps) <= Autos(checkpoints) /\ Autos(checkpoints) \in Nat
      BY <3>3 DEF Autos, AutosAt
    <3> QED BY <1>2, <2>1, <2>4, <3>4
  <2> QED BY <2>2, <2>3, <2>4
<1>12. TypeOK'
  <2> HIDE DEF new
  <2>1. taken' \in [Ids(checkpoints') -> Frames]
    BY <1>1, <1>2, <1>4, <1>8
  <2>2. doubtful' \in SUBSET Ids(checkpoints')
    BY <1>1
  <2>3. calls' \in 0..MaxCalls
    BY <1>1, <1>2, SizesAreNat DEF TypeOK
  <2>4. df' \in Frames /\ wal' \in Seq(Entries) /\ Len(wal') <= MaxLsn
    BY <1>1, <1>2 DEF TypeOK
  <2>5. /\ checkpoints' \in Seq(CheckpointEntries)
        /\ \A i, j \in DOMAIN checkpoints' : checkpoints'[i].id = checkpoints'[j].id => i = j
        /\ Cardinality({i \in DOMAIN checkpoints' : checkpoints'[i].auto}) <= AutoMax
    BY <1>1, <1>8, <1>11 DEF Listed, Distinct, Autos
  <2> QED BY <2>1, <2>2, <2>3, <2>4, <2>5 DEF TypeOK
<1>13. Doubt(e, id) \cap Ids(new) = doubtful'
  BY <1>1
<1>14. LogFollowed' /\ DeltasRestore' /\ ParentsClose'
  <2> HIDE DEF new
  <2> QED BY <1>1, <1>8, <1>10, <1>13, SameFrame
<1> QED BY <1>12, <1>14 DEF IInv

LEMMA PruneKeeps ==
  ASSUME IInv, NEW n \in Nat, NEW named \in BOOLEAN, Prune(n, named)
  PROVE  IInv'
<1> DEFINE new == Pruned(checkpoints, n, named)
<1>1. /\ checkpoints' = new /\ UNCHANGED <<df, wal, calls>>
      /\ taken' = [c \in Ids(new) |-> taken[c]]
      /\ doubtful' = doubtful \cap Ids(new)
  BY DEF Prune
<1>2. TypeOK /\ Listed(checkpoints) /\ df \in Frames /\ taken \in [Ids(checkpoints) -> Frames]
      /\ Autos(checkpoints) <= AutoMax /\ AutoMax \in Nat
  BY TypesAre, SizesAreNat DEF IInv
<1>3. Descends(new, checkpoints) /\ Autos(new) <= Autos(checkpoints)
  BY <1>2, DescendsFrom, PrunedDoes
<1>4. Restores(checkpoints, taken, doubtful) /\ Accounted(checkpoints, taken) /\ Close(checkpoints)
  BY RestoresIs, AccountedIs DEF IInv, ParentsClose
<1> HIDE DEF new
<1>5. Listed(new) /\ Ids(new) \in SUBSET Ids(checkpoints) /\ Close(new)
  BY <1>3, <1>4 DEF Descends
<1>6. Restores(new, taken', doubtful \cap Ids(new)) /\ Accounted(new, taken')
  <2>1. \A c \in Ids(new) : taken'[c] = taken[c]
    BY <1>1
  <2> QED BY <1>3, <1>4, <2>1, DescendsKeeps
<1>7. Autos(new) <= AutoMax
  <2>1. \A cps : Listed(cps) => Autos(cps) \in Nat
    <3>1. SUFFICES ASSUME NEW cps, Listed(cps) PROVE Autos(cps) \in Nat
      OBVIOUS
    <3>2. AutosAt(cps, DOMAIN cps) \in SUBSET (1..Len(cps)) /\ Len(cps) \in Nat
      BY <3>1 DEF AutosAt, Listed
    <3>3. IsFiniteSet(AutosAt(cps, DOMAIN cps))
      BY <3>2, NumbersAreFinite
    <3> QED BY <3>3, FS_CardinalityType DEF Autos, AutosAt
  <2>2. Autos(new) \in Nat /\ Autos(checkpoints) \in Nat
    BY <1>2, <1>5, <2>1
  <2> QED BY <1>2, <1>3, <2>2
<1>8. TypeOK'
  <2>1. taken' \in [Ids(checkpoints') -> Frames]
    BY <1>1, <1>2, <1>5
  <2>2. doubtful' \in SUBSET Ids(checkpoints')
    BY <1>1
  <2>3. calls' \in 0..MaxCalls /\ df' \in Frames /\ wal' \in Seq(Entries) /\ Len(wal') <= MaxLsn
    BY <1>1, <1>2 DEF TypeOK
  <2>4. /\ checkpoints' \in Seq(CheckpointEntries)
        /\ \A i, j \in DOMAIN checkpoints' : checkpoints'[i].id = checkpoints'[j].id => i = j
        /\ Cardinality({i \in DOMAIN checkpoints' : checkpoints'[i].auto}) <= AutoMax
    BY <1>1, <1>5, <1>7 DEF Listed, Distinct, Autos
  <2> QED BY <2>1, <2>2, <2>3, <2>4 DEF TypeOK
<1>9. LogFollowed' /\ DeltasRestore' /\ ParentsClose'
  BY <1>1, <1>5, <1>6, SameFrame
<1> QED BY <1>8, <1>9 DEF IInv

(***************************************************************************)
(* Writing the frame.                                                      *)
(***************************************************************************)

(* g is f with v in c, or without c. *)
Puts(g, f, c, v) ==
  /\ g \in Frames /\ DOMAIN g = DOMAIN f \cup {c} /\ g[c] = v
  /\ \A d \in DOMAIN f : d # c => g[d] = f[d]
Drops(g, f, c) ==
  /\ g \in Frames /\ DOMAIN g = DOMAIN f \ {c}
  /\ \A d \in DOMAIN g : g[d] = f[d]

LEMMA FrameChanges ==
  ASSUME NEW f \in Frames, NEW c \in Columns
  PROVE  /\ \A v \in Values : Puts(With(f, c, v), f, c, v)
         /\ Drops(Without(f, c), f, c)
<1>1. DOMAIN f \in SUBSET Columns /\ f \in [DOMAIN f -> Values]
  BY FramesAre
<1>2. ASSUME NEW v \in Values PROVE Puts(With(f, c, v), f, c, v)
  <2> DEFINE g == With(f, c, v)
  <2>1. /\ DOMAIN g = DOMAIN f \cup {c} /\ g[c] = v
        /\ \A d \in DOMAIN f : d # c => g[d] = f[d]
        /\ g \in [DOMAIN f \cup {c} -> Values]
    BY <1>1 DEF With
  <2>2. DOMAIN f \cup {c} \in SUBSET Columns
    BY <1>1
  <2> HIDE DEF g
  <2> QED BY <2>1, <2>2, FramesAre DEF Puts, g
<1>3. Drops(Without(f, c), f, c)
  <2> DEFINE g == Without(f, c)
  <2>1. /\ DOMAIN g = DOMAIN f \ {c}
        /\ \A d \in DOMAIN g : g[d] = f[d]
        /\ g \in [DOMAIN f \ {c} -> Values]
    BY <1>1 DEF Without
  <2>2. DOMAIN f \ {c} \in SUBSET Columns
    BY <1>1
  <2> HIDE DEF g
  <2> QED BY <2>1, <2>2, FramesAre DEF Drops, g
<1> QED BY <1>2, <1>3

(* The log one entry longer. *)
LEMMA LogGrows ==
  ASSUME TypeOK, NEW entry \in Entries, Log(entry)
  PROVE  /\ wal' \in Seq(Entries) /\ Len(wal') = Len(wal) + 1 /\ Len(wal') <= MaxLsn
         /\ \A k \in 1..Len(wal) : wal'[k] = wal[k]
         /\ wal'[Len(wal) + 1] = entry
         /\ \A l \in Nat : l <= Len(wal) =>
              /\ CommittedSince(l) \in SUBSET (1..Len(wal))
              /\ CommittedSince(l)' =
                   CommittedSince(l) \cup (IF entry.committed THEN {Len(wal) + 1} ELSE {})
<1> DEFINE n == Len(wal)
<1>1. wal \in Seq(Entries) /\ n \in Nat /\ MaxLsn \in Nat
  BY TypesAre
<1>2. n < MaxLsn /\ wal' = Append(wal, entry)
  BY DEF Log
<1>3. /\ wal' \in Seq(Entries) /\ Len(wal') = n + 1
      /\ \A k \in 1..n : wal'[k] = wal[k]
      /\ wal'[n + 1] = entry
  BY <1>1, <1>2
<1>4. ASSUME NEW l \in Nat, l <= n
      PROVE  /\ CommittedSince(l) \in SUBSET (1..n)
             /\ CommittedSince(l)' = CommittedSince(l) \cup (IF entry.committed THEN {n + 1} ELSE {})
  <2>1. CommittedSince(l) = {k \in (l + 1)..n : wal[k].committed}
    BY DEF CommittedSince
  <2>2. CommittedSince(l)' = {k \in (l + 1)..(n + 1) : wal'[k].committed}
    BY <1>3 DEF CommittedSince
  <2> HIDE DEF n
  <2>3. \A k \in (l + 1)..n : k \in 1..n
    BY <1>1
  <2>4. \A k : k \in (l + 1)..(n + 1) <=> k \in (l + 1)..n \/ k = n + 1
    BY <1>1, <1>4
  <2>5. \A k \in (l + 1)..n : wal'[k] = wal[k]
    BY <1>3, <2>3
  <2>6. \A k : k \in CommittedSince(l)' <=>
                 k \in CommittedSince(l) \/ (k = n + 1 /\ entry.committed)
    BY <1>1, <1>3, <2>1, <2>2, <2>4, <2>5
  <2>7. CommittedSince(l) \in SUBSET (1..n)
    BY <2>1, <2>3
  <2> QED BY <2>6, <2>7
<1>5. n + 1 <= MaxLsn
  BY <1>1, <1>2
<1> QED BY <1>3, <1>4, <1>5 DEF n

(* Where a step only writes the frame and the log, the invariant holds after it
   if the log still explains the frame. *)
LEMMA OnlyFrame ==
  ASSUME IInv, UNCHANGED <<checkpoints, history>>,
         df' \in Frames, wal' \in Seq(Entries), Len(wal') <= MaxLsn, Len(wal) <= Len(wal'),
         \A l \in Nat, t \in Frames : l <= Len(wal) /\ FollowsLog(l, t) => FollowsLog(l, t)'
  PROVE  IInv'
<1>1. TypeOK'
  BY DEF IInv, TypeOK, history
<1>2. DeltasRestore' /\ ParentsClose'
  BY DEF IInv, DeltasRestore, ParentsClose, Close, history
<1>3. ASSUME NEW i \in DOMAIN checkpoints
      PROVE  checkpoints[i].lsn <= Len(wal') /\ FollowsLog(checkpoints[i].lsn, taken[checkpoints[i].id])'
  <2>1. /\ checkpoints[i].lsn <= Len(wal)
        /\ FollowsLog(checkpoints[i].lsn, taken[checkpoints[i].id])
    BY DEF IInv, LogFollowed
  <2>2. /\ Listed(checkpoints) /\ taken \in [Ids(checkpoints) -> Frames]
        /\ Len(wal) \in Nat /\ Len(wal') \in Nat
    BY TypesAre DEF IInv
  <2>3. checkpoints[i] \in CheckpointEntries /\ checkpoints[i].id \in Ids(checkpoints)
    BY <2>2, EntryAt
  <2>4. checkpoints[i].lsn \in Nat /\ taken[checkpoints[i].id] \in Frames
    BY <2>2, <2>3, SizesAreNat DEF CheckpointEntries
  <2>5. FollowsLog(checkpoints[i].lsn, taken[checkpoints[i].id])'
    <3>1. checkpoints' = checkpoints /\ taken' = taken
      BY DEF history
    <3> DEFINE l == checkpoints[i].lsn
               t == taken[checkpoints[i].id]
    <3>2. l \in Nat /\ t \in Frames /\ l <= Len(wal) /\ FollowsLog(l, t)
      BY <2>1, <2>4
    <3> QED BY <3>1, <3>2
  <2> QED BY <2>1, <2>2, <2>4, <2>5
<1>4. LogFollowed'
  BY <1>3 DEF LogFollowed, history
<1> QED BY <1>1, <1>2, <1>4 DEF IInv

LEMMA SetColumnKeeps ==
  ASSUME IInv, NEW c \in Columns, NEW v \in Values, SetColumn(c, v)
  PROVE  IInv'
<1> DEFINE entry == Logged(SetCell(c, v))
           n == Len(wal)
<1>1. Log(entry) /\ df' = With(df, c, v) /\ UNCHANGED <<checkpoints, history>>
  BY DEF SetColumn
<1>2. entry \in Entries /\ entry.committed = TRUE /\ entry.op = SetCell(c, v)
  BY DEF Logged, Entries, Ops
<1> HIDE DEF entry
<1>3. TypeOK /\ n \in Nat /\ df \in Frames
  BY TypesAre DEF IInv
<1>4. /\ wal' \in Seq(Entries) /\ Len(wal') = n + 1 /\ Len(wal') <= MaxLsn
      /\ \A k \in 1..n : wal'[k] = wal[k]
      /\ wal'[n + 1] = entry
      /\ \A l \in Nat : l <= n =>
           /\ CommittedSince(l) \in SUBSET (1..n)
           /\ CommittedSince(l)' =
                CommittedSince(l) \cup (IF entry.committed THEN {n + 1} ELSE {})
  BY <1>1, <1>2, <1>3, LogGrows
<1>5. /\ df' \in Frames /\ DOMAIN df' = DOMAIN df \cup {c} /\ df'[c] = v
      /\ \A d \in DOMAIN df : d # c => df'[d] = df[d]
  <2>1. Puts(With(df, c, v), df, c, v)
    BY <1>3, FrameChanges
  <2>2. Puts(df', df, c, v)
    BY <1>1, <2>1
  <2> QED BY <2>2 DEF Puts
<1> HIDE DEF n
<1>6. ASSUME NEW l \in Nat, NEW t \in Frames, l <= n, FollowsLog(l, t)
      PROVE  FollowsLog(l, t)'
  <2> DEFINE S == CommittedSince(l)
  <2>1. S \in SUBSET (1..n) /\ S' = S \cup {n + 1}
    BY <1>2, <1>4, <1>6
  <2>2. \A k \in S : k \in S' /\ wal'[k] = wal[k] /\ k < n + 1 /\ k \in Int
    BY <1>3, <1>4, <2>1
  <2>3. n + 1 \in S' /\ SetsColumn(wal'[n + 1].op, c) /\ wal'[n + 1].op.value = v
        /\ \A d : SetsColumn(wal'[n + 1].op, d) <=> d = c
    BY <1>2, <1>4, <2>1 DEF SetsColumn, SetCell
  <2> HIDE DEF S
  <2>4. SUFFICES ASSUME OnlySets(l)', NEW d \in DOMAIN df' PROVE Explained(l, t, d)'
    BY DEF FollowsLog
  <2>5. OnlySets(l)
    BY <2>2, <2>4 DEF OnlySets, S
  <2>6. CASE d = c
    <3>1. PICK k \in Nat : k = n + 1
      BY <1>3
    <3>2. \A m \in S' : ~(m > k)
      BY <1>3, <2>1, <3>1
    <3>3. LastSet(l, c, k)'
      BY <2>3, <3>1, <3>2 DEF LastSet, S
    <3>4. k \in 1..Len(wal')
      BY <1>3, <1>4, <3>1
    <3> QED BY <1>5, <2>3, <2>6, <3>1, <3>3, <3>4 DEF Explained
  <2>7. CASE d # c
    <3>1. d \in DOMAIN df /\ df'[d] = df[d]
      BY <1>5, <2>4, <2>7
    <3>2. Explained(l, t, d)
      BY <1>6, <2>5, <3>1 DEF FollowsLog
    <3>3. CASE Unset(l, d) /\ d \in DOMAIN t /\ t[d] = df[d]
      <4>1. \A k \in S' : ~SetsColumn(wal'[k].op, d)
        BY <2>1, <2>2, <2>3, <2>7, <3>3 DEF Unset, S
      <4>2. Unset(l, d)'
        BY <4>1 DEF Unset, S
      <4> QED BY <3>1, <3>3, <4>2 DEF Explained
    <3>4. CASE \E k \in 1..Len(wal) : LastSet(l, d, k) /\ wal[k].op.value = df[d]
      <4>1. PICK k \in 1..Len(wal) : LastSet(l, d, k) /\ wal[k].op.value = df[d]
        BY <3>4
      <4>2. k \in S /\ SetsColumn(wal[k].op, d)
            /\ \A m \in S : m > k => ~SetsColumn(wal[m].op, d)
        BY <4>1 DEF LastSet, S
      <4>3. k \in S' /\ SetsColumn(wal'[k].op, d)
            /\ \A m \in S' : m > k => ~SetsColumn(wal'[m].op, d)
        BY <2>1, <2>2, <2>3, <2>7, <4>2
      <4>4. LastSet(l, d, k)'
        BY <4>3 DEF LastSet, S
      <4>5. k \in 1..Len(wal') /\ wal'[k].op.value = df'[d]
        BY <1>3, <1>4, <2>2, <3>1, <4>1, <4>2 DEF n
      <4> QED BY <4>4, <4>5 DEF Explained
    <3> QED BY <3>2, <3>3, <3>4 DEF Explained
  <2> QED BY <2>6, <2>7
<1>7. Len(wal) <= Len(wal')
  BY <1>3, <1>4 DEF n
<1> QED BY <1>1, <1>4, <1>5, <1>6, <1>7, OnlyFrame DEF n

LEMMA SetColumnFailsKeeps ==
  ASSUME IInv, NEW c \in Columns, NEW v \in Values, SetColumnFails(c, v)
  PROVE  IInv'
<1> DEFINE entry == [committed |-> FALSE, op |-> SetCell(c, v)]
           n == Len(wal)
<1>1. Log(entry) /\ df' = df /\ UNCHANGED <<checkpoints, history>>
  BY DEF SetColumnFails
<1>2. entry \in Entries /\ entry.committed = FALSE
  BY DEF Entries, Ops
<1> HIDE DEF entry
<1>3. TypeOK /\ n \in Nat /\ df \in Frames
  BY TypesAre DEF IInv
<1>4. /\ wal' \in Seq(Entries) /\ Len(wal') = n + 1 /\ Len(wal') <= MaxLsn
      /\ \A k \in 1..n : wal'[k] = wal[k]
      /\ \A l \in Nat : l <= n =>
           /\ CommittedSince(l) \in SUBSET (1..n)
           /\ CommittedSince(l)' =
                CommittedSince(l) \cup (IF entry.committed THEN {n + 1} ELSE {})
  BY <1>1, <1>2, <1>3, LogGrows
<1> HIDE DEF n
<1>5. ASSUME NEW l \in Nat, NEW t \in Frames, l <= n, FollowsLog(l, t)
      PROVE  FollowsLog(l, t)'
  <2> DEFINE S == CommittedSince(l)
  <2>1. S \in SUBSET (1..n) /\ S' = S
    BY <1>2, <1>4, <1>5
  <2>2. \A k \in S : wal'[k] = wal[k]
    BY <1>4, <2>1
  <2> HIDE DEF S
  <2>3. SUFFICES ASSUME OnlySets(l)', NEW d \in DOMAIN df' PROVE Explained(l, t, d)'
    BY DEF FollowsLog
  <2>4. OnlySets(l)
    BY <2>1, <2>2, <2>3 DEF OnlySets, S
  <2>5. Explained(l, t, d)
    BY <1>1, <1>5, <2>3, <2>4 DEF FollowsLog
  <2>6. CASE Unset(l, d) /\ d \in DOMAIN t /\ t[d] = df[d]
    <3>1. Unset(l, d)'
      BY <2>1, <2>2, <2>6 DEF Unset, S
    <3> QED BY <1>1, <2>6, <3>1 DEF Explained
  <2>7. CASE \E k \in 1..Len(wal) : LastSet(l, d, k) /\ wal[k].op.value = df[d]
    <3>1. PICK k \in 1..Len(wal) : LastSet(l, d, k) /\ wal[k].op.value = df[d]
      BY <2>7
    <3>2. LastSet(l, d, k)'
      BY <2>1, <2>2, <3>1 DEF LastSet, S
    <3>3. k \in 1..Len(wal') /\ wal'[k].op.value = df'[d]
      BY <1>1, <1>3, <1>4, <3>1 DEF n
    <3> QED BY <3>2, <3>3 DEF Explained
  <2> QED BY <2>5, <2>6, <2>7 DEF Explained
<1>6. Len(wal) <= Len(wal')
  BY <1>3, <1>4 DEF n
<1> QED BY <1>1, <1>3, <1>4, <1>5, <1>6, OnlyFrame DEF n

(* An entry that writes no cell ends what the log explains. *)
LEMMA NoCellKeeps ==
  ASSUME IInv, NEW op \in {BulkInit, Structural}, Log(Logged(op)), df' \in Frames,
         UNCHANGED <<checkpoints, history>>
  PROVE  IInv'
<1> DEFINE entry == Logged(op)
           n == Len(wal)
<1>1. entry \in Entries /\ entry.committed = TRUE /\ entry.op = op /\ op.kind # "set_cell"
  BY DEF Logged, Entries, Ops, BulkInit, Structural
<1>2. TypeOK /\ n \in Nat
  BY TypesAre DEF IInv
<1>3. Log(entry)
  OBVIOUS
<1> HIDE DEF entry
<1>4. /\ wal' \in Seq(Entries) /\ Len(wal') = n + 1 /\ Len(wal') <= MaxLsn
      /\ wal'[n + 1] = entry
      /\ \A l \in Nat : l <= n =>
           CommittedSince(l)' = CommittedSince(l) \cup (IF entry.committed THEN {n + 1} ELSE {})
  BY <1>1, <1>2, <1>3, LogGrows
<1>5. ASSUME NEW l \in Nat, NEW t \in Frames, l <= n PROVE FollowsLog(l, t)'
  <2>1. n + 1 \in CommittedSince(l)'
    BY <1>1, <1>4, <1>5
  <2>2. ~OnlySets(l)'
    BY <1>1, <1>4, <2>1 DEF OnlySets
  <2> QED BY <2>2 DEF FollowsLog
<1>6. Len(wal) <= Len(wal')
  BY <1>2, <1>4 DEF n
<1> QED BY <1>4, <1>5, <1>6, OnlyFrame DEF n

(* Nor does losing columns without a log entry hurt. *)
LEMMA FewerColumnsKeep ==
  ASSUME IInv, UNCHANGED <<wal, checkpoints, history>>, df' \in Frames,
         \A d \in DOMAIN df' : d \in DOMAIN df /\ df'[d] = df[d]
  PROVE  IInv'
<1>1. ASSUME NEW l \in Nat, NEW t \in Frames, l <= Len(wal), FollowsLog(l, t)
      PROVE  FollowsLog(l, t)'
  <2>1. OnlySets(l)' <=> OnlySets(l)
    BY DEF OnlySets, CommittedSince
  <2>2. ASSUME NEW d \in DOMAIN df', Explained(l, t, d) PROVE Explained(l, t, d)'
    BY <2>2 DEF Explained, Unset, LastSet, CommittedSince
  <2> QED BY <1>1, <2>1, <2>2 DEF FollowsLog
<1>2. wal' \in Seq(Entries) /\ Len(wal') <= MaxLsn /\ Len(wal) <= Len(wal')
  BY TypesAre DEF IInv, TypeOK
<1> QED BY <1>1, <1>2, OnlyFrame

LEMMA RollbackKeeps ==
  ASSUME IInv, NEW id \in Ids(checkpoints), Rollback(id)
  PROVE  IInv'
<1> DEFINE s == At(checkpoints, {}, id)
<1>1. /\ s # KeyError /\ df' = s /\ UNCHANGED <<checkpoints, history>>
      /\ IF DOMAIN s = {} THEN UNCHANGED wal ELSE Log(Logged(BulkInit))
  BY DEF Rollback, SnapshotOf, At
<1>2. df' \in Frames
  <2>1. checkpoints \in Seq(CheckpointEntries)
    BY DEF IInv, TypeOK
  <2>2. id \in Refs /\ {} \in SUBSET Labels
    BY <2>1, EntryIs DEF Refs
  <2>3. s \in Results
    BY <2>1, <2>2, SnapshotIs
  <2> QED BY <1>1, <2>3 DEF Results
<1> HIDE DEF s
<1>3. CASE DOMAIN s = {}
  BY <1>1, <1>2, <1>3, FewerColumnsKeep
<1>4. CASE DOMAIN s # {}
  BY <1>1, <1>2, <1>4, NoCellKeeps
<1> QED BY <1>3, <1>4

(***************************************************************************)
(* The theorems.                                                           *)
(***************************************************************************)

LEMMA InitInv == Init => IInv
<1> SUFFICES ASSUME Init PROVE IInv
  OBVIOUS
<1>1. /\ df \in [Seeded -> Values] /\ wal = <<Logged(BulkInit)>> /\ checkpoints = <<>>
      /\ taken = <<>> /\ doubtful = {} /\ calls = 0
  BY DEF Init
<1>2. DOMAIN checkpoints = {} /\ Ids(checkpoints) = {}
  BY <1>1 DEF Ids
<1>3. TypeOK
  <2>1. df \in Frames
    BY <1>1, SeededAreColumns, FramesAre
  <2>2. wal \in Seq(Entries) /\ Len(wal) <= MaxLsn
    <3>1. Logged(BulkInit) \in Entries
      BY DEF Logged, Entries, Ops
    <3> QED BY <1>1, <3>1, SizesAreNat
  <2>3. taken \in [Ids(checkpoints) -> Frames]
    BY <1>1, <1>2
  <2>4. checkpoints \in Seq(CheckpointEntries)
    BY <1>1
  <2>5. Cardinality({i \in DOMAIN checkpoints : checkpoints[i].auto}) <= AutoMax
    <3> DEFINE A == {i \in DOMAIN checkpoints : checkpoints[i].auto}
    <3>1. A = {}
      BY <1>2
    <3> HIDE DEF A
    <3>2. Cardinality(A) = 0 /\ AutoMax \in Nat
      BY <3>1, FS_EmptySet, SizesAreNat
    <3>3. Cardinality(A) <= AutoMax
      BY <3>2
    <3> QED BY <3>3 DEF A
  <2>6. calls \in 0..MaxCalls /\ doubtful \in SUBSET Ids(checkpoints)
    BY <1>1, SizesAreNat
  <2> QED BY <1>2, <2>1, <2>2, <2>3, <2>4, <2>5, <2>6 DEF TypeOK
<1> QED BY <1>2, <1>3 DEF IInv, LogFollowed, ParentsClose, Close, DeltasRestore

LEMMA StepKeeps == IInv /\ [Next]_vars => IInv'
<1> SUFFICES ASSUME IInv, [Next]_vars PROVE IInv'
  OBVIOUS
<1>1. df \in Frames /\ checkpoints \in Seq(CheckpointEntries)
  BY TypesAre DEF IInv, Listed
<1>2. ASSUME NEW c \in Columns, NEW v \in Values, SetColumn(c, v) PROVE IInv'
  BY <1>2, SetColumnKeeps
<1>3. ASSUME NEW c \in Columns, NEW v \in Values, SetColumnFails(c, v) PROVE IInv'
  BY <1>3, SetColumnFailsKeeps
<1>4. ASSUME NEW c \in Columns, NEW v \in Values, InsertColumn(c, v) PROVE IInv'
  <2>1. df' \in Frames
    <3>1. Puts(With(df, c, v), df, c, v)
      BY <1>1, FrameChanges
    <3> QED BY <1>4, <3>1 DEF InsertColumn, Puts
  <2> QED BY <1>4, <2>1, NoCellKeeps DEF InsertColumn
<1>5. ASSUME NEW c \in Columns, DeleteColumn(c) PROVE IInv'
  <2>1. df' \in Frames
    <3>1. Drops(Without(df, c), df, c)
      BY <1>1, FrameChanges
    <3> QED BY <1>5, <3>1 DEF DeleteColumn, Drops
  <2> QED BY <1>5, <2>1, NoCellKeeps DEF DeleteColumn
<1>6. ASSUME NEW c \in Columns, DelItem(c) PROVE IInv'
  <2>1. /\ df' \in Frames /\ DOMAIN df' = DOMAIN df \ {c}
        /\ \A d \in DOMAIN df' : df'[d] = df[d]
    <3>1. Drops(Without(df, c), df, c)
      BY <1>1, FrameChanges
    <3>2. Drops(df', df, c)
      BY <1>6, <3>1 DEF DelItem
    <3> QED BY <3>2 DEF Drops
  <2> QED BY <1>6, <2>1, FewerColumnsKeep DEF DelItem
<1>7. ASSUME NEW id \in Labels, NEW auto \in BOOLEAN, Checkpoint(id, auto) PROVE IInv'
  BY <1>7, CheckpointKeeps
<1>8. ASSUME NEW n \in 0..Cardinality(Labels), NEW named \in BOOLEAN, Prune(n, named) PROVE IInv'
  <2>1. n \in Nat
    BY LabelsAreFinite, FS_CardinalityType
  <2> QED BY <1>8, <2>1, PruneKeeps
<1>9. ASSUME NEW id \in Ids(checkpoints), Rollback(id) PROVE IInv'
  BY <1>9, RollbackKeeps
<1>10. ASSUME UNCHANGED vars PROVE IInv'
  <2>1. UNCHANGED <<wal, checkpoints, history>> /\ df' = df
    BY <1>10 DEF vars
  <2> QED BY <1>1, <2>1, FewerColumnsKeep
<1> QED BY <1>2, <1>3, <1>4, <1>5, <1>6, <1>7, <1>8, <1>9, <1>10 DEF Next

(* The columns, the log, the checkpoints and what the frame was when each was
   taken are what checkpoint(), prune_checkpoints() and rollback() expect: no
   label is listed twice, and no more than AutoMax checkpoints are automatic. *)
THEOREM TypeCorrect == Spec => []TypeOK
<1>1. IInv => TypeOK
  BY DEF IInv
<1> QED BY InitInv, StepKeeps, <1>1, PTL DEF Spec

(* checkpoint_snapshot: a checkpoint outside doubt whose chain is whole restores
   to the values the frame had when it was taken, whatever was written, rolled
   back, pruned and rebased since. *)
THEOREM DeltasAlwaysRestore == Spec => []DeltasRestore
<1>1. IInv => DeltasRestore
  BY DEF IInv
<1> QED BY InitInv, StepKeeps, <1>1, PTL DEF Spec

(***************************************************************************)
(* Pruning to a suffix.                                                    *)
(***************************************************************************)

LEMMA SuffixIds ==
  ASSUME NEW cps, Listed(cps), NEW a \in 0..Len(cps)
  PROVE  Ids(SubSeq(cps, a + 1, Len(cps))) = {cps[i].id : i \in (a + 1)..Len(cps)}
<1> DEFINE m == Len(cps)
           t == SubSeq(cps, a + 1, m)
<1>1. cps \in Seq(CheckpointEntries) /\ m \in Nat /\ DOMAIN cps = 1..m
  BY DEF Listed
<1>2. DOMAIN t = 1..(m - a) /\ \A k \in 1..(m - a) : t[k] = cps[a + k]
  <2>1. \A k \in (a + 1)..m : cps[k] \in CheckpointEntries
    BY <1>1
  <2>2. a \in Nat /\ a <= m /\ a + 1 \in Int /\ m \in Int
    BY <1>1
  <2> HIDE DEF m
  <2>3. /\ t \in Seq(CheckpointEntries)
        /\ Len(t) = IF a + 1 <= m THEN m - (a + 1) + 1 ELSE 0
        /\ \A k \in 1..(m - (a + 1) + 1) : t[k] = cps[(a + 1) + k - 1]
    BY <2>1, <2>2, SubSeqProperties
  <2> HIDE DEF t
  <2>4. Len(t) = m - a /\ DOMAIN t = 1..Len(t) /\ m - (a + 1) + 1 = m - a
    BY <1>1, <2>2, <2>3
  <2>5. \A k \in 1..(m - a) : (a + 1) + k - 1 = a + k
    BY <1>1, <2>2
  <2> QED BY <2>3, <2>4, <2>5
<1> HIDE DEF t, m
<1>3. \A x \in Ids(t) : x \in {cps[i].id : i \in (a + 1)..m}
  <2>1. SUFFICES ASSUME NEW k \in 1..(m - a)
                 PROVE  t[k].id \in {cps[i].id : i \in (a + 1)..m}
    BY <1>2 DEF Ids
  <2>2. a + k \in (a + 1)..m
    BY <1>1
  <2> QED BY <1>2, <2>2
<1>4. ASSUME NEW i \in (a + 1)..m PROVE cps[i].id \in Ids(t)
  <2>1. i - a \in 1..(m - a) /\ a + (i - a) = i
    BY <1>1
  <2>2. t[i - a] = cps[i]
    BY <1>2, <2>1
  <2> QED BY <1>2, <2>1, <2>2 DEF Ids
<1>5. Ids(t) = {cps[i].id : i \in (a + 1)..m}
  BY <1>3, <1>4
<1> QED BY <1>5 DEF t, m

(* Of the places of base, those kept are the last, if what is left of base is a
   suffix of it. *)
LEMMA SuffixKept ==
  ASSUME NEW base, Listed(base), NEW cps, Listed(cps), Len(base) <= Len(cps),
         \A i \in DOMAIN base : base[i].id = cps[i].id,
         NEW new, NEW K, NEW R, NEW s, PrunesTo(new, cps, K, R, s),
         NEW a \in 0..Len(base),
         Ids(new) \cap Ids(base) = Ids(SubSeq(base, a + 1, Len(base)))
  PROVE  \A i \in DOMAIN base : i \in K <=> i >= a + 1
<1> DEFINE m == Len(base)
<1>1. /\ m \in Nat /\ DOMAIN base = 1..m /\ Len(cps) \in Nat /\ DOMAIN cps = 1..Len(cps)
      /\ K \in SUBSET DOMAIN cps
  BY DEF Listed, PrunesTo
<1>2. Ids(new) \cap Ids(base) = {base[i].id : i \in (a + 1)..m}
  BY SuffixIds
<1>3. Ids(new) = {cps[i].id : i \in K}
  BY PrunesToEntries
<1> HIDE DEF m
<1>4. m <= Len(cps)
  BY DEF m
<1>5. SUFFICES ASSUME NEW i \in 1..m PROVE i \in K <=> i >= a + 1
  BY <1>1
<1>6. base[i].id \in Ids(base) /\ base[i].id = cps[i].id /\ i \in DOMAIN cps
  BY <1>1, <1>4 DEF Ids
<1>7. ASSUME i \in K PROVE i >= a + 1
  <2>1. base[i].id \in {base[k].id : k \in (a + 1)..m}
    BY <1>2, <1>3, <1>6, <1>7
  <2>2. PICK k \in (a + 1)..m : base[i].id = base[k].id
    BY <2>1
  <2>3. k \in 1..m
    BY <1>1
  <2>4. i = k
    BY <1>1, <2>2, <2>3 DEF Listed, Distinct
  <2> QED BY <1>1, <2>2, <2>4
<1>8. ASSUME i >= a + 1 PROVE i \in K
  <2>1. i \in (a + 1)..m
    BY <1>1, <1>8
  <2>2. base[i].id \in Ids(new)
    BY <1>2, <2>1
  <2>3. PICK j \in K : cps[i].id = cps[j].id
    BY <1>3, <1>6, <2>2
  <2>4. i = j
    BY <1>1, <1>6, <2>3 DEF Listed, Distinct
  <2> QED BY <2>3, <2>4
<1> QED BY <1>7, <1>8

(* A pruning that leaves a suffix rebases its first checkpoint, and only that
   one's parent is gone. *)
LEMMA SuffixTakesParents ==
  ASSUME NEW cps, Listed(cps), NEW cut \in 1..Len(cps), NEW keep_named,
         NEW a \in 0..Len(cps),
         KeptOf(cps, cut, keep_named) = (a + 1)..Len(cps)
  PROVE  TakesParents(cps, KeptOf(cps, cut, keep_named),
                      Rebased(cps, cut, NamedUpTo(cps, cut, keep_named)))
<1> DEFINE n == Len(cps)
           N == NamedUpTo(cps, cut, keep_named)
           K == KeptOf(cps, cut, keep_named)
           R == Rebased(cps, cut, N)
<1>1. n \in Nat /\ DOMAIN cps = 1..n
  BY DEF Listed
<1>2. /\ N \in SUBSET (1..cut) /\ K = N \cup (cut + 1)..n
      /\ R = IF N # {} THEN N ELSE {cut + 1} \cap 1..n
  BY <1>1 DEF NamedUpTo, KeptOf, Rebased
<1>3. K = (a + 1)..n
  OBVIOUS
<1> HIDE DEF n, N, K, R
<1>4. ASSUME a + 1 \in K PROVE a + 1 \in R
  <2>1. CASE N # {}
    <3>1. PICK x \in N : TRUE
      BY <2>1
    <3>2. x \in 1..cut /\ x \in (a + 1)..n
      BY <1>2, <1>3, <3>1
    <3>3. ~(a + 1 \in (cut + 1)..n)
      BY <1>1, <3>2
    <3> QED BY <1>2, <1>4, <2>1, <3>3
  <2>2. CASE N = {}
    <3>1. a + 1 \in (cut + 1)..n
      BY <1>2, <1>4, <2>2
    <3>2. cut + 1 \in (cut + 1)..n
      BY <1>1, <3>1
    <3>3. cut + 1 \in (a + 1)..n
      BY <1>2, <1>3, <2>2, <3>2
    <3>4. a + 1 = cut + 1 /\ a + 1 \in 1..n
      BY <1>1, <3>1, <3>3
    <3> QED BY <1>2, <2>2, <3>4
  <2> QED BY <2>1, <2>2
<1>5. ASSUME NEW i \in K, i \notin R, NEW j \in 1..n, j >= i - 1 PROVE j \in K
  <2>1. i \in (a + 1)..n /\ i # a + 1
    BY <1>3, <1>4, <1>5
  <2>2. j \in (a + 1)..n
    BY <1>1, <1>5, <2>1
  <2> QED BY <1>3, <2>2
<1>6. TakesParents(cps, K, R)
  BY <1>1, <1>5 DEF TakesParents
<1> QED BY <1>6 DEF K, R, N

LEMMA PruneKeepsSnapshots ==
  ASSUME IInv, NEW keep_last \in Nat, NEW named \in BOOLEAN,
         checkpoints' = Pruned(checkpoints, keep_last, named), LeavesASuffix
  PROVE  KeepsSnapshots
<1> DEFINE new == Pruned(checkpoints, keep_last, named)
           m == Len(checkpoints)
           cut == Cut(checkpoints, keep_last)
<1>1. Listed(checkpoints) /\ Close(checkpoints) /\ m \in Nat /\ DOMAIN checkpoints = 1..m
  BY TypesAre DEF IInv, ParentsClose, Listed
<1>2. SUFFICES ASSUME NEW c \in Ids(new), c \in Ids(checkpoints), At(checkpoints, {}, c) # KeyError
               PROVE  At(new, {}, c) = At(checkpoints, {}, c)
  BY DEF KeepsSnapshots, SnapshotOf, At
<1>3. CASE cut <= 0
  BY <1>3 DEF Pruned, Cut
<1>4. CASE cut > 0
  <2> DEFINE N == NamedUpTo(checkpoints, cut, named)
             K == KeptOf(checkpoints, cut, named)
             R == Rebased(checkpoints, cut, N)
             s == Ascending(K)
  <2>1. PrunesTo(new, checkpoints, K, R, s)
    BY <1>1, <1>4, PrunedIs
  <2>2. cut \in 1..m
    BY <1>1, <1>4 DEF Cut
  <2> HIDE DEF s
  <2>3. PICK a \in 0..m : Ids(new) \cap Ids(checkpoints) = Ids(SubSeq(checkpoints, a + 1, m))
    BY DEF LeavesASuffix
  <2> HIDE DEF cut, new, m
  <2>4. \A i \in 1..m : i \in K <=> i >= a + 1
    <3>1. m <= m /\ \A i \in DOMAIN checkpoints : checkpoints[i].id = checkpoints[i].id
      BY <1>1
    <3> HIDE DEF K, R
    <3> QED BY <1>1, <2>1, <2>3, <3>1, SuffixKept DEF m
  <2>5. K = (a + 1)..m
    <3>1. K \in SUBSET (1..m)
      BY <1>1, <2>1 DEF PrunesTo
    <3> HIDE DEF K
    <3>2. \A i \in K : i \in (a + 1)..m
      BY <1>1, <2>4, <3>1
    <3>3. \A i \in (a + 1)..m : i \in 1..m /\ i >= a + 1
      BY <1>1, <2>3
    <3> QED BY <2>4, <3>2, <3>3
  <2>6. TakesParents(checkpoints, K, R)
    BY <1>1, <2>2, <2>5, SuffixTakesParents DEF m
  <2> HIDE DEF K, R, N
  <2> QED BY <1>1, <1>2, <2>1, <2>6, PruningKeeps
<1>5. cut \in Int
  BY <1>1 DEF Cut
<1> QED BY <1>3, <1>4, <1>5

(* A new label changes no snapshot. *)
LEMMA NewKeepsSnapshots ==
  ASSUME IInv, NEW id \in Labels \ Ids(checkpoints), NEW e \in CheckpointEntries, e.id = id,
         NEW c \in Ids(checkpoints), At(checkpoints, {}, c) # KeyError
  PROVE  At(Put(checkpoints, e), {}, c) = At(checkpoints, {}, c)
<1> DEFINE cps == Put(checkpoints, e)
           S == Ids(checkpoints)
<1>1. /\ Listed(checkpoints) /\ Listed(cps) /\ cps \in Seq(CheckpointEntries)
      /\ checkpoints \in Seq(CheckpointEntries) /\ Ids(cps) = S \cup {id}
  BY TypesAre, PutDoes DEF IInv, Listed
<1>2. \A d \in S : EntryOf(cps, d) = EntryOf(checkpoints, d)
  BY <1>1, PutEntries
<1> HIDE DEF cps
<1>3. Carries(cps, checkpoints, S)
  BY <1>2 DEF Carries, SameEntry, StaysWith
<1>4. S \in SUBSET (Ids(checkpoints) \cap Ids(cps)) /\ {} \in SUBSET Labels
  BY <1>1
<1>5. \A V \in SUBSET Labels : \A d \in S :
        At(checkpoints, V, d) # KeyError => At(cps, V, d) = At(checkpoints, V, d)
  <2> HIDE DEF S
  <2> QED BY <1>1, <1>3, <1>4, CarriedKeep
<1> QED BY <1>4, <1>5 DEF cps

LEMMA CheckpointKeepsSnapshots ==
  ASSUME IInv, NEW id \in Labels \ Ids(checkpoints), Checkpoint(id, TRUE), LeavesASuffix
  PROVE  KeepsSnapshots
<1> DEFINE e == NewEntry(id, TRUE)
           cps == Put(checkpoints, e)
           new == IF OverLimit(cps, TRUE) THEN Pruned(cps, AutoMax, TRUE) ELSE cps
           m == Len(checkpoints)
           n == Len(cps)
           cut == Cut(cps, AutoMax)
<1>1. checkpoints' = new
  BY DEF Checkpoint
<1>2. TypeOK /\ Listed(checkpoints) /\ AutoMax \in Nat
  BY TypesAre, SizesAreNat DEF IInv
<1>3. /\ e \in CheckpointEntries /\ e.id = id /\ e.auto = TRUE
      /\ IsFull(e) \/ (Len(checkpoints) \in DOMAIN checkpoints
                         /\ IsDelta(e, checkpoints[Len(checkpoints)]))
  BY <1>2, NewEntryIs
<1> HIDE DEF e
<1>4. Listed(cps) /\ Close(cps)
  BY <1>2, <1>3, PutDoes, PutClose
<1>5. cps = Append(checkpoints, e) /\ m \in Nat /\ DOMAIN checkpoints = 1..m
  BY <1>2, <1>3 DEF Put, Listed
<1>6. /\ n = m + 1 /\ DOMAIN cps = 1..(m + 1) /\ cps[m + 1] = e
      /\ \A i \in 1..m : cps[i] = checkpoints[i]
  BY <1>2, <1>5 DEF Listed
<1>7. \A c \in Ids(checkpoints) : At(checkpoints, {}, c) # KeyError =>
        At(cps, {}, c) = At(checkpoints, {}, c)
  BY <1>3, NewKeepsSnapshots
<1>8. SUFFICES ASSUME NEW c \in Ids(new), c \in Ids(checkpoints), At(checkpoints, {}, c) # KeyError
               PROVE  At(new, {}, c) = At(cps, {}, c)
  BY <1>1, <1>7 DEF KeepsSnapshots, SnapshotOf, At
<1>9. At(cps, {}, c) # KeyError
  BY <1>7, <1>8
<1> HIDE DEF cps
<1>10. CASE new = cps
  BY <1>10
<1>11. CASE new # cps
  <2>1. cut > 0 /\ new = Pruned(cps, AutoMax, TRUE)
    <3>1. new = Pruned(cps, AutoMax, TRUE)
      BY <1>11
    <3>2. ~(cut <= 0)
      BY <1>11, <3>1 DEF Pruned, Cut
    <3>3. cut \in Int
      BY <1>2, <1>5, <1>6 DEF Cut
    <3> HIDE DEF cut, new
    <3> QED BY <3>1, <3>2, <3>3
  <2> DEFINE N == NamedUpTo(cps, cut, TRUE)
             K == KeptOf(cps, cut, TRUE)
             R == Rebased(cps, cut, N)
             s == Ascending(K)
  <2>2. PrunesTo(new, cps, K, R, s)
    BY <1>2, <1>4, <2>1, PrunedIs
  <2>3. cut \in 1..n /\ cut = n - AutoMax /\ n \in Nat
    BY <1>2, <1>5, <1>6, <2>1 DEF Cut
  <2> HIDE DEF s
  <2>4. PICK a \in 0..m : Ids(new) \cap Ids(checkpoints) = Ids(SubSeq(checkpoints, a + 1, m))
    BY <1>1 DEF LeavesASuffix
  <2> HIDE DEF cut, new, m, n
  <2>5. \A i \in 1..m : i \in K <=> i >= a + 1
    <3>1. m <= n /\ \A i \in DOMAIN checkpoints : checkpoints[i].id = cps[i].id
      BY <1>5, <1>6
    <3> HIDE DEF K, R
    <3> QED BY <1>2, <1>4, <1>5, <2>2, <2>4, <3>1, SuffixKept DEF m, n
  <2>6. K = N \cup (cut + 1)..n /\ K \in SUBSET (1..n)
    BY <1>6, <2>2 DEF KeptOf, PrunesTo, n
  <2>7. CASE n \in K
    <3>1. K = (a + 1)..n
      <4> HIDE DEF K, N
      <4>1. \A i \in K : i \in (a + 1)..n
        <5>1. SUFFICES ASSUME NEW i \in K PROVE i \in (a + 1)..n
          OBVIOUS
        <5>2. i \in 1..n
          BY <2>6
        <5>3. CASE i = n
          BY <1>5, <1>6, <2>4, <5>3
        <5>4. CASE i # n
          <6>1. i \in 1..m
            BY <1>5, <1>6, <5>2, <5>4
          <6> QED BY <1>5, <1>6, <2>5, <5>2, <6>1
        <5> QED BY <5>3, <5>4
      <4>2. \A i \in (a + 1)..n : i = n \/ (i \in 1..m /\ i >= a + 1)
        BY <1>5, <1>6, <2>4
      <4> QED BY <2>5, <2>7, <4>1, <4>2
    <3>2. a \in 0..n
      BY <1>5, <1>6, <2>4
    <3>3. TakesParents(cps, K, R)
      BY <1>4, <2>3, <3>1, <3>2, SuffixTakesParents DEF n
    <3> HIDE DEF K, R, N
    <3> QED BY <1>4, <1>8, <1>9, <2>2, <3>3, PruningKeeps
  <2>8. CASE n \notin K
    <3>1. (cut + 1)..n = {}
      <4>1. ~(cut + 1 <= n)
        <5>1. ASSUME cut + 1 <= n PROVE FALSE
          <6>1. n \in (cut + 1)..n
            BY <2>3, <5>1
          <6> QED BY <2>6, <2>8, <6>1
        <5> QED BY <5>1
      <4> QED BY <2>3, <4>1
    <3>2. K = N
      BY <2>6, <3>1
    <3>3. \A i \in K : i \in R
      BY <3>2 DEF Rebased
    <3>4. TakesParents(cps, K, R)
      BY <3>3 DEF TakesParents
    <3> HIDE DEF K, R, N
    <3> QED BY <1>4, <1>8, <1>9, <2>2, <3>4, PruningKeeps
  <2> QED BY <2>7, <2>8
<1> QED BY <1>10, <1>11

(* prune_checkpoints: where no older checkpoint was kept by name, so that what
   is left is the end of the list, it restores as it did before. *)
THEOREM PruningKeepsSuffix == Spec => PruneKeepsSuffix
<1>1. ASSUME IInv PROVE PrunedPlainly
  <2>1. SUFFICES ASSUME PruneStep, LeavesASuffix PROVE KeepsSnapshots
    BY DEF PrunedPlainly
  <2>2. ASSUME NEW n \in 0..Cardinality(Labels), NEW named \in BOOLEAN, Prune(n, named)
        PROVE  KeepsSnapshots
    <3>1. n \in Nat
      BY LabelsAreFinite, FS_CardinalityType
    <3>2. checkpoints' = Pruned(checkpoints, n, named)
      BY <2>2 DEF Prune
    <3> QED BY <1>1, <2>1, <3>1, <3>2, PruneKeepsSnapshots
  <2>3. ASSUME NEW id \in Labels \ Ids(checkpoints), Checkpoint(id, TRUE)
        PROVE  KeepsSnapshots
    BY <1>1, <2>1, <2>3, CheckpointKeepsSnapshots
  <2> QED BY <2>1, <2>2, <2>3 DEF PruneStep
<1>2. IInv => [PrunedPlainly]_vars
  BY <1>1
<1> QED BY InitInv, StepKeeps, <1>2, PTL DEF Spec, PruneKeepsSuffix

(***************************************************************************)
(* What a checkpoint restores to does not change.                          *)
(***************************************************************************)

(* Rolling back puts the frame where it was when the checkpoint was taken. *)
PutsBack == \A id \in Labels \ doubtful : Rollback(id) => Agree(df', taken[id])

(* A checkpoint may break, by a pruning that takes its parent, and never changes:
   writes, rollbacks, prunings that keep by name or not and checkpoints under
   other labels leave it as it was.  Not so the deltas put in doubt, when the
   label of a parent is used again. *)
OnlyBreaks ==
  \A id \in (Ids(checkpoints) \cap Ids(checkpoints')) \ doubtful' :
    \/ \E auto \in BOOLEAN : Checkpoint(id, auto)
    \/ SnapshotOf(checkpoints', id) \in {KeyError, SnapshotOf(checkpoints, id)}

LEMMA CheckpointOnlyBreaks ==
  ASSUME IInv, NEW id \in Labels, NEW auto \in BOOLEAN, Checkpoint(id, auto)
  PROVE  OnlyBreaks
<1> DEFINE e == NewEntry(id, auto)
           cps == Put(checkpoints, e)
           new == IF OverLimit(cps, auto) THEN Pruned(cps, AutoMax, TRUE) ELSE cps
<1>1. checkpoints' = new /\ doubtful' = Ids(new) \cap Doubt(e, id)
  BY DEF Checkpoint, Doubt, Reused, Over, Deltas
<1>2. TypeOK /\ Listed(checkpoints) /\ AutoMax \in Nat
  BY TypesAre, SizesAreNat DEF IInv
<1>3. e \in CheckpointEntries /\ e.id = id
  BY <1>2, NewEntryIs
<1> HIDE DEF e
<1>4. Listed(cps)
  BY <1>2, <1>3, PutDoes
<1>5. ASSUME NEW c \in Ids(checkpoints), c # id, c \notin Doubt(e, id)
      PROVE  At(cps, {}, c) \in {KeyError, At(checkpoints, {}, c)}
  BY <1>3, <1>5, OthersRestore DEF Doubt
<1> HIDE DEF cps
<1>6. Descends(new, cps)
  BY <1>2, <1>4, DescendsFrom
<1> HIDE DEF new
<1>7. SUFFICES ASSUME NEW c \in Ids(checkpoints), c \in Ids(new), c \notin Doubt(e, id), c # id
               PROVE  At(new, {}, c) \in {KeyError, At(checkpoints, {}, c)}
  BY <1>1 DEF OnlyBreaks, SnapshotOf, At
<1>8. At(cps, {}, c) \in {KeyError, At(checkpoints, {}, c)}
  BY <1>5, <1>7
<1>9. At(new, {}, c) \in {KeyError, At(cps, {}, c)}
  BY <1>6, <1>7 DEF Descends
<1> QED BY <1>8, <1>9

(* A call that is not a checkpoint under its own label leaves a checkpoint what
   it restores to, or takes it. *)
THEOREM SnapshotsNeverChange == Spec => [][OnlyBreaks]_vars
<1>1. ASSUME IInv, Next PROVE OnlyBreaks
  <2>1. CASE checkpoints' = checkpoints
    BY <2>1 DEF OnlyBreaks
  <2>2. ASSUME NEW id \in Labels, NEW auto \in BOOLEAN, Checkpoint(id, auto)
        PROVE  OnlyBreaks
    BY <1>1, <2>2, CheckpointOnlyBreaks
  <2>3. ASSUME NEW n \in 0..Cardinality(Labels), NEW named \in BOOLEAN, Prune(n, named)
        PROVE  OnlyBreaks
    <3>1. n \in Nat /\ Listed(checkpoints)
      BY <1>1, LabelsAreFinite, FS_CardinalityType, TypesAre DEF IInv
    <3>2. Descends(checkpoints', checkpoints)
      BY <2>3, <3>1, DescendsFrom DEF Prune
    <3> QED BY <3>2 DEF Descends, OnlyBreaks, SnapshotOf, At
  <2> QED
    BY <1>1, <2>1, <2>2, <2>3
       DEF Next, SetColumn, SetColumnFails, InsertColumn, DeleteColumn, DelItem, Rollback
<1>2. IInv /\ [Next]_vars => [OnlyBreaks]_vars
  BY <1>1
<1> QED BY InitInv, StepKeeps, <1>2, PTL DEF Spec

(* rollback to a checkpoint outside doubt makes the columns it restores what they
   were when checkpoint() was called. *)
THEOREM RollbackPutsBack == Spec => [][PutsBack]_vars
<1>1. ASSUME IInv PROVE PutsBack
  <2>1. SUFFICES ASSUME NEW id \in Labels \ doubtful, Rollback(id)
                 PROVE  Agree(df', taken[id])
    BY DEF PutsBack
  <2>2. At(checkpoints, {}, id) # KeyError /\ df' = At(checkpoints, {}, id)
    BY <2>1 DEF Rollback, SnapshotOf, At
  <2>3. id \in Ids(checkpoints)
    <3>1. checkpoints \in Seq(CheckpointEntries) /\ id \in Refs /\ {} \in SUBSET Labels
      BY <1>1 DEF IInv, TypeOK, Refs
    <3> QED BY <2>2, <3>1, SnapshotIs
  <2>4. Restores(checkpoints, taken, doubtful)
    BY <1>1, RestoresIs DEF IInv
  <2> QED BY <2>2, <2>3, <2>4 DEF Restores
<1>2. IInv => [PutsBack]_vars
  BY <1>1
<1> QED BY InitInv, StepKeeps, <1>2, PTL DEF Spec
=============================================================================
