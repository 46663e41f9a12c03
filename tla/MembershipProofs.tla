-------------------------- MODULE MembershipProofs --------------------------
(***************************************************************************)
(* Proofs about Membership, for any writers, readers, weights and bounds:  *)
(* the partition map is that of the healthy writers, the heartbeat         *)
(* manager's memory does not lose a node the registry does not hold        *)
(* healthy, and the ranges of a map share every slot out, to one writer    *)
(* each, leaving none of them without.  At the end, about Leadership: a    *)
(* node that accepts writes was made a leader and announces it.            *)
(***************************************************************************)
EXTENDS Membership, NaturalLemmas, FiniteSetTheorems, TLAPS

(* The part of TypeOK the proofs need: everything but the ranges. *)
Typed ==
  /\ status \in [Nodes -> Statuses \cup {"absent"}]
  /\ age \in [Nodes -> 0..2]
  /\ known \in [Nodes -> Statuses]
  /\ todo \subseteq Nodes \X (0..2)
  /\ telling \in (Nodes \X Statuses) \cup {Nobody}

(* While watchers are told of a transition, the registry has its outcome, unless
   the node was registered again meanwhile. *)
TellsWhatIs ==
  \A n \in Nodes, s \in Statuses : telling = <<n, s>> => status[n] \in {s, "healthy"}

Inv == Typed /\ HealthyOwn /\ StatusIsKnown /\ TellsWhatIs

LEMMA InvInit == Init => Inv
<1> SUFFICES ASSUME Init PROVE Inv
  OBVIOUS
<1>1. Typed
  BY DEF Init, Typed, Statuses
<1>2. HealthyOwn
  <2>1. Healthy(status) = {Me} \cap Writers
    BY DEF Init, Healthy, Nodes
  <2> QED BY <2>1 DEF HealthyOwn, Init
<1>3. StatusIsKnown
  BY DEF StatusIsKnown, Init
<1>4. TellsWhatIs
  BY NobodyIsNone DEF TellsWhatIs, Init
<1> QED BY <1>1, <1>2, <1>3, <1>4 DEF Inv

(* A rebalance makes the map that of the healthy writers; without one there must
   be no change among them. *)
LEMMA Rebalanced ==
  ASSUME HealthyOwn,
         \/ Rebalance(status')
         \/ UNCHANGED <<range, map>> /\ Healthy(status') = Healthy(status)
  PROVE  HealthyOwn'
BY DEF HealthyOwn, Rebalance, Healthy

(* Readers are not among the writers' shares. *)
LEMMA ReadersOwnNothing ==
  ASSUME Typed, NEW n \in Nodes \ Writers, NEW s, status' = [status EXCEPT ![n] = s]
  PROVE  Healthy(status') = Healthy(status)
BY DEF Typed, Healthy, Nodes

(* Steps that change neither a status nor what is remembered or told. *)
LEMMA Unmoved ==
  ASSUME Inv, UNCHANGED <<status, map, known, telling>>, Typed'
  PROVE  Inv'
<1>1. HealthyOwn'
  BY DEF Inv, HealthyOwn, Healthy
<1> QED BY <1>1 DEF Inv, StatusIsKnown, TellsWhatIs

LEMMA RegisterKeeps ==
  ASSUME Inv, NEW n \in Nodes, Register(n)
  PROVE  Inv'
<1> USE DEF Inv
<1>1. /\ status' = [status EXCEPT ![n] = "healthy"]
      /\ age' = [age EXCEPT ![n] = 0]
      /\ UNCHANGED <<known, todo, telling>>
  BY DEF Register, manager
<1>2. Typed'
  BY <1>1 DEF Typed, Statuses
<1>3. HealthyOwn'
  BY <1>1, Rebalanced, ReadersOwnNothing DEF Register
<1>4. \A q \in Nodes : status'[q] = status[q] \/ status'[q] = "healthy"
  BY <1>1 DEF Typed
<1>5. StatusIsKnown' /\ TellsWhatIs'
  BY <1>1, <1>4 DEF StatusIsKnown, TellsWhatIs
<1> QED BY <1>2, <1>3, <1>5

LEMMA TransitionKeeps ==
  ASSUME Inv, NEW n \in Nodes, NEW s \in Statuses, telling = Nobody,
         Transition(n, s), known' = known, todo' \subseteq todo
  PROVE  Inv'
<1> USE DEF Inv
<1>1. CASE known[n] = s
  <2>1. UNCHANGED <<status, map, age, telling>>
    BY <1>1 DEF Transition, registry
  <2>2. Typed'
    BY <2>1 DEF Typed
  <2> QED BY <2>1, <2>2, Unmoved
<1>2. CASE known[n] # s
  <2>1. Mark(n, s) /\ telling' = <<n, s>>
    BY <1>2 DEF Transition
  <2>2. \A q \in Nodes : status'[q] = IF q = n THEN s ELSE status[q]
    BY <2>1 DEF Mark, registry, Typed
  <2>3. Typed'
    BY <2>1 DEF Mark, registry, Typed
  <2>4. HealthyOwn'
    <3>1. CASE UNCHANGED registry
      BY <3>1, Rebalanced DEF registry
    <3>2. CASE status' = [status EXCEPT ![n] = s] /\ MovesRows(n, s) /\ Rebalance(status')
      BY <3>2, Rebalanced
    <3>3. CASE status' = [status EXCEPT ![n] = s] /\ ~MovesRows(n, s) /\ UNCHANGED <<range, map>>
      BY <3>3, Rebalanced, ReadersOwnNothing DEF MovesRows
    <3> QED BY <2>1, <3>1, <3>2, <3>3 DEF Mark
  <2>5. StatusIsKnown'
    <3>1. ASSUME NEW q \in Nodes, q # n, status[q] \in {"suspect", "failed"}
          PROVE  known[q] = status[q]
      <4>1. telling # <<q, status[q]>>
        BY <3>1, NobodyIsNone DEF Statuses
      <4> QED BY <3>1, <4>1 DEF StatusIsKnown
    <3> QED BY <2>1, <2>2, <3>1 DEF StatusIsKnown
  <2>6. TellsWhatIs'
    BY <2>1, <2>2 DEF TellsWhatIs
  <2> QED BY <2>3, <2>4, <2>5, <2>6
<1> QED BY <1>1, <1>2

LEMMA JudgeKeeps ==
  ASSUME Inv, NEW x \in todo, Judge(x)
  PROVE  Inv'
<1>1. x[1] \in Nodes /\ telling = Nobody /\ known' = known /\ todo' \subseteq todo
  BY DEF Judge, Inv, Typed
<1>2. CASE \E s \in Statuses : Transition(x[1], s)
  BY <1>1, <1>2, TransitionKeeps
<1>3. CASE UNCHANGED <<registry, telling>>
  <2>1. Typed'
    BY <1>1, <1>3 DEF Inv, Typed, registry
  <2> QED BY <1>1, <1>3, <2>1, Unmoved DEF registry
<1>4. {"healthy", "suspect", "failed"} \subseteq Statuses
  BY DEF Statuses
<1> QED BY <1>2, <1>3, <1>4 DEF Judge

LEMMA ToldKeeps ==
  ASSUME Inv, Told
  PROVE  Inv'
<1> USE DEF Inv
<1>1. PICK n \in Nodes, s \in Statuses : telling = <<n, s>>
  BY DEF Told, Typed
<1>2. /\ known' = [known EXCEPT ![n] = s] /\ telling' = Nobody
      /\ UNCHANGED <<status, age, map, todo>>
  BY <1>1 DEF Told, Remember, registry
<1>3. Typed'
  BY <1>2 DEF Typed
<1>4. HealthyOwn'
  BY <1>2 DEF HealthyOwn, Healthy
<1>5. StatusIsKnown'
  <2>1. ASSUME NEW q \in Nodes, status[q] \in {"suspect", "failed"}
        PROVE  known'[q] = status[q]
    <3>1. CASE q = n
      <4>1. status[n] = s
        BY <1>1, <2>1, <3>1 DEF TellsWhatIs
      <4> QED BY <1>2, <3>1, <4>1 DEF Typed
    <3>2. CASE q # n
      <4>1. telling # <<q, status[q]>>
        BY <1>1, <3>2
      <4> QED BY <1>2, <2>1, <3>2, <4>1 DEF StatusIsKnown, Typed
    <3> QED BY <3>1, <3>2
  <2> QED BY <1>2, <2>1 DEF StatusIsKnown
<1>6. TellsWhatIs'
  BY <1>2, NobodyIsNone DEF TellsWhatIs
<1> QED BY <1>3, <1>4, <1>5, <1>6

LEMMA InvStep == Inv /\ [Next]_vars => Inv'
<1> SUFFICES ASSUME Inv, [Next]_vars PROVE Inv'
  OBVIOUS
<1>1. ASSUME NEW n \in Nodes,
             Silence(n) \/ Return(n) \/ Ages(n) \/ Beat(n) \/ DebounceEnds(n)
      PROVE  Inv'
  <2>1. UNCHANGED <<status, map, known, telling, todo>>
    BY <1>1 DEF Silence, Return, Ages, Beat, DebounceEnds, registry, manager
  <2>2. age' \in [Nodes -> 0..2]
    BY <1>1 DEF Silence, Return, Ages, Beat, DebounceEnds, registry, Inv, Typed
  <2>3. Typed'
    BY <2>1, <2>2 DEF Inv, Typed
  <2> QED BY <2>1, <2>3, Unmoved
<1>2. ASSUME NEW n \in Nodes, Register(n) PROVE Inv'
  BY <1>2, RegisterKeeps
<1>3. ASSUME NEW ws \in SUBSET Writers \ {{}}, RouteUpdate(ws) PROVE Inv'
  <2>1. UNCHANGED <<status, age, known, telling, todo>>
    BY <1>3 DEF RouteUpdate, manager
  <2>2. map' = map \/ map' = [of |-> ws, by |-> "leader"]
    BY <1>3 DEF RouteUpdate
  <2>3. HealthyOwn'
    BY <2>1, <2>2 DEF Inv, HealthyOwn, Healthy
  <2> QED BY <2>1, <2>3 DEF Inv, Typed, StatusIsKnown, TellsWhatIs
<1>4. CASE BeginRound
  <2>1. UNCHANGED <<status, age, map, known, telling>>
    BY <1>4 DEF BeginRound, registry
  <2>2. todo' \subseteq Nodes \X (0..2)
    BY <1>4 DEF BeginRound, Candidates, Inv, Typed
  <2>3. Typed'
    BY <2>1, <2>2 DEF Inv, Typed
  <2> QED BY <2>1, <2>3, Unmoved
<1>5. ASSUME NEW x \in todo, Judge(x) PROVE Inv'
  BY <1>5, JudgeKeeps
<1>6. CASE Told
  BY <1>6, ToldKeeps
<1>7. CASE UNCHANGED vars
  <2>1. Typed'
    BY <1>7 DEF vars, Inv, Typed
  <2> QED BY <1>7, <2>1, Unmoved DEF vars
<1> QED BY <1>1, <1>2, <1>3, <1>4, <1>5, <1>6, <1>7 DEF Next

LEMMA Invariant == Spec => []Inv
BY InvInit, InvStep, PTL DEF Spec

(* A node the registry holds suspected or failed is remembered so by the heartbeat
   manager, or its watchers are being told. *)
THEOREM StatusStaysKnown == Spec => []StatusIsKnown
<1>1. Inv => StatusIsKnown
  BY DEF Inv
<1> QED BY <1>1, Invariant, PTL

(* Unless the leader's map came since, the rows are shared among the healthy
   writers, whatever was registered, judged and told in between. *)
THEOREM HealthyAlwaysOwn == Spec => []HealthyOwn
<1>1. Inv => HealthyOwn
  BY DEF Inv
<1> QED BY <1>1, Invariant, PTL

-----------------------------------------------------------------------------
(* The ranges of the rows.  First the operators of the library the shares are
   computed with. *)
LEMMA FiniteIsBounded ==
  ASSUME NEW S \in SUBSET Nat, IsFiniteSet(S)
  PROVE  \E n \in Nat : \A x \in S : x <= n
<1>1. Cardinality(S) \in Nat /\ ExistsBijection(1..Cardinality(S), S)
  BY FS_CardinalityType
<1> DEFINE k == Cardinality(S)
<1> HIDE DEF k
<1>2. k \in Nat /\ ExistsBijection(1..k, S)
  BY <1>1 DEF k
<1>3. PICK f \in [1..k -> S] : \A x \in S : \E i \in 1..k : f[i] = x
  BY <1>2 DEF ExistsBijection, Bijection, Surjection
<1> DEFINE P == {i \in 0..k : \E n \in Nat : \A j \in 1..i : f[j] <= n}
<1>4. 0 \in P
  BY <1>2
<1>5. ASSUME NEW i \in 0..(k - 1), i \in P PROVE i + 1 \in P
  <2>1. PICK n \in Nat : \A j \in 1..i : f[j] <= n
    BY <1>5
  <2>2. i + 1 \in 1..k /\ i + 1 \in 0..k
    BY <1>2
  <2>3. f[i + 1] \in Nat
    BY <2>2
  <2>4. PICK m \in Nat : m >= n /\ m >= f[i + 1]
    <3>1. CASE n >= f[i + 1]
      BY <3>1
    <3>2. CASE f[i + 1] >= n
      BY <2>3, <3>2
    <3> QED BY <2>3, <3>1, <3>2
  <2>5. ASSUME NEW j \in 1..(i + 1) PROVE f[j] <= m
    <3>1. CASE j = i + 1
      BY <2>3, <2>4, <3>1
    <3>2. CASE j \in 1..i
      <4>1. j \in 1..k
        BY <1>2, <3>2
      <4>2. f[j] \in Nat
        BY <4>1
      <4> QED BY <2>1, <2>4, <3>2, <4>2
    <3> QED BY <3>1, <3>2
  <2> QED BY <2>2, <2>5
<1>6. k \in P
  <2> HIDE DEF P
  <2>1. \A i \in 0..k : i \in P
    BY <1>2, <1>4, <1>5, InductionUpTo
  <2> QED BY <1>2, <2>1
<1>7. PICK n \in Nat : \A j \in 1..k : f[j] <= n
  BY <1>6
<1> QED BY <1>3, <1>7

LEMMA MaxIs ==
  ASSUME NEW S \in SUBSET Nat, IsFiniteSet(S), S # {}
  PROVE  Max(S) \in S /\ \A x \in S : Max(S) >= x
<1>1. PICK n \in Nat : \A x \in S : x <= n
  BY FiniteIsBounded
<1>2. S \in SUBSET (0..n)
  BY <1>1
<1>3. \E x \in S : \A y \in S : x >= y
  BY <1>2, HasLargest
<1> QED BY <1>3 DEF Max

LEMMA MinOfTwo ==
  ASSUME NEW a \in Int, NEW b \in Int
  PROVE  Min({a, b}) = IF a <= b THEN a ELSE b
<1>1. \E x \in {a, b} : \A y \in {a, b} : x <= y
  OBVIOUS
<1>2. Min({a, b}) \in {a, b} /\ Min({a, b}) <= a /\ Min({a, b}) <= b
  BY <1>1 DEF Min
<1> QED BY <1>2

(* A sum over a finite set, the library's recursion over its subsets. *)
LEMMA SumIsNat ==
  ASSUME NEW S, IsFiniteSet(S), NEW f, \A x \in S : f[x] \in Nat
  PROVE  SumFunctionOnSet(f, S) \in Nat
<1> DEFINE D == SUBSET S
           r == [s \in D |-> Cardinality(s)]
           pick(s) == CHOOSE x \in s : TRUE
           F == [g \in [D -> Nat] |->
                   [s \in D |-> IF s = {} THEN 0 ELSE f[pick(s)] + g[s \ {pick(s)}]]]
<1>1. \A s \in D : IsFiniteSet(s) /\ Cardinality(s) \in 0..Cardinality(S)
  BY FS_Subset, FS_CardinalityType
<1>2. \A s \in D : s # {} => /\ pick(s) \in S /\ s \ {pick(s)} \in D
                            /\ Cardinality(s \ {pick(s)}) < Cardinality(s)
  <2>1. SUFFICES ASSUME NEW s \in D, s # {}
                 PROVE  /\ pick(s) \in S /\ s \ {pick(s)} \in D
                        /\ Cardinality(s \ {pick(s)}) < Cardinality(s)
    OBVIOUS
  <2>2. pick(s) \in s
    BY <2>1
  <2>3. Cardinality(s \ {pick(s)}) = Cardinality(s) - 1
    BY <1>1, <2>2, FS_RemoveElement
  <2>4. Cardinality(s) \in Nat
    BY <1>1, FS_CardinalityType
  <2> QED BY <2>2, <2>3, <2>4
<1>3. r \in [D -> 0..Cardinality(S)] /\ Cardinality(S) \in Nat
  BY <1>1, FS_CardinalityType
<1> DEFINE c == Cardinality(S)
<1> HIDE DEF c
<1>0. c = Cardinality(S) /\ c \in Nat /\ r \in [D -> 0..c]
  BY <1>3 DEF c
<1>4. F \in [[D -> Nat] -> [D -> Nat]]
  <2> HIDE DEF pick, D
  <2>1. ASSUME NEW g \in [D -> Nat], NEW s \in D, s # {} PROVE f[pick(s)] + g[s \ {pick(s)}] \in Nat
    BY <1>2, <2>1
  <2> QED BY <2>1
<1>5. CallsLess(F, D, Nat, r)
  <2>1. SUFFICES ASSUME NEW g \in [D -> Nat], NEW h \in [D -> Nat], NEW s \in D,
                        \A y \in D : r[y] < r[s] => g[y] = h[y]
                 PROVE  F[g][s] = F[h][s]
    BY DEF CallsLess
  <2> HIDE DEF pick, D
  <2>2. CASE s = {}
    BY <2>2
  <2>3. CASE s # {}
    BY <1>2, <2>1, <2>3
  <2> QED BY <2>2, <2>3
<1>6. PICK g \in [D -> Nat] : g = F[g]
  <2> DEFINE V == Nat
  <2>1. V # {} /\ F \in [[D -> V] -> [D -> V]] /\ CallsLess(F, D, V, r)
    BY <1>4, <1>5
  <2> HIDE DEF D, r, F, V
  <2>2. HasFixedPoint(F, D, V)
    BY <1>0, <2>1, RecursionByRank
  <2> QED BY <2>2 DEF V, HasFixedPoint
<1> DEFINE Rec(g0) == g0 = [s \in D |-> IF s = {} THEN 0 ELSE f[pick(s)] + g0[s \ {pick(s)}]]
<1>7. Rec(g)
  BY <1>6
<1> DEFINE iter == CHOOSE g0 : Rec(g0)
<1>8. Rec(iter)
  BY <1>7
<1>9. SumFunctionOnSet(f, S) = iter[S]
  BY DEF SumFunctionOnSet, FoldFunctionOnSet, MapThenFoldSet
<1>10. \A s \in D : iter[s] = IF s = {} THEN 0 ELSE f[pick(s)] + iter[s \ {pick(s)}]
  <2> HIDE DEF iter, pick
  <2> QED BY <1>8
<1> HIDE DEF iter
<1> DEFINE P == {k \in 0..c : \A s \in D : Cardinality(s) <= k => iter[s] \in Nat}
<1>11. 0 \in P
  <2>1. \A s \in D : Cardinality(s) <= 0 => s = {}
    BY <1>1, FS_EmptySet
  <2>2. iter[{}] = 0
    BY <1>10
  <2> HIDE DEF D
  <2>3. \A s \in D : Cardinality(s) <= 0 => iter[s] \in Nat
    BY <2>1, <2>2
  <2> QED BY <1>0, <2>3
<1>12. ASSUME NEW k \in 0..(c - 1), k \in P PROVE k + 1 \in P
  <2>1. ASSUME NEW s \in D, Cardinality(s) <= k + 1 PROVE iter[s] \in Nat
    <3>1. CASE s = {}
      <4> HIDE DEF pick, P, F
      <4>1. iter[s] = 0
        BY <1>10, <3>1
      <4> QED BY <4>1
    <3>2. CASE s # {}
      <4> HIDE DEF pick
      <4>1. Cardinality(s) \in Nat /\ Cardinality(s \ {pick(s)}) \in Nat
        BY <1>1, <1>2, <3>2
      <4>2. Cardinality(s \ {pick(s)}) <= k
        BY <1>2, <2>1, <3>2, <4>1
      <4>3. iter[s \ {pick(s)}] \in Nat
        BY <1>2, <1>12, <3>2, <4>2
      <4>4. f[pick(s)] \in Nat
        BY <1>2, <3>2
      <4>5. iter[s] = f[pick(s)] + iter[s \ {pick(s)}]
        BY <1>10, <3>2
      <4> QED BY <4>3, <4>4, <4>5
    <3> QED BY <3>1, <3>2
  <2> HIDE DEF D
  <2> QED BY <1>0, <2>1
<1>13. c \in P
  <2> HIDE DEF P
  <2>1. \A k \in 0..c : k \in P
    BY <1>0, <1>11, <1>12, InductionUpTo
  <2> QED BY <1>0, <2>1
<1>14. S \in D /\ Cardinality(S) <= c
  BY <1>0
<1> QED BY <1>9, <1>13, <1>14

LEMMA ShareIsPositive ==
  ASSUME NEW ws \in SUBSET Writers, NEW w \in ws
  PROVE  Share(w, ws) \in Nat \ {0}
<1> DEFINE sum == SumFunctionOnSet(Weight, ws)
           total == IF sum = 0 THEN Cardinality(ws) ELSE sum
           a == Weight[w] * Total
<1>1. sum \in Nat
  <2>1. IsFiniteSet(ws) /\ \A x \in ws : Weight[x] \in Nat
    BY SlotsSuffice, WeightsAreNat, FS_Subset
  <2> QED BY <2>1, SumIsNat
<1>2. Cardinality(ws) \in Nat /\ Cardinality(ws) # 0
  BY SlotsSuffice, FS_Subset, FS_CardinalityType, FS_EmptySet
<1>3. a \in Nat
  <2>1. Weight[w] \in Nat /\ Total \in Nat
    BY WeightsAreNat, SlotsSuffice
  <2> QED BY <2>1
<1> HIDE DEF sum
<1>4. total \in Nat /\ total > 0
  BY <1>1, <1>2
<1> HIDE DEF total, a
<1>5. Rounded(a, total) \in Nat
  <2>1. a \div total \in Nat
    BY <1>3, <1>4
  <2> QED BY <2>1 DEF Rounded
<1>6. Share(w, ws) = IF Rounded(a, total) = 0 THEN 1 ELSE Rounded(a, total)
  BY DEF Share, total, sum, a
<1> QED BY <1>5, <1>6

(* The writers on either side of w, and where its range begins. *)
Before(w, ws) == {v \in ws : v < w}
After(w, ws) == {v \in ws : v > w}
Start(w, ws) == IF Before(w, ws) = {} THEN 0 ELSE Ends(ws)[Max(Before(w, ws))]

LEMMA PreviousIs ==
  ASSUME NEW ws \in SUBSET Writers, NEW w \in ws, Before(w, ws) # {}
  PROVE  LET p == Max(Before(w, ws))
         IN /\ p \in ws /\ p < w
            /\ \A v \in ws : v < w => v <= p
<1>1. IsFiniteSet(Before(w, ws)) /\ Before(w, ws) \in SUBSET Nat
  BY SlotsSuffice, RolesDisjoint, FS_Subset DEF Before, Nodes
<1>2. /\ Max(Before(w, ws)) \in Before(w, ws)
      /\ \A v \in Before(w, ws) : Max(Before(w, ws)) >= v
  BY <1>1, MaxIs
<1>3. \A v \in ws : v \in Nat
  BY RolesDisjoint DEF Nodes
<1> QED BY <1>2, <1>3 DEF Before

(* The ends are what their recursion says: each asks for that of the writer before. *)
LEMMA EndsAre ==
  ASSUME NEW ws \in SUBSET Writers
  PROVE  \A w \in ws :
           Ends(ws)[w] =
             IF After(w, ws) = {} THEN Total
             ELSE Start(w, ws)
                  + Min({Share(w, ws), Total - Start(w, ws) - Cardinality(After(w, ws))})
<1> DEFINE From(e, w) == IF Before(w, ws) = {} THEN 0 ELSE e[Max(Before(w, ws))]
           Take(s, w) == IF After(w, ws) = {} THEN Total
                         ELSE s + Min({Share(w, ws), Total - s - Cardinality(After(w, ws))})
           V == Int
           F == [e \in [ws -> V] |-> [w \in ws |-> Take(From(e, w), w)]]
           r == [w \in ws |-> w]
<1>1. PICK n \in Nat : \A x \in Writers : x <= n
  <2>1. Writers \in SUBSET Nat
    BY RolesDisjoint DEF Nodes
  <2> QED BY <2>1, SlotsSuffice, FiniteIsBounded
<1>2. r \in [ws -> 0..n]
  BY <1>1, RolesDisjoint DEF Nodes
<1>3. ASSUME NEW e \in [ws -> V], NEW w \in ws PROVE From(e, w) \in V
  BY PreviousIs
<1>4. ASSUME NEW s \in Int, NEW w \in ws PROVE Take(s, w) \in Int
  <2>1. Cardinality(After(w, ws)) \in Nat
    BY SlotsSuffice, FS_Subset, FS_CardinalityType DEF After
  <2> DEFINE c == Cardinality(After(w, ws))
             sh == Share(w, ws)
  <2>2. sh \in Int /\ Total - s - c \in Int /\ Total \in Int
    BY <2>1, ShareIsPositive, SlotsSuffice
  <2> HIDE DEF sh, c
  <2>3. Min({sh, Total - s - c}) \in Int
    BY <2>2, MinOfTwo
  <2> QED BY <2>2, <2>3 DEF sh, c
<1> HIDE DEF Take
<1>5. F \in [[ws -> V] -> [ws -> V]]
  BY <1>3, <1>4
<1>6. CallsLess(F, ws, V, r)
  <2>1. SUFFICES ASSUME NEW g \in [ws -> V], NEW h \in [ws -> V], NEW w \in ws,
                        \A y \in ws : r[y] < r[w] => g[y] = h[y]
                 PROVE  F[g][w] = F[h][w]
    BY DEF CallsLess
  <2>2. From(g, w) = From(h, w)
    BY <2>1, PreviousIs
  <2> QED BY <2>2
<1>7. HasFixedPoint(F, ws, V)
  <2>1. V # {}
    OBVIOUS
  <2> HIDE DEF F, V, r
  <2> QED BY <1>1, <1>2, <1>5, <1>6, <2>1, RecursionByRank
<1> DEFINE Rec(e) == e = [w \in ws |-> Take(From(e, w), w)]
<1>8. \E e : Rec(e)
  BY <1>7 DEF HasFixedPoint
<1>9. Ends(ws) = CHOOSE e : Rec(e)
  BY DEF Ends, Take, Before, After
<1>10. Rec(Ends(ws))
  <2> HIDE DEF Rec
  <2> QED BY <1>8, <1>9
<1>11. \A w \in ws : Ends(ws)[w] = Take(From(Ends(ws), w), w)
  <2> HIDE DEF From
  <2> QED BY <1>10
<1> QED BY <1>11 DEF Take, Start

(* The range of w begins where those of the writers before it are over, holds a
   slot, and leaves one for each of the writers that follow. *)
Follows(w, ws) ==
  /\ Start(w, ws) \in Nat /\ Ends(ws)[w] \in Nat
  /\ Start(w, ws) < Ends(ws)[w]
  /\ Ends(ws)[w] <= Total - Cardinality(After(w, ws))
  /\ \A v \in ws : v < w => Ends(ws)[v] <= Start(w, ws)

LEMMA OneFollows ==
  ASSUME NEW ws \in SUBSET Writers, NEW w \in ws, \A v \in ws : v < w => Follows(v, ws)
  PROVE  Follows(w, ws)
<1>1. \A v \in ws : v \in Nat /\ IsFiniteSet(After(v, ws)) /\ Cardinality(After(v, ws)) \in Nat
  BY RolesDisjoint, SlotsSuffice, FS_Subset, FS_CardinalityType DEF Nodes, After
<1> DEFINE c == Cardinality(After(w, ws))
<1>2. /\ Start(w, ws) \in Nat /\ Start(w, ws) + c + 1 <= Total
      /\ \A v \in ws : v < w => Ends(ws)[v] <= Start(w, ws)
  <2>1. CASE Before(w, ws) = {}
    <3>1. Start(w, ws) = 0 /\ \A v \in ws : ~(v < w)
      BY <2>1 DEF Start, Before
    <3>2. ws = After(w, ws) \cup {w} /\ w \notin After(w, ws)
      <4>1. ~(w > w) /\ \A v \in ws : v = w \/ v > w
        BY <1>1, <3>1
      <4> QED BY <4>1 DEF After
    <3>3. Cardinality(ws) = c + 1
      BY <1>1, <3>2, FS_AddElement
    <3>4. Cardinality(ws) <= Cardinality(Writers) /\ Cardinality(Writers) \in Nat
      BY SlotsSuffice, FS_Subset, FS_CardinalityType
    <3>5. c + 1 <= Total
      BY <1>1, <3>3, <3>4, SlotsSuffice
    <3> QED BY <1>1, <3>1, <3>5
  <2>2. CASE Before(w, ws) # {}
    <3> DEFINE p == Max(Before(w, ws))
    <3>1. p \in ws /\ p < w /\ \A v \in ws : v < w => v <= p
      BY <2>2, PreviousIs
    <3>2. Start(w, ws) = Ends(ws)[p]
      BY <2>2 DEF Start
    <3> HIDE DEF p
    <3>3. Follows(p, ws)
      BY <3>1
    <3>4. After(p, ws) = After(w, ws) \cup {w} /\ w \notin After(w, ws)
      <4>1. ~(w > w) /\ w > p
        BY <1>1, <3>1
      <4>2. \A v \in ws : v > p <=> v = w \/ v > w
        <5>1. ASSUME NEW v \in ws PROVE v > p <=> v = w \/ v > w
          <6>1. v \in Nat /\ w \in Nat /\ p \in Nat /\ (v < w => v <= p) /\ p < w
            BY <1>1, <3>1
          <6> QED BY <6>1
        <5> QED BY <5>1
      <4> QED BY <4>1, <4>2 DEF After
    <3>5. Cardinality(After(p, ws)) = c + 1
      BY <1>1, <3>4, FS_AddElement
    <3>6. Start(w, ws) + c + 1 <= Total
      BY <1>1, <3>2, <3>3, <3>5, SlotsSuffice DEF Follows
    <3>7. ASSUME NEW v \in ws, v < w PROVE Ends(ws)[v] <= Start(w, ws)
      <4>1. CASE v = p
        BY <3>2, <3>3, <4>1 DEF Follows
      <4>2. CASE v # p
        <5>1. v < p
          BY <1>1, <3>1, <3>7, <4>2
        <5>2. Ends(ws)[v] <= Start(p, ws) /\ Start(p, ws) < Ends(ws)[p]
          BY <3>3, <5>1 DEF Follows
        <5>3. Ends(ws)[v] \in Nat /\ Start(p, ws) \in Nat /\ Ends(ws)[p] \in Nat
          BY <3>3, <3>7 DEF Follows
        <5> QED BY <3>2, <5>2, <5>3
      <4> QED BY <4>1, <4>2
    <3> QED BY <3>2, <3>3, <3>6, <3>7 DEF Follows
  <2> QED BY <2>1, <2>2
<1>3. /\ Ends(ws)[w] \in Nat /\ Start(w, ws) < Ends(ws)[w]
      /\ Ends(ws)[w] <= Total - c
  <2>1. CASE After(w, ws) = {}
    <3>1. Ends(ws)[w] = Total /\ c = 0
      BY <2>1, EndsAre, FS_EmptySet
    <3> HIDE DEF c
    <3> QED BY <1>2, <3>1, SlotsSuffice
  <2>2. CASE After(w, ws) # {}
    <3> DEFINE s == Start(w, ws)
               sh == Share(w, ws)
    <3>1. Ends(ws)[w] = s + Min({sh, Total - s - c})
      BY <2>2, EndsAre
    <3>2. sh \in Nat \ {0} /\ s \in Nat /\ c \in Nat /\ Total \in Nat /\ s + c + 1 <= Total
      BY <1>1, <1>2, ShareIsPositive, SlotsSuffice
    <3> HIDE DEF s, sh, c
    <3>3. Min({sh, Total - s - c}) = IF sh <= Total - s - c THEN sh ELSE Total - s - c
      BY <3>2, MinOfTwo
    <3>4. Ends(ws)[w] \in Nat /\ s < Ends(ws)[w] /\ Ends(ws)[w] <= Total - c
      BY <3>1, <3>2, <3>3
    <3> QED BY <3>4 DEF s
  <2> QED BY <2>1, <2>2
<1> QED BY <1>2, <1>3 DEF Follows

LEMMA AllFollow ==
  ASSUME NEW ws \in SUBSET Writers
  PROVE  \A w \in ws : Follows(w, ws)
<1>1. \A w \in ws : w \in Nat
  BY RolesDisjoint DEF Nodes
<1>2. PICK n \in Nat : \A x \in Writers : x <= n
  <2>1. Writers \in SUBSET Nat
    BY RolesDisjoint DEF Nodes
  <2> QED BY <2>1, SlotsSuffice, FiniteIsBounded
<1> DEFINE P == {k \in 0..n : \A w \in ws : w <= k => Follows(w, ws)}
<1>3. 0 \in P
  <2>1. ASSUME NEW w \in ws, w <= 0 PROVE Follows(w, ws)
    <3>1. \A v \in ws : ~(v < w)
      BY <1>1, <2>1
    <3> QED BY <3>1, OneFollows
  <2> QED BY <1>2, <2>1
<1>4. ASSUME NEW k \in 0..(n - 1), k \in P PROVE k + 1 \in P
  <2>1. ASSUME NEW w \in ws, w <= k + 1 PROVE Follows(w, ws)
    <3>1. ASSUME NEW v \in ws, v < w PROVE Follows(v, ws)
      <4>1. v <= k
        BY <1>1, <2>1, <3>1
      <4> QED BY <1>4, <4>1
    <3> QED BY <3>1, OneFollows
  <2> QED BY <1>2, <2>1
<1>5. n \in P
  <2> HIDE DEF P
  <2>1. \A k \in 0..n : k \in P
    BY <1>2, <1>3, <1>4, InductionUpTo
  <2> QED BY <1>2, <2>1
<1> QED BY <1>2, <1>5

(* A slot is in the range of some writer, the first whose range ends after it. *)
LEMMA SomeoneOwns ==
  ASSUME NEW ws \in SUBSET Writers, ws # {}, NEW slot \in 0..(Total - 1)
  PROVE  \E w \in ws : Start(w, ws) <= slot /\ slot < Ends(ws)[w]
<1>1. \A w \in ws : w \in Nat /\ Follows(w, ws)
  BY RolesDisjoint, AllFollow DEF Nodes
<1>2. SUFFICES ASSUME \A w \in ws : slot < Ends(ws)[w] => slot < Start(w, ws)
               PROVE  FALSE
  BY <1>1, SlotsSuffice DEF Follows
<1>3. ws \in SUBSET Nat /\ IsFiniteSet(ws)
  BY <1>1, SlotsSuffice, FS_Subset
<1> DEFINE last == Max(ws)
<1>4. last \in ws /\ \A w \in ws : last >= w
  BY <1>3, MaxIs
<1>5. After(last, ws) = {}
  BY <1>1, <1>4 DEF After
<1>6. slot < Ends(ws)[last]
  <2>1. Ends(ws)[last] = Total
    BY <1>4, <1>5, EndsAre
  <2> QED BY <2>1, SlotsSuffice
<1> HIDE DEF last
<1> DEFINE P == {k \in 0..last : \A w \in ws : w <= k => Ends(ws)[w] <= slot}
<1>7. ASSUME NEW w \in ws, \A v \in ws : v < w => Ends(ws)[v] <= slot
      PROVE  Ends(ws)[w] <= slot
  <2>1. Ends(ws)[w] \in Nat
    BY <1>1 DEF Follows
  <2>2. SUFFICES ASSUME slot < Ends(ws)[w] PROVE FALSE
    BY <2>1, SlotsSuffice
  <2>3. slot < Start(w, ws)
    BY <1>2, <2>2
  <2>4. Before(w, ws) # {}
    BY <2>3, SlotsSuffice DEF Start
  <2> DEFINE p == Max(Before(w, ws))
  <2>5. p \in ws /\ p < w
    BY <2>4, PreviousIs
  <2>6. Start(w, ws) = Ends(ws)[p]
    BY <2>4 DEF Start
  <2> HIDE DEF p
  <2>7. Ends(ws)[p] <= slot /\ Ends(ws)[p] \in Nat
    BY <1>1, <1>7, <2>5 DEF Follows
  <2> QED BY <2>3, <2>6, <2>7, SlotsSuffice
<1>8. 0 \in P
  <2>1. ASSUME NEW w \in ws, w <= 0 PROVE Ends(ws)[w] <= slot
    <3>1. \A v \in ws : ~(v < w)
      BY <1>1, <2>1
    <3> QED BY <1>7, <3>1
  <2> QED BY <1>1, <1>4, <2>1
<1>9. ASSUME NEW k \in 0..(last - 1), k \in P PROVE k + 1 \in P
  <2>1. ASSUME NEW w \in ws, w <= k + 1 PROVE Ends(ws)[w] <= slot
    <3>1. ASSUME NEW v \in ws, v < w PROVE Ends(ws)[v] <= slot
      <4>1. v <= k
        BY <1>1, <2>1, <3>1
      <4> QED BY <1>9, <4>1
    <3> QED BY <1>7, <3>1
  <2> QED BY <1>1, <1>4, <2>1
<1>10. last \in P
  <2> HIDE DEF P
  <2>1. last \in Nat
    BY <1>1, <1>4
  <2>2. \A k \in 0..last : k \in P
    BY <1>8, <1>9, <2>1, InductionUpTo
  <2> QED BY <2>1, <2>2
<1>11. Ends(ws)[last] <= slot /\ Ends(ws)[last] \in Nat
  BY <1>1, <1>4, <1>10 DEF Follows
<1> QED BY <1>6, <1>11, SlotsSuffice

(* And of no other: of two writers, the later one's range begins where the
   earlier one's is over, or after. *)
LEMMA OneOwns ==
  ASSUME NEW ws \in SUBSET Writers, NEW v \in ws, NEW w \in ws, NEW slot \in Nat,
         Start(v, ws) <= slot, slot < Ends(ws)[v],
         Start(w, ws) <= slot, slot < Ends(ws)[w]
  PROVE  v = w
<1>1. v \in Nat /\ w \in Nat /\ Follows(v, ws) /\ Follows(w, ws)
  BY RolesDisjoint, AllFollow DEF Nodes
<1>2. /\ Start(v, ws) \in Nat /\ Start(w, ws) \in Nat
      /\ Ends(ws)[v] \in Nat /\ Ends(ws)[w] \in Nat
  BY <1>1 DEF Follows
<1>3. ~(v < w)
  <2>1. v < w => Ends(ws)[v] <= Start(w, ws)
    BY <1>1 DEF Follows
  <2> QED BY <1>2, <2>1
<1>4. ~(w < v)
  <2>1. w < v => Ends(ws)[w] <= Start(v, ws)
    BY <1>1 DEF Follows
  <2> QED BY <1>2, <2>1
<1> QED BY <1>1, <1>3, <1>4

LEMMA BoundsAre ==
  ASSUME NEW ws \in SUBSET Writers
  PROVE  /\ DOMAIN Bounds(ws) = ws
         /\ \A w \in ws :
              /\ Bounds(ws)[w] = <<Start(w, ws), Ends(ws)[w]>>
              /\ Start(w, ws) \in 0..Total /\ Ends(ws)[w] \in 0..Total
              /\ Start(w, ws) < Ends(ws)[w]
<1>1. \A w \in ws : Bounds(ws)[w] = <<Start(w, ws), Ends(ws)[w]>>
  BY DEF Bounds, Start, Before
<1>2. ASSUME NEW w \in ws
      PROVE  /\ Start(w, ws) \in 0..Total /\ Ends(ws)[w] \in 0..Total
             /\ Start(w, ws) < Ends(ws)[w]
  <2>1. Cardinality(After(w, ws)) \in Nat
    BY SlotsSuffice, FS_Subset, FS_CardinalityType DEF After
  <2>2. Follows(w, ws)
    BY AllFollow
  <2> QED BY <2>1, <2>2, SlotsSuffice DEF Follows
<1> QED BY <1>1, <1>2 DEF Bounds

(* The writers of the last map have the ranges that were computed for it. *)
RangesAreOfMap == \A w \in map.of : range[w] = Bounds(map.of)[w]

LEMMA MapMakesWhole ==
  ASSUME map.of \in SUBSET Writers, RangesAreOfMap
  PROVE  MapIsWhole
<1> DEFINE ws == map.of
<1>1. SUFFICES ASSUME ws # {}
               PROVE  /\ \A slot \in 0..(Total - 1) : Cardinality(Owners(slot, ws)) = 1
                      /\ \A w \in ws : range[w][1] < range[w][2]
  BY DEF MapIsWhole
<1>2. \A w \in ws : range[w] = Bounds(ws)[w]
  BY DEF RangesAreOfMap
<1> HIDE DEF ws
<1>3. ws \in SUBSET Writers
  BY DEF ws
<1>4. \A w \in ws : range[w][1] = Start(w, ws) /\ range[w][2] = Ends(ws)[w]
  BY <1>2, <1>3, BoundsAre
<1>5. ASSUME NEW slot \in 0..(Total - 1) PROVE Cardinality(Owners(slot, ws)) = 1
  <2>1. PICK w \in ws : Start(w, ws) <= slot /\ slot < Ends(ws)[w]
    BY <1>1, <1>3, SomeoneOwns
  <2>2. slot \in Nat
    BY SlotsSuffice
  <2>3. \A v \in Owners(slot, ws) : v = w
    BY <1>3, <1>4, <2>1, <2>2, OneOwns DEF Owners
  <2>4. w \in Owners(slot, ws)
    BY <1>4, <2>1 DEF Owners
  <2>5. Owners(slot, ws) = {w}
    BY <2>3, <2>4
  <2> QED BY <2>5, FS_Singleton
<1>6. \A w \in ws : range[w][1] < range[w][2]
  BY <1>3, <1>4, BoundsAre
<1> QED BY <1>5, <1>6

-----------------------------------------------------------------------------
(* The whole of TypeOK, and that the ranges are those of the map. *)
RangesOK ==
  /\ range \in [Writers -> (0..Total) \X (0..Total)]
  /\ \A w \in Writers : range[w][1] <= range[w][2]
  /\ map \in [of : SUBSET Writers, by : {"own", "leader"}]

BeliefsOK ==
  /\ up \in [Nodes -> BOOLEAN]
  /\ since \in [Nodes -> {"unset", "set", "over"}]
  /\ judged \in [Nodes -> BOOLEAN]
  /\ \A x, y \in todo : x[1] = y[1] => x = y
  /\ joins \in 0..MaxJoins /\ maps \in 0..MaxMaps

Placed == Typed /\ BeliefsOK /\ RangesOK /\ RangesAreOfMap

LEMMA TypeIsWhole == Typed /\ BeliefsOK /\ RangesOK => TypeOK
BY DEF TypeOK, Typed, BeliefsOK, RangesOK

(* Giving the writers of ws the ranges computed for them, the others keeping theirs. *)
LEMMA RangesGiven ==
  ASSUME RangesOK, NEW ws \in SUBSET Writers, NEW by \in {"own", "leader"},
         range' = [w \in Writers |-> IF w \in ws THEN Bounds(ws)[w] ELSE range[w]],
         map' = [of |-> ws, by |-> by]
  PROVE  RangesOK' /\ RangesAreOfMap'
<1>1. map'.of = ws /\ map' \in [of : SUBSET Writers, by : {"own", "leader"}]
  OBVIOUS
<1>2. ASSUME NEW w \in Writers
      PROVE  range'[w] \in (0..Total) \X (0..Total) /\ range'[w][1] <= range'[w][2]
  <2>1. CASE w \in ws
    <3>1. range'[w] = <<Start(w, ws), Ends(ws)[w]>>
      BY <2>1, BoundsAre
    <3>2. /\ Start(w, ws) \in 0..Total /\ Ends(ws)[w] \in 0..Total
          /\ Start(w, ws) < Ends(ws)[w]
      BY <2>1, BoundsAre
    <3> DEFINE a == Start(w, ws)
               b == Ends(ws)[w]
    <3>3. range'[w] = <<a, b>> /\ a \in 0..Total /\ b \in 0..Total /\ a < b
      BY <3>1, <3>2
    <3> HIDE DEF a, b
    <3>4. range'[w][1] = a /\ range'[w][2] = b /\ a <= b
      BY <3>3, SlotsSuffice
    <3> QED BY <3>3, <3>4
  <2>2. CASE w \notin ws
    BY <2>2 DEF RangesOK
  <2> QED BY <2>1, <2>2
<1>3. range' \in [Writers -> (0..Total) \X (0..Total)]
  <2>1. range' = [w \in Writers |-> range'[w]]
    OBVIOUS
  <2> QED BY <1>2, <2>1
<1>4. RangesAreOfMap'
  BY <1>1 DEF RangesAreOfMap
<1> QED BY <1>1, <1>2, <1>3, <1>4 DEF RangesOK

LEMMA RebalanceGives ==
  ASSUME RangesOK, RangesAreOfMap, NEW st, Rebalance(st) \/ UNCHANGED <<range, map>>
  PROVE  RangesOK' /\ RangesAreOfMap'
<1>1. CASE UNCHANGED <<range, map>>
  BY <1>1 DEF RangesOK, RangesAreOfMap
<1>2. CASE Rebalance(st) /\ Healthy(st) # {}
  <2>1. /\ range' = Overwrite(range, Bounds(Healthy(st)))
        /\ map' = [of |-> Healthy(st), by |-> "own"]
    BY <1>2 DEF Rebalance
  <2>2. Healthy(st) \in SUBSET Writers
    BY DEF Healthy
  <2>3. DOMAIN range = Writers /\ DOMAIN Bounds(Healthy(st)) = Healthy(st)
    BY <2>2, BoundsAre DEF RangesOK
  <2>4. range' = [w \in Writers |->
                    IF w \in Healthy(st) THEN Bounds(Healthy(st))[w] ELSE range[w]]
    BY <2>1, <2>3 DEF Overwrite
  <2> QED BY <2>1, <2>2, <2>4, RangesGiven
<1> QED BY <1>1, <1>2 DEF Rebalance

LEMMA PlacedInit == Init => Placed
<1> SUFFICES ASSUME Init PROVE Placed
  OBVIOUS
<1>1. Typed
  BY InvInit DEF Inv
<1>2. BeliefsOK
  BY BoundsAreNat DEF Init, BeliefsOK
<1>3. RangesOK
  <2>1. 0 \in 0..Total /\ Total \in 0..Total /\ 0 <= Total
    BY SlotsSuffice
  <2>2. \A w \in Writers : range[w] = <<0, Total>> \/ range[w] = <<0, 0>>
    BY DEF Init
  <2>3. range \in [Writers -> (0..Total) \X (0..Total)]
    BY <2>1 DEF Init
  <2>4. map \in [of : SUBSET Writers, by : {"own", "leader"}]
    BY DEF Init
  <2>5. \A w \in Writers : range[w][1] <= range[w][2]
    BY <2>1, <2>2
  <2> QED BY <2>3, <2>4, <2>5 DEF RangesOK
<1>4. RangesAreOfMap
  <2>1. SUFFICES ASSUME NEW w \in map.of PROVE range[w] = Bounds(map.of)[w]
    BY DEF RangesAreOfMap
  <2> DEFINE ws == map.of
  <2>2. ws = {Me} /\ w = Me /\ Me \in Writers
    BY DEF Init
  <2>3. range[w] = <<0, Total>>
    BY <2>2 DEF Init
  <2> HIDE DEF ws
  <2>4. ws \in SUBSET Writers /\ w \in ws /\ w \in Nat
    BY <2>2, RolesDisjoint DEF Nodes
  <2>5. ~(w < w) /\ ~(w > w)
    BY <2>4
  <2>6. Before(w, ws) = {} /\ After(w, ws) = {}
    BY <2>2, <2>5 DEF Before, After
  <2>7. Start(w, ws) = 0 /\ Ends(ws)[w] = Total
    BY <2>4, <2>6, EndsAre DEF Start
  <2>8. Bounds(ws)[w] = <<0, Total>>
    BY <2>4, <2>7, BoundsAre
  <2> QED BY <2>3, <2>8 DEF ws
<1> QED BY <1>1, <1>2, <1>3, <1>4 DEF Placed

(* The ranges and the map change in a rebalance and in the leader's update. *)
LEMMA RangesStep ==
  ASSUME Placed, Next
  PROVE  RangesOK' /\ RangesAreOfMap'
<1> USE DEF Placed
<1>1. ASSUME UNCHANGED <<range, map>> PROVE RangesOK' /\ RangesAreOfMap'
  BY <1>1 DEF RangesOK, RangesAreOfMap
<1>2. ASSUME NEW n \in Nodes,
             Silence(n) \/ Return(n) \/ Ages(n) \/ Beat(n) \/ DebounceEnds(n)
      PROVE  UNCHANGED <<range, map>>
  BY <1>2 DEF Silence, Return, Ages, Beat, DebounceEnds, registry
<1>3. CASE BeginRound \/ Told
  BY <1>1, <1>3 DEF BeginRound, Told, registry
<1>4. ASSUME NEW n \in Nodes, Register(n) PROVE RangesOK' /\ RangesAreOfMap'
  BY <1>4, RebalanceGives DEF Register
<1>5. ASSUME NEW ws \in SUBSET Writers \ {{}}, RouteUpdate(ws)
      PROVE  RangesOK' /\ RangesAreOfMap'
  <2>1. CASE Acceptable(ws)
    <3>1. /\ range' = [w \in Writers |->
                         IF w \in ws /\ status[w] # "absent" THEN Bounds(ws)[w] ELSE range[w]]
          /\ map' = [of |-> ws, by |-> "leader"]
      BY <1>5, <2>1 DEF RouteUpdate
    <3>2. range' = [w \in Writers |-> IF w \in ws THEN Bounds(ws)[w] ELSE range[w]]
      BY <2>1, <3>1 DEF Acceptable
    <3> QED BY <3>1, <3>2, RangesGiven
  <2>2. CASE ~Acceptable(ws)
    BY <1>1, <1>5, <2>2 DEF RouteUpdate
  <2> QED BY <2>1, <2>2
<1>6. ASSUME NEW x \in todo, Judge(x) PROVE RangesOK' /\ RangesAreOfMap'
  <2>1. UNCHANGED registry \/ \E s \in Statuses : Transition(x[1], s)
    BY <1>6 DEF Judge, Statuses
  <2>2. ASSUME NEW s \in Statuses, Transition(x[1], s)
        PROVE  UNCHANGED <<range, map>> \/ \E st : Rebalance(st)
    BY <2>2 DEF Transition, Mark, registry
  <2> QED BY <1>1, <2>1, <2>2, RebalanceGives DEF registry
<1> QED BY <1>1, <1>2, <1>3, <1>4, <1>5, <1>6 DEF Next

(* The rest: a round reads one age of a node, and takes a node out when it judges it. *)
LEMMA BeliefsStep ==
  ASSUME Placed, Next
  PROVE  BeliefsOK'
<1> USE DEF Placed, BeliefsOK
<1>1. ASSUME NEW n \in Nodes,
             Silence(n) \/ Return(n) \/ Ages(n) \/ Beat(n) \/ DebounceEnds(n)
      PROVE  BeliefsOK'
  BY <1>1 DEF Silence, Return, Ages, Beat, DebounceEnds, manager
<1>2. ASSUME NEW n \in Nodes, Register(n) PROVE BeliefsOK'
  BY <1>2, BoundsAreNat DEF Register, manager
<1>3. ASSUME NEW ws \in SUBSET Writers \ {{}}, RouteUpdate(ws) PROVE BeliefsOK'
  BY <1>3, BoundsAreNat DEF RouteUpdate, manager
<1>4. CASE BeginRound
  <2>1. \A x, y \in todo' : x[1] = y[1] => x = y
    BY <1>4 DEF BeginRound
  <2> QED BY <1>4, <2>1 DEF BeginRound
<1>5. ASSUME NEW x \in todo, Judge(x) PROVE BeliefsOK'
  <2>1. todo' = todo \ {x} /\ UNCHANGED <<up, joins, maps>>
    BY <1>5 DEF Judge
  <2>2. x[1] \in Nodes
    BY DEF Typed
  <2>3. since' \in [Nodes -> {"unset", "set", "over"}]
    BY <1>5, <2>2 DEF Judge
  <2>4. judged' \in [Nodes -> BOOLEAN]
    <3>1. judged' = [judged EXCEPT ![x[1]] = judged[x[1]] /\ age'[x[1]] = age[x[1]]]
      BY <1>5 DEF Judge
    <3>2. judged[x[1]] \in BOOLEAN
      BY <2>2
    <3> QED BY <3>1, <3>2
  <2> QED BY <2>1, <2>3, <2>4
<1>6. CASE Told
  <2>1. since' \in [Nodes -> {"unset", "set", "over"}]
    BY <1>6 DEF Told
  <2> QED BY <1>6, <2>1 DEF Told
<1> QED BY <1>1, <1>2, <1>3, <1>4, <1>5, <1>6 DEF Next

LEMMA PlacedStep == Inv /\ Placed /\ [Next]_vars => Placed'
<1> SUFFICES ASSUME Inv, Placed, [Next]_vars PROVE Placed'
  OBVIOUS
<1>1. Typed'
  BY InvStep DEF Inv
<1>2. CASE Next
  BY <1>1, <1>2, RangesStep, BeliefsStep DEF Placed
<1>3. CASE UNCHANGED vars
  BY <1>3 DEF vars, Placed, Typed, BeliefsOK, RangesOK, RangesAreOfMap
<1> QED BY <1>2, <1>3

LEMMA PlacedAlways == Spec => []Placed
BY Invariant, PlacedInit, PlacedStep, PTL DEF Spec

(* The registry's rows, the manager's memory and the round under way have their
   types: a range lies within the slots and does not end before it begins. *)
THEOREM TypeCorrect == Spec => []TypeOK
<1>1. Placed => TypeOK
  BY TypeIsWhole DEF Placed
<1> QED BY <1>1, PlacedAlways, PTL

(* Whatever the weights, and whether the map is the node's own or the leader's:
   every slot has exactly one owner in it and no writer of it goes without. *)
THEOREM MapIsAlwaysWhole == Spec => []MapIsWhole
<1>1. Placed => MapIsWhole
  BY MapMakesWhole DEF Placed, RangesOK
<1> QED BY <1>1, PlacedAlways, PTL

(* The rows as the healthy writers share them: between them they own every slot,
   and no slot has two of them. *)
OneHealthyOwner ==
  map.by = "own" /\ Healthy(status) # {} =>
    \A slot \in 0..(Total - 1) : \E w \in Healthy(status) : Owners(slot, Healthy(status)) = {w}

(* Unless the leader's map came since, every row can be written at exactly one
   healthy writer, in whatever order nodes fell silent, healed and registered:
   ranges that former maps left with failed writers are nobody's. *)
THEOREM EveryRowHasItsWriter == Spec => []OneHealthyOwner
<1>1. MapIsWhole /\ HealthyOwn => OneHealthyOwner
  <2> SUFFICES ASSUME MapIsWhole, HealthyOwn, map.by = "own", Healthy(status) # {},
                      NEW slot \in 0..(Total - 1)
               PROVE  \E w \in Healthy(status) : Owners(slot, Healthy(status)) = {w}
    BY DEF OneHealthyOwner
  <2> DEFINE own == Owners(slot, Healthy(status))
  <2>1. Cardinality(own) = 1
    BY DEF MapIsWhole, HealthyOwn
  <2>2. own \in SUBSET Healthy(status) /\ Healthy(status) \in SUBSET Writers
    BY DEF Owners, Healthy
  <2> HIDE DEF own
  <2>3. IsFiniteSet(own)
    BY <2>2, SlotsSuffice, FS_Subset
  <2>4. PICK w : own = {w}
    BY <2>1, <2>3, FS_Singleton
  <2> QED BY <2>2, <2>4 DEF own
<1> QED BY <1>1, MapIsAlwaysWhole, HealthyAlwaysOwn, PTL

-----------------------------------------------------------------------------
(* Leadership, for any nodes and bounds: who accepts writes in the cluster of
   which Membership is one node's view.  Its modules share no state, so that the
   theorems speak of an instance with variables of its own. *)
CONSTANTS
  Peers,           \* the nodes of Leadership
  Chief, ResyncThreshold, MaxPromotions, MaxRestarts, MaxRecords, NoUpdate
VARIABLES leads, leader, writesTo, announces, epoch, seq, log, link, records, promotions, restarts

Lead == INSTANCE Leadership WITH Nodes <- Peers

(* A node leads if it is its own leader, its coordinator has heard so, and it
   announces itself; nobody sends itself updates. *)
LeadersAnnounce ==
  \A n \in Peers : /\ leads[n] <=> leader[n] = n
                   /\ writesTo[n] = leader[n]
                   /\ leads[n] => announces[n]
                   /\ link[<<n, n>>] = NoUpdate

(* Where the ids of a log end. *)
Numbered ==
  \A n \in Peers : /\ epoch[n] \in 0..(promotions + 1)
                   /\ log[n] \subseteq (0..(promotions + 1)) \X (0..MaxRecords) \X Peers

(* What Leadership assumes of its constants. *)
Configured ==
  Chief \in Peers /\ {ResyncThreshold, MaxPromotions, MaxRestarts, MaxRecords} \subseteq Nat

Sound == Configured /\ Lead!TypeOK /\ LeadersAnnounce /\ Numbered

(* A node's log has a last operation, and LastAcked is its id. *)
LEMMA LastIs ==
  ASSUME NEW m \in Nat, NEW k \in Nat, NEW l \in SUBSET ((0..m) \X (0..k) \X Peers), l # {}
  PROVE  Lead!LastAcked(l) \in Lead!Id /\ \A y \in l : ~Lead!Before(Lead!LastAcked(l), Lead!IdOf(y))
<1>1. \A x \in l : x[1] \in 0..m /\ x[2] \in 0..k
  OBVIOUS
<1> DEFINE E == {x[1] : x \in l}
<1>2. PICK a \in E : \A b \in E : a >= b
  <2>1. E \in SUBSET (0..m) /\ E # {}
    BY <1>1
  <2> HIDE DEF E
  <2> QED BY <2>1, HasLargest
<1> DEFINE S == {x[2] : x \in {y \in l : y[1] = a}}
<1>3. PICK b \in S : \A c \in S : b >= c
  <2>1. S \in SUBSET (0..k) /\ S # {}
    BY <1>1
  <2> HIDE DEF S
  <2> QED BY <2>1, HasLargest
<1>4. PICK x \in l : x[1] = a /\ x[2] = b
  OBVIOUS
<1>5. \A y \in l : ~Lead!Before(Lead!IdOf(x), Lead!IdOf(y))
  <2>1. SUFFICES ASSUME NEW y \in l PROVE ~Lead!Before(Lead!IdOf(x), Lead!IdOf(y))
    OBVIOUS
  <2>2. a >= y[1] /\ (y[1] = a => b >= y[2])
    BY <1>2, <1>3
  <2>3. Lead!IdOf(x) = <<a, b>> /\ Lead!IdOf(y) = <<y[1], y[2]>>
    BY <1>4 DEF Lead!IdOf
  <2>4. a \in Int /\ b \in Int /\ y[1] \in Int /\ y[2] \in Int
    BY <1>1, <1>4
  <2> QED BY <2>2, <2>3, <2>4 DEF Lead!Before
<1> DEFINE z == CHOOSE u \in l : \A y \in l : ~Lead!Before(Lead!IdOf(u), Lead!IdOf(y))
<1>6. z \in l /\ \A y \in l : ~Lead!Before(Lead!IdOf(z), Lead!IdOf(y))
  BY <1>5
<1>7. Lead!LastAcked(l) = Lead!IdOf(z)
  BY DEF Lead!LastAcked
<1> HIDE DEF z
<1>8. Lead!IdOf(z) \in Lead!Id
  BY <1>1, <1>6 DEF Lead!IdOf, Lead!Id
<1> QED BY <1>6, <1>7, <1>8

LEMMA LastIsId == ASSUME Sound, NEW n \in Peers PROVE Lead!LastAcked(log[n]) \in Lead!Id
<1>1. CASE log[n] = {}
  BY <1>1 DEF Lead!LastAcked, Lead!Id
<1>2. CASE log[n] # {}
  <2>1. promotions + 1 \in Nat /\ MaxRecords \in Nat
    BY DEF Configured, Sound, Lead!TypeOK
  <2>2. log[n] \in SUBSET ((0..(promotions + 1)) \X (0..MaxRecords) \X Peers)
    BY DEF Sound, Numbered
  <2> QED BY <1>2, <2>1, <2>2, LastIs
<1> QED BY <1>1, <1>2

(* No two operations of l have one id. *)
Unique(l) == \A x, y \in l : (x[1] = y[1] /\ x[2] = y[2]) => x = y

(* What the state of the log has to keep. *)
LogsSound ==
  /\ epoch \in [Peers -> Nat] /\ seq \in [Peers -> 0..MaxRecords]
  /\ log \in [Peers -> SUBSET Lead!Op] /\ \A n \in Peers : Unique(log[n])
  /\ records \subseteq Lead!Op
  /\ Numbered

LEMMA InitSound == Configured /\ Lead!Init => Sound
<1> SUFFICES ASSUME Configured, Lead!Init PROVE Sound
  OBVIOUS
<1>1. Lead!TypeOK
  BY DEF Configured, Lead!Init, Lead!TypeOK
<1>2. LeadersAnnounce
  BY DEF Configured, Lead!Init, LeadersAnnounce
<1>3. Numbered
  BY DEF Configured, Lead!Init, Numbered
<1> QED BY <1>1, <1>2, <1>3 DEF Sound

LEMMA WiderRange ==
  ASSUME NEW i \in Nat, NEW j \in Nat, i <= j
  PROVE  \A k \in 0..(i + 1) : k \in 0..(j + 1)
OBVIOUS

(* An operation appended with the next number, in an epoch the node has reached. *)
LEMMA AppendedSound ==
  ASSUME Sound, NEW n \in Peers, seq[n] < MaxRecords, NEW e, promotions' \in {promotions, promotions + 1},
         e \in 0..(promotions' + 1), Lead!Appended(n, e),
         \A q \in Peers : epoch'[q] \in {epoch[q], e}, epoch' \in [Peers -> Nat]
  PROVE  LogsSound'
<1> DEFINE op == <<e, seq[n] + 1, n>>
<1>1. /\ promotions \in Nat /\ MaxRecords \in Nat /\ promotions' \in Nat /\ promotions <= promotions'
      /\ seq[n] \in 0..MaxRecords
  BY DEF Configured, Sound, Lead!TypeOK
<1>2. op \in (0..(promotions' + 1)) \X (0..MaxRecords) \X Peers /\ op \in Lead!Op
  <2>1. seq[n] + 1 \in 0..MaxRecords /\ seq[n] + 1 \in Nat /\ e \in Nat
    BY <1>1
  <2> QED BY <2>1 DEF Lead!Op
<1>3. op[1] = e /\ op[2] = seq[n] + 1 /\ Lead!IdOf(op) = <<e, seq[n] + 1>>
  BY DEF Lead!IdOf
<1> HIDE DEF op
<1>4. seq' = [seq EXCEPT ![n] = @ + 1] /\
      IF Lead!Free(n, Lead!IdOf(op)) THEN log' = [log EXCEPT ![n] = @ \cup {op}] /\ records' = records \cup {op}
      ELSE UNCHANGED <<log, records>>
  BY DEF Lead!Appended, op
<1>5. seq' \in [Peers -> 0..MaxRecords]
  BY <1>1, <1>4 DEF Sound, Lead!TypeOK
<1>6. log' \in [Peers -> SUBSET Lead!Op] /\ records' \subseteq Lead!Op
  BY <1>2, <1>4 DEF Sound, Lead!TypeOK
<1>7. ASSUME NEW q \in Peers PROVE Unique(log'[q])
  <2>1. CASE log'[q] = log[q]
    BY <2>1 DEF Sound, Lead!TypeOK, Unique
  <2>2. CASE log'[q] # log[q]
    <3>1. q = n /\ log'[n] = log[n] \cup {op} /\ Lead!Free(n, Lead!IdOf(op))
      BY <1>4, <2>2 DEF Sound, Lead!TypeOK
    <3>2. \A x \in log[n] : ~(x[1] = op[1] /\ x[2] = op[2])
      BY <3>1 DEF Lead!Free, Lead!IdOf
    <3> QED BY <3>1, <3>2 DEF Sound, Lead!TypeOK, Unique
  <2> QED BY <2>1, <2>2
<1>8. Numbered'
  <2>1. \A i \in 0..(promotions + 1) : i \in 0..(promotions' + 1)
    BY <1>1, WiderRange
  <2>2. \A q \in Peers : epoch'[q] \in 0..(promotions' + 1)
    BY <2>1 DEF Sound, Numbered
  <2>3. ASSUME NEW q \in Peers, NEW x \in log'[q]
        PROVE  x \in (0..(promotions' + 1)) \X (0..MaxRecords) \X Peers
    <3>1. CASE x \in log[q]
      BY <2>1, <3>1 DEF Sound, Numbered
    <3>2. CASE x \notin log[q]
      <4>1. x = op
        BY <1>4, <2>3, <3>2 DEF Sound, Lead!TypeOK
      <4> QED BY <1>2, <4>1
    <3> QED BY <3>1, <3>2
  <2> QED BY <2>2, <2>3 DEF Numbered
<1> QED BY <1>5, <1>6, <1>7, <1>8 DEF LogsSound

(* A log taken from another node as a whole, or dropped. *)
LEMMA ResyncSound ==
  ASSUME Sound, NEW n \in Peers, NEW s \in Peers, Lead!FullResync(n, s), promotions' = promotions
  PROVE  LogsSound'
<1>1. /\ log' = [log EXCEPT ![n] = IF leads[s] THEN log[s] ELSE {}] /\ records' = records
      /\ seq' = [seq EXCEPT ![n] = IF leads[s] THEN seq[s] ELSE @]
      /\ epoch' = [epoch EXCEPT ![n] = IF leads[s] THEN epoch[s] ELSE @]
  BY DEF Lead!FullResync, Sound, Lead!TypeOK
<1>2. \A q \in Peers : /\ \E p \in Peers : epoch'[q] = epoch[p]
                       /\ log'[q] = {} \/ \E p \in Peers : log'[q] = log[p]
  BY <1>1 DEF Sound, Lead!TypeOK
<1>3. /\ epoch' \in [Peers -> Nat] /\ seq' \in [Peers -> 0..MaxRecords]
      /\ log' \in [Peers -> SUBSET Lead!Op] /\ records' \subseteq Lead!Op
  BY <1>1 DEF Sound, Lead!TypeOK
<1>4. \A q \in Peers : Unique(log'[q])
  <2>1. Unique({}) /\ \A p \in Peers : Unique(log[p])
    BY DEF Sound, Lead!TypeOK, Unique
  <2> QED BY <1>2, <2>1
<1>5. Numbered'
  BY <1>2 DEF Sound, Numbered
<1> QED BY <1>3, <1>4, <1>5 DEF LogsSound

(* What comes after the last operation of a log has no id of an earlier one. *)
LEMMA PullSound ==
  ASSUME Sound, NEW n \in Peers, Lead!Pull(n)
  PROVE  LogsSound'
<1> DEFINE m == leader[n]
           new == {x \in log[m] : Lead!Before(Lead!LastAcked(log[n]), Lead!IdOf(x))}
<1>1. m \in Peers /\ log' = [log EXCEPT ![n] = @ \cup new]
      /\ UNCHANGED <<epoch, seq, records, promotions>>
  BY DEF Lead!Pull, Sound, Lead!TypeOK
<1>2. log'[n] = log[n] \cup new /\ \A q \in Peers \ {n} : log'[q] = log[q]
  BY <1>1 DEF Sound, Lead!TypeOK
<1>3. new \subseteq log[m]
  OBVIOUS
<1>4. promotions + 1 \in Nat /\ MaxRecords \in Nat
  BY DEF Configured, Sound, Lead!TypeOK
<1>5. ASSUME NEW x \in log[n], NEW y \in new, x[1] = y[1], x[2] = y[2] PROVE FALSE
  <2>1. log[n] \in SUBSET ((0..(promotions + 1)) \X (0..MaxRecords) \X Peers)
    BY DEF Sound, Numbered
  <2>2. ~Lead!Before(Lead!LastAcked(log[n]), Lead!IdOf(x))
    BY <1>4, <2>1, LastIs
  <2> QED BY <1>5, <2>2 DEF Lead!IdOf
<1> HIDE DEF new, m
<1>6. \A q \in Peers : Unique(log'[q])
  <2>1. Unique(log[n]) /\ Unique(log[m]) /\ \A q \in Peers : Unique(log[q])
    BY <1>1 DEF Sound, Lead!TypeOK, Unique
  <2>2. Unique(log'[n])
    BY <1>2, <1>3, <1>5, <2>1 DEF Unique
  <2> QED BY <1>2, <2>1, <2>2
<1>7. log' \in [Peers -> SUBSET Lead!Op]
  BY <1>1, <1>3 DEF Sound, Lead!TypeOK
<1>8. Numbered'
  BY <1>1, <1>2, <1>3 DEF Sound, Numbered
<1> QED BY <1>1, <1>6, <1>7, <1>8 DEF LogsSound, Sound, Lead!TypeOK

LEMMA LogsStay ==
  ASSUME Sound, UNCHANGED <<Lead!oplog, promotions>>
  PROVE  LogsSound'
BY DEF Sound, Lead!TypeOK, LogsSound, Numbered, Unique, Lead!oplog

(* Who leads whom, and what is on its way. *)
RolesSound ==
  /\ leads \in [Peers -> BOOLEAN] /\ leader \in [Peers -> Peers]
  /\ writesTo \in [Peers -> Peers] /\ announces \in [Peers -> BOOLEAN]
  /\ link \in [Peers \X Peers -> Lead!Id \cup {NoUpdate}]
  /\ LeadersAnnounce

LEMMA SoundAre ==
  Sound <=> /\ Configured /\ RolesSound /\ LogsSound
            /\ promotions \in 0..MaxPromotions /\ restarts \in 0..MaxRestarts
BY DEF Sound, Lead!TypeOK, RolesSound, LogsSound, Unique

LEMMA ThenSound ==
  ASSUME Configured, RolesSound', LogsSound', promotions' \in 0..MaxPromotions, restarts' \in 0..MaxRestarts
  PROVE  Sound'
BY DEF Configured, Sound, Lead!TypeOK, RolesSound, LogsSound, Unique

(* An update is on its way to others only. *)
LEMMA LinkSound ==
  ASSUME Sound, NEW n \in Peers, NEW id \in Lead!Id, Lead!Broadcast(n, id)
  PROVE  /\ link' \in [Peers \X Peers -> Lead!Id \cup {NoUpdate}]
         /\ \A q \in Peers : link'[<<q, q>>] = NoUpdate
<1>1. link \in [Peers \X Peers -> Lead!Id \cup {NoUpdate}] /\ \A q \in Peers : link[<<q, q>>] = NoUpdate
  BY DEF Sound, Lead!TypeOK, LeadersAnnounce
<1>2. link' \in [Peers \X Peers -> Lead!Id \cup {NoUpdate}]
  BY <1>1 DEF Lead!Broadcast
<1>3. \A q \in Peers : link'[<<q, q>>] = link[<<q, q>>]
  BY DEF Lead!Broadcast
<1> QED BY <1>1, <1>2, <1>3

LEMMA StepSound == Sound /\ [Lead!Next]_Lead!vars => Sound'
<1> SUFFICES ASSUME Sound, [Lead!Next]_Lead!vars PROVE Sound'
  OBVIOUS
<1>0. /\ Configured /\ RolesSound /\ LogsSound
      /\ promotions \in 0..MaxPromotions /\ restarts \in 0..MaxRestarts
      /\ MaxPromotions \in Nat /\ MaxRestarts \in Nat /\ MaxRecords \in Nat
  BY SoundAre DEF Configured, Sound
<1>1. ASSUME NEW n \in Peers, Lead!Record(n) PROVE Sound'
  <2>1. /\ epoch' = epoch /\ UNCHANGED <<Lead!config, link, promotions, restarts>>
        /\ seq[n] < MaxRecords /\ Lead!Appended(n, epoch[n])
    BY <1>1 DEF Lead!Record
  <2>2. epoch[n] \in 0..(promotions' + 1) /\ epoch' \in [Peers -> Nat]
    BY <2>1 DEF Sound, Lead!TypeOK, Numbered
  <2>3. LogsSound'
    BY <2>1, <2>2, AppendedSound
  <2>4. RolesSound'
    BY <1>0, <2>1 DEF RolesSound, LeadersAnnounce, Lead!config
  <2>5. promotions' \in 0..MaxPromotions /\ restarts' \in 0..MaxRestarts
    BY <1>0, <2>1
  <2> QED BY <1>0, <2>3, <2>4, <2>5, ThenSound
<1>2. ASSUME NEW n \in Peers, Lead!Promote(n) PROVE Sound'
  <2>1. /\ promotions < MaxPromotions /\ promotions' = promotions + 1 /\ restarts' = restarts
        /\ seq[n] < MaxRecords /\ Lead!Appended(n, epoch[n] + 1) /\ Lead!Broadcast(n, <<0, 0>>)
        /\ epoch' = [epoch EXCEPT ![n] = @ + 1]
        /\ leads' = [leads EXCEPT ![n] = TRUE] /\ leader' = [leader EXCEPT ![n] = n]
        /\ writesTo' = [writesTo EXCEPT ![n] = n]
        /\ announces' = [announces EXCEPT ![n] = TRUE]
    BY <1>2 DEF Lead!Promote
  <2>2. epoch[n] \in 0..(promotions + 1) /\ promotions \in Nat
    BY <1>0 DEF Sound, Numbered
  <2>3. /\ epoch[n] + 1 \in 0..(promotions' + 1) /\ epoch' \in [Peers -> Nat]
        /\ \A q \in Peers : epoch'[q] \in {epoch[q], epoch[n] + 1}
    BY <1>0, <2>1, <2>2 DEF LogsSound
  <2>4. LogsSound'
    BY <2>1, <2>3, AppendedSound
  <2>5. /\ link' \in [Peers \X Peers -> Lead!Id \cup {NoUpdate}]
        /\ \A q \in Peers : link'[<<q, q>>] = NoUpdate
    <3>1. <<0, 0>> \in Lead!Id
      BY DEF Lead!Id
    <3> QED BY <2>1, <3>1, LinkSound
  <2>6. RolesSound'
    BY <1>0, <2>1, <2>5 DEF RolesSound, LeadersAnnounce
  <2>7. promotions' \in 0..MaxPromotions /\ restarts' \in 0..MaxRestarts
    BY <1>0, <2>1
  <2> QED BY <1>0, <2>4, <2>6, <2>7, ThenSound
<1>3. ASSUME NEW n \in Peers, Lead!Announce(n) PROVE Sound'
  <2>1. Lead!Broadcast(n, Lead!LastAcked(log[n])) /\ UNCHANGED <<Lead!config, Lead!oplog, promotions, restarts>>
    BY <1>3 DEF Lead!Announce
  <2>2. /\ link' \in [Peers \X Peers -> Lead!Id \cup {NoUpdate}]
        /\ \A q \in Peers : link'[<<q, q>>] = NoUpdate
    BY <2>1, LastIsId, LinkSound
  <2>3. RolesSound'
    BY <1>0, <2>1, <2>2 DEF RolesSound, LeadersAnnounce, Lead!config
  <2> QED BY <1>0, <2>1, <2>3, LogsStay, ThenSound
<1>4. ASSUME NEW n \in Peers, Lead!Pull(n) PROVE Sound'
  <2>1. UNCHANGED <<Lead!config, link, promotions, restarts>>
    BY <1>4 DEF Lead!Pull
  <2>2. RolesSound'
    BY <1>0, <2>1 DEF RolesSound, LeadersAnnounce, Lead!config
  <2> QED BY <1>0, <1>4, <2>1, <2>2, PullSound, ThenSound
<1>5. ASSUME NEW n \in Peers, NEW l \in Peers, Lead!Restart(n, l) PROVE Sound'
  <2>1. /\ restarts < MaxRestarts /\ restarts' = restarts + 1 /\ UNCHANGED <<Lead!oplog, promotions>>
        /\ leads' = [leads EXCEPT ![n] = n = l] /\ leader' = [leader EXCEPT ![n] = l]
        /\ writesTo' = [writesTo EXCEPT ![n] = l]
        /\ announces' = [announces EXCEPT ![n] = n = l]
        /\ link' = [p \in Peers \X Peers |-> IF n \in {p[1], p[2]} THEN NoUpdate ELSE link[p]]
    BY <1>5 DEF Lead!Restart
  <2>2. RolesSound'
    BY <1>0, <2>1 DEF RolesSound, LeadersAnnounce
  <2>3. restarts' \in 0..MaxRestarts
    BY <1>0, <2>1
  <2> QED BY <1>0, <2>1, <2>2, <2>3, LogsStay, ThenSound
<1>6. ASSUME NEW n \in Peers, NEW s \in Peers, Lead!HandleUpdate(n, s) PROVE Sound'
  <2>1. /\ link[<<s, n>>] # NoUpdate /\ link' = [link EXCEPT ![<<s, n>>] = NoUpdate]
        /\ Lead!Follow(n, s)
        /\ Lead!FullResync(n, s) \/ UNCHANGED Lead!oplog
        /\ UNCHANGED <<promotions, restarts>>
    BY <1>6 DEF Lead!HandleUpdate, Lead!Hears
  <2>2. s # n
    BY <2>1 DEF Sound, LeadersAnnounce
  <2>3. LogsSound'
    BY <2>1, ResyncSound, LogsStay
  <2>4. /\ leads' = [leads EXCEPT ![n] = FALSE] /\ leader' = [leader EXCEPT ![n] = s]
        /\ writesTo' = [writesTo EXCEPT ![n] = s] /\ announces' = announces
        /\ link' = [link EXCEPT ![<<s, n>>] = NoUpdate]
    BY <2>1 DEF Lead!Follow
  <2>5. RolesSound'
    BY <1>0, <2>2, <2>4 DEF RolesSound, LeadersAnnounce
  <2> QED BY <1>0, <2>1, <2>3, <2>5, ThenSound
<1>7. ASSUME NEW n \in Peers, NEW s \in Peers, Lead!Lose(n, s) PROVE Sound'
  <2>1. /\ link' = [link EXCEPT ![<<s, n>>] = NoUpdate]
        /\ UNCHANGED <<Lead!config, Lead!oplog, promotions, restarts>>
    BY <1>7 DEF Lead!Lose
  <2>2. RolesSound'
    BY <1>0, <2>1 DEF RolesSound, LeadersAnnounce, Lead!config
  <2> QED BY <1>0, <2>1, <2>2, LogsStay, ThenSound
<1>8. CASE UNCHANGED Lead!vars
  <2>1. UNCHANGED <<Lead!config, Lead!oplog, link, promotions, restarts>>
    BY <1>8 DEF Lead!vars
  <2>2. RolesSound'
    BY <1>0, <2>1 DEF RolesSound, LeadersAnnounce, Lead!config
  <2> QED BY <1>0, <2>1, <2>2, LogsStay, ThenSound
<1> QED BY <1>1, <1>2, <1>3, <1>4, <1>5, <1>6, <1>7, <1>8 DEF Lead!Next

LEMMA AlwaysSound == Configured /\ Lead!Spec => []Sound
BY InitSound, StepSound, PTL DEF Lead!Spec

(* Type correctness of Leadership: in particular no log holds two operations with
   one id, although ids are given out twice when two nodes lead. *)
THEOREM LeadershipTypeCorrect == Configured /\ Lead!Spec => []Lead!TypeOK
<1>1. Sound => Lead!TypeOK
  BY DEF Sound
<1> QED BY <1>1, AlwaysSound, PTL

(* A node that accepts writes leads and announces itself. *)
WritersAnnounce == \A n \in Peers : Lead!Writes(n) => leads[n] /\ announces[n]

(* Nobody accepts writes in secret: every node that TransactionCoordinator.submit
   takes for the leader is one by its configuration and has a broadcast loop, by
   which the others will hear of it, after any promotions, updates and restarts. *)
THEOREM WritersAlwaysAnnounce == Configured /\ Lead!Spec => []WritersAnnounce
<1>1. Sound => WritersAnnounce
  BY DEF Sound, LeadersAnnounce, WritersAnnounce, Lead!Writes
<1> QED BY <1>1, AlwaysSound, PTL

(* A node begins to accept writes by promote_to_leader or a restart only. *)
MadeAWriter ==
  \A n \in Peers :
    ~Lead!Writes(n) /\ Lead!Writes(n)' => Lead!Promote(n) \/ \E l \in Peers : Lead!Restart(n, l)

(* No MEMBERSHIP_UPDATE makes a node accept writes, late, lost or from whom it may
   be, so that announcements never begin a split brain. *)
THEOREM OnlyMadeWriters == Configured /\ Lead!Spec => [][MadeAWriter]_Lead!vars
<1>1. Sound /\ [Lead!Next]_Lead!vars => [MadeAWriter]_Lead!vars
  <2> SUFFICES ASSUME Sound, Lead!Next, NEW n \in Peers, ~Lead!Writes(n), Lead!Writes(n)'
               PROVE  Lead!Promote(n) \/ \E l \in Peers : Lead!Restart(n, l)
    BY DEF MadeAWriter
  <2>1. writesTo \in [Peers -> Peers] /\ writesTo[n] # n /\ writesTo'[n] = n
    BY DEF Sound, Lead!TypeOK, Lead!Writes
  <2>2. ASSUME NEW m \in Peers, Lead!Promote(m) \/ \E l \in Peers : Lead!Restart(m, l) PROVE m = n
    BY <2>1, <2>2 DEF Lead!Promote, Lead!Restart
  <2>3. ASSUME NEW m \in Peers, NEW s \in Peers, Lead!HandleUpdate(m, s) PROVE FALSE
    <3>1. s # m
      BY <2>3 DEF Lead!HandleUpdate, Sound, LeadersAnnounce
    <3>2. writesTo' = [writesTo EXCEPT ![m] = s]
      BY <2>3 DEF Lead!HandleUpdate, Lead!Hears, Lead!Follow
    <3> QED BY <2>1, <3>1, <3>2
  <2>4. ASSUME UNCHANGED Lead!config PROVE FALSE
    BY <2>1, <2>4 DEF Lead!config
  <2> QED BY <2>2, <2>3, <2>4 DEF Lead!Next, Lead!Record, Lead!Announce, Lead!Pull, Lead!Lose
<1> QED BY <1>1, AlwaysSound, PTL DEF Lead!Spec
=============================================================================
