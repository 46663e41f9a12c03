---------------------------- MODULE NaturalLemmas ----------------------------
(***************************************************************************)
(* What the proofs need of the natural numbers: a bounded set has a        *)
(* largest element ("the last of those" in a buffer or a queue), induction *)
(* up to a bound, and that a loop written as a recursive function runs:    *)
(* the states it goes through are a function, so the one TLA+ chooses is.  *)
(*                                                                         *)
(* The library's induction theorems take the formula as an operator.  Here *)
(* it is a set, the numbers up to the bound for which it holds.            *)
(***************************************************************************)
EXTENDS Integers, WellFoundedInduction, TLAPS

(* The distances of the elements to the bound have a smallest one, because < is
   well-founded on the naturals. *)
LEMMA HasLargest ==
  ASSUME NEW n \in Nat, NEW S \in SUBSET (0..n), S # {}
  PROVE  \E x \in S : \A y \in S : x >= y
<1> DEFINE T == {i \in Nat : i <= n /\ n - i \in S}
           R == {ss \in Nat \X Nat : ss[1] < ss[2]}
<1>1. T \subseteq Nat /\ T # {}
  <2>1. PICK x \in S : TRUE
    OBVIOUS
  <2>2. n - x \in T
    BY <2>1
  <2> QED BY <2>2
<1>2. IsWellFoundedOn(R, Nat)
  BY NatLessThanWellFounded DEF OpToRel
<1>3. \A i, j \in Nat : <<i, j>> \in R <=> i < j
  OBVIOUS
<1> HIDE DEF T, R
<1>4. PICK i \in T : \A j \in T : ~(<<j, i>> \in R)
  BY <1>1, <1>2, WFMin
<1>5. i \in Nat /\ i <= n /\ n - i \in S /\ \A j \in T : i <= j
  <2>1. i \in Nat
    BY <1>1
  <2>2. ASSUME NEW j \in T PROVE i <= j
    <3>1. j \in Nat /\ ~(<<j, i>> \in R)
      BY <1>1, <1>4
    <3>2. ~(j < i)
      BY <1>3, <2>1, <3>1
    <3> QED BY <2>1, <3>1, <3>2
  <2> QED BY <2>1, <2>2 DEF T
<1>6. n - i \in S /\ \A y \in S : n - i >= y
  <2>1. ASSUME NEW y \in S PROVE n - i >= y
    <3>1. n - y \in T
      BY DEF T
    <3> QED BY <1>5, <3>1
  <2> QED BY <1>5, <2>1
<1> QED BY <1>6

(* Induction up to n: a set with 0 and with every successor up to n has them all.
   The smallest number left out would be the successor of one that is not. *)
LEMMA InductionUpTo ==
  ASSUME NEW n \in Nat, NEW S, 0 \in S, \A i \in 0..(n - 1) : i \in S => i + 1 \in S
  PROVE  \A i \in 0..n : i \in S
<1> SUFFICES ASSUME NEW k \in 0..n, k \notin S PROVE FALSE
  OBVIOUS
<1> DEFINE T == {n - i : i \in {j \in 0..n : j \notin S}}
<1>1. T \in SUBSET (0..n) /\ T # {}
  OBVIOUS
<1>2. PICK x \in T : \A y \in T : x >= y
  BY <1>1, HasLargest
<1>3. PICK i \in 0..n : i \notin S /\ x = n - i
  BY <1>2
<1>4. i - 1 \in 0..(n - 1) /\ (i - 1) + 1 = i
  BY <1>3
<1>5. i - 1 \notin S
  BY <1>3, <1>4
<1>6. n - (i - 1) \in T
  BY <1>4, <1>5
<1>7. x >= n - (i - 1)
  BY <1>2, <1>6
<1> QED BY <1>3, <1>4, <1>7

(* A loop of n rounds from the state b: round i takes s to F[i][s], a state again. *)
StaysIn(F, n, St) == \A i \in 1..n : \A s \in St : F[i][s] \in St
Runs(g, n, b, F) == g[0] = b /\ \A i \in 1..n : g[i] = F[i][g[i - 1]]

(* It goes through a sequence of states. *)
LEMMA LoopRuns ==
  ASSUME NEW n \in Nat, NEW St, NEW b \in St, NEW F, StaysIn(F, n, St)
  PROVE  \E g \in [0..n -> St] : Runs(g, n, b, F)
<1> USE DEF StaysIn, Runs
<1> DEFINE S == {m \in 0..n : \E g \in [0..m -> St] : Runs(g, m, b, F)}
<1>1. 0 \in S
  <2> DEFINE g == [i \in 0..0 |-> b]
  <2>1. g \in [0..0 -> St] /\ Runs(g, 0, b, F)
    OBVIOUS
  <2> HIDE DEF g
  <2>2. \E f \in [0..0 -> St] : Runs(f, 0, b, F)
    BY <2>1
  <2> QED BY <2>2
<1>2. ASSUME NEW m \in 0..(n - 1), m \in S PROVE m + 1 \in S
  <2>1. PICK g \in [0..m -> St] : Runs(g, m, b, F)
    BY <1>2
  <2> DEFINE h == [i \in 0..(m + 1) |-> IF i = m + 1 THEN F[m + 1][g[m]] ELSE g[i]]
  <2>2. m + 1 \in 1..n /\ m \in 0..m /\ m + 1 \in 0..n
    OBVIOUS
  <2>3. F[m + 1][g[m]] \in St
    BY <2>2
  <2>4. h \in [0..(m + 1) -> St]
    BY <2>3
  <2>5. h[0] = b
    BY <2>1
  <2>6. ASSUME NEW i \in 1..(m + 1) PROVE h[i] = F[i][h[i - 1]]
    <3>1. CASE i = m + 1
      BY <3>1
    <3>2. CASE i # m + 1
      <4>1. i \in 1..m /\ i - 1 \in 0..m
        BY <3>2
      <4>2. h[i] = g[i] /\ h[i - 1] = g[i - 1]
        BY <4>1
      <4> QED BY <2>1, <4>1, <4>2
    <3> QED BY <3>1, <3>2
  <2> HIDE DEF h
  <2> QED BY <2>2, <2>4, <2>5, <2>6
<1> HIDE DEF S
<1>3. \A i \in 0..n : i \in S
  BY <1>1, <1>2, InductionUpTo
<1>4. n \in S
  BY <1>3
<1> QED BY <1>4 DEF S

(* A recursive function on D: F takes a function to the one that uses it for the
   calls, and a call is always of an element of smaller rank. *)
CallsLess(F, D, V, r) ==
  \A g, h \in [D -> V] : \A x \in D :
    (\A y \in D : r[y] < r[x] => g[y] = h[y]) => F[g][x] = F[h][x]
HasFixedPoint(F, D, V) == \E g \in [D -> V] : g = F[g]

(* With bounded ranks there is such a function.  Applying F again and again from
   anywhere, what was found for ranks below i does not change in round i + 1. *)
LEMMA RecursionByRank ==
  ASSUME NEW D, NEW V, NEW n \in Nat, NEW r, NEW F, V # {}, r \in [D -> 0..n],
         F \in [[D -> V] -> [D -> V]], CallsLess(F, D, V, r)
  PROVE  HasFixedPoint(F, D, V)
<1> USE DEF CallsLess
<1> DEFINE St == [D -> V]
           G == [i \in 1..(n + 2) |-> F]
<1>1. PICK b \in St : TRUE
  <2>1. PICK v \in V : TRUE
    OBVIOUS
  <2>2. [x \in D |-> v] \in St
    OBVIOUS
  <2> QED BY <2>2
<1>2. StaysIn(G, n + 2, St)
  BY DEF StaysIn
<1>3. PICK g \in [0..(n + 2) -> St] : Runs(g, n + 2, b, G)
  <2> HIDE DEF St, G
  <2>1. n + 2 \in Nat
    OBVIOUS
  <2> QED BY <1>1, <1>2, <2>1, LoopRuns
<1>4. \A i \in 1..(n + 2) : g[i] = F[g[i - 1]] /\ g[i] \in [D -> V] /\ g[i - 1] \in [D -> V]
  BY <1>3 DEF Runs
<1> DEFINE S == {i \in 0..(n + 1) : \A x \in D : r[x] < i => g[i + 1][x] = g[i][x]}
<1>5. 0 \in S
  OBVIOUS
<1>6. ASSUME NEW i \in 0..((n + 1) - 1), i \in S PROVE i + 1 \in S
  <2>1. i + 1 \in 1..(n + 2) /\ i + 2 \in 1..(n + 2) /\ i + 1 \in 0..(n + 1)
    OBVIOUS
  <2>2. g[i + 2] = F[g[i + 1]] /\ g[i + 1] = F[g[i]]
    <3>1. (i + 2) - 1 = i + 1 /\ (i + 1) - 1 = i
      OBVIOUS
    <3> QED BY <1>4, <2>1, <3>1
  <2>3. g[i + 1] \in [D -> V] /\ g[i] \in [D -> V]
    <3>1. (i + 1) - 1 = i
      OBVIOUS
    <3> QED BY <1>4, <2>1, <3>1
  <2>4. ASSUME NEW x \in D, r[x] < i + 1 PROVE g[i + 2][x] = g[i + 1][x]
    <3>1. \A y \in D : r[y] < r[x] => g[i + 1][y] = g[i][y]
      <4>1. ASSUME NEW y \in D, r[y] < r[x] PROVE r[y] < i
        <5>1. r[y] \in Nat /\ r[x] \in Nat
          OBVIOUS
        <5> QED BY <2>4, <4>1, <5>1
      <4> QED BY <1>6, <4>1
    <3>2. F[g[i + 1]][x] = F[g[i]][x]
      <4> HIDE DEF S, St, G
      <4>1. \A f, h \in [D -> V] :
              (\A y \in D : r[y] < r[x] => f[y] = h[y]) => F[f][x] = F[h][x]
        OBVIOUS
      <4> QED BY <2>3, <3>1, <4>1
    <3> QED BY <2>2, <3>2
  <2>5. (i + 1) + 1 = i + 2
    OBVIOUS
  <2> QED BY <2>1, <2>4, <2>5
<1>7. n + 1 \in S
  <2> HIDE DEF S
  <2>1. n + 1 \in Nat /\ n + 1 \in 0..(n + 1)
    OBVIOUS
  <2>2. \A i \in 0..(n + 1) : i \in S
    BY <1>5, <1>6, <2>1, InductionUpTo
  <2> QED BY <2>1, <2>2
<1>8. g[n + 2] = g[n + 1]
  <2>1. n + 1 \in 1..(n + 2) /\ n + 2 \in 1..(n + 2) /\ (n + 1) + 1 = n + 2
    OBVIOUS
  <2>2. \A x \in D : g[n + 2][x] = g[n + 1][x]
    <3>1. \A x \in D : r[x] < n + 1
      OBVIOUS
    <3> QED BY <1>7, <2>1, <3>1
  <2>3. g[n + 2] \in [D -> V] /\ g[n + 1] \in [D -> V]
    BY <1>4, <2>1
  <2> QED BY <2>2, <2>3
<1>9. g[n + 2] = F[g[n + 1]] /\ g[n + 1] \in [D -> V]
  <2>1. n + 1 \in 1..(n + 2) /\ n + 2 \in 1..(n + 2) /\ (n + 2) - 1 = n + 1
    OBVIOUS
  <2> QED BY <1>4, <2>1
<1> QED BY <1>8, <1>9 DEF HasFixedPoint
=============================================================================
