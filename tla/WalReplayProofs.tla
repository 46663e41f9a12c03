-------------------------- MODULE WalReplayProofs --------------------------
(***************************************************************************)
(* Proofs about WalReplay, for any nodes, cells and values and any bounds: *)
(* cursors and cells never go back, and under one leader every node holds  *)
(* a prefix of the log.                                                    *)
(***************************************************************************)
EXTENDS WalReplay, NaturalLemmas, TLAPS

(***************************************************************************)
(* The maximum of a bounded set of naturals.                               *)
(***************************************************************************)

LEMMA MaxOf ==
  ASSUME NEW n \in Nat, NEW S \in SUBSET (0..n), S # {}
  PROVE  Max(S) \in S /\ \A y \in S : y <= Max(S)
<1>1. \E x \in S : \A y \in S : x >= y
  BY HasLargest
<1>2. Max(S) \in S /\ \A y \in S : Max(S) >= y
  BY <1>1 DEF Max
<1> QED BY <1>2

LEMMA MaxIs ==
  ASSUME NEW S \in SUBSET Int, NEW x \in S, \A y \in S : y <= x
  PROVE  Max(S) = x
<1>1. \E z \in S : \A y \in S : z >= y
  OBVIOUS
<1>2. Max(S) \in S /\ \A y \in S : Max(S) >= y
  BY <1>1 DEF Max
<1>3. Max(S) >= x /\ x >= Max(S) /\ Max(S) \in Int /\ x \in Int
  BY <1>2
<1> QED BY <1>3

LEMMA MaxOfTwo ==
  ASSUME NEW k \in Nat, NEW m \in Nat
  PROVE  Max({k, m}) = IF k >= m THEN k ELSE m
<1>1. CASE k >= m
  <2>1. Max({k, m}) = k
    BY <1>1, MaxIs
  <2> QED BY <1>1, <2>1
<1>2. CASE ~(k >= m)
  <2>1. Max({k, m}) = m
    BY <1>2, MaxIs
  <2> QED BY <1>2, <2>1
<1> QED BY <1>1, <1>2

(***************************************************************************)
(* Types, and where the cells of a node come from.                         *)
(***************************************************************************)

(* The file is as new as the cursor; the log's counter is ahead of all that was
   handed out, and a cell comes from below the cursor or from the append that
   is not over. *)
Bounded(n) ==
  /\ saved[n] = cursor[n]
  /\ cursor[n] < next
  /\ lsn[n] < next
  /\ \A c \in Cells : from[n][c] <= cursor[n] \/ from[n][c] = lsn[n]

Inv ==
  /\ TypeOK
  /\ \A n \in Nodes : Bounded(n)
  /\ \A l \in LSNs : log[l] # NoEntry => l < next

LEMMA InvInit == Init => Inv
BY FirstIsNode, BlankIsValue, BoundsAreNat
   DEF Init, Inv, TypeOK, Bounded, Nothing, Nowhere, LSNs

(* The cursor takes the larger of itself and what it is given, and so does its
   file. *)
LEMMA Advances ==
  ASSUME TypeOK, NEW n \in Nodes, NEW k \in 0..MaxLsn, AdvanceCursor(n, k)
  PROVE  \E m \in 0..MaxLsn :
           /\ m = IF k >= cursor[n] THEN k ELSE cursor[n]
           /\ cursor' = [cursor EXCEPT ![n] = m]
           /\ saved' = [saved EXCEPT ![n] = m]
<1>1. k \in Nat /\ cursor[n] \in Nat /\ cursor[n] \in 0..MaxLsn
  BY BoundsAreNat DEF TypeOK
<1> DEFINE m == Max({k, cursor[n]})
<1>2. m = IF k >= cursor[n] THEN k ELSE cursor[n]
  BY <1>1, MaxOfTwo
<1>3. cursor' = [cursor EXCEPT ![n] = m] /\ saved' = [saved EXCEPT ![n] = m]
  BY DEF AdvanceCursor, SaveCursor
<1> HIDE DEF m
<1> QED BY <1>1, <1>2, <1>3

(* What an iteration of the replay loop sees is ahead of the cursor and in the
   log, and it moves the cursor to the last of it. *)
LEMMA SeenIsAhead ==
  ASSUME TypeOK, NEW n \in Nodes, Seen(n) # {}
  PROVE  /\ Seen(n) \subseteq LSNs
         /\ \A l \in Seen(n) : l > cursor[n] /\ log[l] # NoEntry
         /\ CursorAfter(n, Seen(n)) \in Seen(n)
         /\ \A l \in Seen(n) : l <= CursorAfter(n, Seen(n))
<1> DEFINE k == CursorAfter(n, Seen(n))
           S == {cursor[n]} \cup Seen(n)
<1>1. Seen(n) \subseteq LSNs /\ \A l \in Seen(n) : l > cursor[n] /\ log[l] # NoEntry
  BY DEF Seen
<1>2. S \in SUBSET (0..MaxLsn) /\ S # {} /\ MaxLsn \in Nat
  BY <1>1, BoundsAreNat DEF TypeOK, LSNs
<1>3. k \in S /\ \A y \in S : y <= k
  BY <1>2, MaxOf DEF CursorAfter
<1>4. k # cursor[n]
  <2>1. PICK l \in Seen(n) : TRUE
    OBVIOUS
  <2>2. l > cursor[n] /\ l <= k /\ l \in Nat /\ cursor[n] \in Nat
    BY <1>1, <1>3, BoundsAreNat DEF TypeOK, LSNs
  <2> QED BY <2>2
<1> QED BY <1>1, <1>3, <1>4

(* A cell replay writes takes the value of a committed entry of what was seen. *)
LEMMA AppliedIsSeen ==
  ASSUME TypeOK, NEW n \in Nodes, NEW c \in Cells, WritesOf(c) \cap Seen(n) # {}
  PROVE  /\ Applied(n, Seen(n))[c] \in WritesOf(c) \cap Seen(n)
         /\ \A l \in WritesOf(c) \cap Seen(n) : l <= Applied(n, Seen(n))[c]
         /\ log[Applied(n, Seen(n))[c]] \in Entry
<1> DEFINE S == WritesOf(c) \cap Seen(n)
<1>1. S \in SUBSET (0..MaxLsn) /\ S # {} /\ MaxLsn \in Nat
  BY BoundsAreNat DEF WritesOf, LSNs
<1>2. Max(S) \in S /\ \A l \in S : l <= Max(S)
  BY <1>1, MaxOf
<1>3. Applied(n, Seen(n))[c] = Max(S)
  BY DEF Applied
<1>4. \A l \in S : log[l] \in Entry
  BY DEF WritesOf, Committed, TypeOK
<1> QED BY <1>2, <1>3, <1>4

LEMMA SubmitKeeps ==
  ASSUME Inv, NEW n \in Nodes, NEW e \in Entry, MaySubmit(n), TakeLsn(n, e),
         UNCHANGED <<leader, log, cursor, saved, changes, restarted>>,
         \/ UNCHANGED <<df, from>>
         \/ \E c \in Cells, v \in Values :
              df' = [df EXCEPT ![n][c] = v] /\ from' = [from EXCEPT ![n][c] = next]
  PROVE  Inv'
<1> USE BoundsAreNat DEF Inv
<1>1. /\ next \in 1..MaxLsn /\ next' = next + 1 /\ lsn[n] = 0
      /\ lsn' = [lsn EXCEPT ![n] = next] /\ entry' = [entry EXCEPT ![n] = e]
  BY DEF TakeLsn, TypeOK, MaySubmit, Idle
<1>2. df' \in [Nodes -> [Cells -> Values]] /\ from' \in [Nodes -> [Cells -> 0..MaxLsn]]
  <2>1. CASE UNCHANGED <<df, from>>
    BY <2>1 DEF TypeOK
  <2>2. ASSUME NEW c \in Cells, NEW v \in Values,
               df' = [df EXCEPT ![n][c] = v], from' = [from EXCEPT ![n][c] = next]
        PROVE  df' \in [Nodes -> [Cells -> Values]] /\ from' \in [Nodes -> [Cells -> 0..MaxLsn]]
    <3>1. next \in 0..MaxLsn
      BY <1>1
    <3> QED BY <2>2, <3>1 DEF TypeOK
  <2> QED BY <2>1, <2>2
<1>3. TypeOK'
  <2>1. next \in 0..MaxLsn /\ next' \in 1..(MaxLsn + 1)
    BY <1>1
  <2>2. lsn' \in [Nodes -> 0..MaxLsn] /\ entry' \in [Nodes -> Entry \cup {NoEntry}]
    BY <1>1, <2>1 DEF TypeOK
  <2> QED BY <1>2, <2>1, <2>2 DEF TypeOK
<1>4. ASSUME NEW q \in Nodes PROVE Bounded(q)'
  <2>1. ASSUME NEW c \in Cells PROVE from'[q][c] = from[q][c] \/ (q = n /\ from'[q][c] = next)
    BY DEF TypeOK
  <2>2. \A c \in Cells : from[n][c] <= cursor[n]
    BY <1>1 DEF Bounded, TypeOK
  <2> QED BY <1>1, <2>1, <2>2 DEF Bounded, TypeOK
<1>5. \A l \in LSNs : log'[l] # NoEntry => l < next'
  BY <1>1 DEF LSNs
<1> QED BY <1>3, <1>4, <1>5

LEMMA PublishKeeps ==
  ASSUME Inv, NEW n \in Nodes, Publish(n)
  PROVE  Inv'
<1> USE BoundsAreNat DEF Inv
<1>1. /\ lsn[n] \in LSNs /\ lsn[n] < next
      /\ log' = [log EXCEPT ![lsn[n]] = entry[n]]
      /\ lsn' = [lsn EXCEPT ![n] = 0] /\ entry' = [entry EXCEPT ![n] = NoEntry]
      /\ UNCHANGED <<leader, next, df, from, changes, restarted>>
  BY DEF Publish, Idle, TypeOK, Bounded, LSNs
<1>2. PICK m \in 0..MaxLsn :
        /\ m = IF lsn[n] >= cursor[n] THEN lsn[n] ELSE cursor[n]
        /\ cursor' = [cursor EXCEPT ![n] = m]
        /\ saved' = [saved EXCEPT ![n] = m]
  BY Advances DEF Publish, TypeOK
<1>3. TypeOK'
  BY <1>1, <1>2 DEF TypeOK
<1>4. ASSUME NEW q \in Nodes PROVE Bounded(q)'
  BY <1>1, <1>2 DEF Bounded, TypeOK, LSNs
<1>5. \A l \in LSNs : log'[l] # NoEntry => l < next'
  BY <1>1 DEF TypeOK
<1> QED BY <1>3, <1>4, <1>5

LEMMA ReplayKeeps ==
  ASSUME Inv, NEW n \in Nodes, Replay(n)
  PROVE  Inv'
<1> USE BoundsAreNat DEF Inv
<1> DEFINE k == CursorAfter(n, Seen(n))
<1>1. /\ Seen(n) # {} /\ lsn[n] = 0
      /\ from' = [from EXCEPT ![n] = Applied(n, Seen(n))]
      /\ AdvanceCursor(n, k)
      /\ UNCHANGED <<leader, log, next, lsn, entry, changes, restarted>>
  BY DEF Replay, Idle
<1>2. /\ Seen(n) \subseteq LSNs
      /\ \A l \in Seen(n) : l > cursor[n] /\ log[l] # NoEntry
      /\ k \in Seen(n) /\ \A l \in Seen(n) : l <= k
  BY <1>1, SeenIsAhead
<1> HIDE DEF k
<1>3. k \in 0..MaxLsn /\ k < next /\ k > cursor[n]
  BY <1>2 DEF LSNs
<1>4. cursor' = [cursor EXCEPT ![n] = k] /\ saved' = [saved EXCEPT ![n] = k]
  BY <1>1, <1>3, Advances DEF TypeOK
<1>5. ASSUME NEW c \in Cells
      PROVE  /\ Applied(n, Seen(n))[c] \in 0..MaxLsn
             /\ Applied(n, Seen(n))[c] <= k
             /\ WritesOf(c) \cap Seen(n) # {} => log[Applied(n, Seen(n))[c]] \in Entry
  <2>1. CASE WritesOf(c) \cap Seen(n) = {}
    <3>1. Applied(n, Seen(n))[c] = from[n][c]
      BY <2>1 DEF Applied
    <3> QED BY <1>1, <1>3, <2>1, <3>1 DEF TypeOK, Bounded
  <2>2. CASE WritesOf(c) \cap Seen(n) # {}
    BY <1>2, <2>2, AppliedIsSeen DEF LSNs
  <2> QED BY <2>1, <2>2
<1>6. from' \in [Nodes -> [Cells -> 0..MaxLsn]]
  <2>1. Applied(n, Seen(n)) \in [Cells -> 0..MaxLsn]
    BY <1>5 DEF Applied
  <2> QED BY <1>1, <2>1 DEF TypeOK
<1>7. df' \in [Nodes -> [Cells -> Values]]
  <2> DEFINE new == [c \in Cells |-> IF WritesOf(c) \cap Seen(n) = {} THEN df[n][c]
                                     ELSE log[Applied(n, Seen(n))[c]].new]
  <2>1. new \in [Cells -> Values]
    BY <1>5 DEF TypeOK, Entry
  <2>2. df' = [df EXCEPT ![n] = new]
    BY DEF Replay, TypeOK
  <2> HIDE DEF new
  <2> QED BY <2>1, <2>2 DEF TypeOK
<1>8. TypeOK'
  BY <1>1, <1>3, <1>4, <1>6, <1>7 DEF TypeOK
<1>9. ASSUME NEW q \in Nodes PROVE Bounded(q)'
  <2>1. CASE q = n
    BY <1>1, <1>3, <1>4, <1>5, <2>1 DEF Bounded, TypeOK
  <2>2. CASE q # n
    BY <1>1, <1>4, <2>2 DEF Bounded, TypeOK
  <2> QED BY <2>1, <2>2
<1> QED BY <1>1, <1>8, <1>9

LEMMA InvStep == Inv /\ [Next]_vars => Inv'
<1> SUFFICES ASSUME Inv, [Next]_vars PROVE Inv'
  OBVIOUS
<1>1. ASSUME NEW n \in Nodes, NEW c \in Cells, NEW v \in Values, Submit(n, c, v) PROVE Inv'
  <2>1. [cell |-> c, new |-> v, state |-> "COMMITTED"] \in Entry
    BY DEF Entry
  <2> QED BY <1>1, <2>1, SubmitKeeps DEF Submit
<1>2. ASSUME NEW n \in Nodes, NEW e \in Entry, SubmitElse(n, e) PROVE Inv'
  BY <1>2, SubmitKeeps DEF SubmitElse
<1>3. ASSUME NEW n \in Nodes, Publish(n) PROVE Inv'
  BY <1>3, PublishKeeps
<1>4. ASSUME NEW n \in Nodes, Replay(n) PROVE Inv'
  BY <1>4, ReplayKeeps
<1>5. ASSUME NEW n \in Nodes, Restart(n) PROVE Inv'
  BY <1>5, BlankIsValue, BoundsAreNat
     DEF Restart, Inv, TypeOK, Bounded, Nothing, Nowhere, LSNs
<1>6. ASSUME NEW n \in Nodes, NEW m \in Nodes, ChangeLeader(n, m) PROVE Inv'
  BY <1>6, BoundsAreNat DEF ChangeLeader, Inv, TypeOK, Bounded
<1>7. CASE UNCHANGED vars
  BY <1>7 DEF vars, Inv, TypeOK, Bounded
<1> QED BY <1>1, <1>2, <1>3, <1>4, <1>5, <1>6, <1>7 DEF Next, Quiet

LEMMA Invariant == Spec => []Inv
BY InvInit, InvStep, PTL DEF Spec

(* Every state of the log, the write nodes and the cursors is well typed. *)
THEOREM TypeCorrect == Spec => []TypeOK
<1>1. Inv => TypeOK
  BY DEF Inv
<1> QED BY <1>1, Invariant, PTL

(* Neither submit nor replay nor a restart moves a cursor back. *)
THEOREM CursorsOnlyAdvance == Spec => CursorNeverRegresses
<1> DEFINE Up == \A n \in Nodes : cursor'[n] >= cursor[n]
<1>1. Inv /\ [Next]_vars => [Up]_vars
  <2> SUFFICES ASSUME Inv, Next PROVE Up
    BY DEF vars
  <2> USE BoundsAreNat DEF Inv
  <2>1. \A n \in Nodes : cursor[n] \in Nat /\ saved[n] = cursor[n]
    BY DEF TypeOK, Bounded
  <2>2. ASSUME NEW n \in Nodes, NEW k \in 0..MaxLsn, AdvanceCursor(n, k) PROVE Up
    <3>1. PICK m \in 0..MaxLsn : /\ m = IF k >= cursor[n] THEN k ELSE cursor[n]
                                 /\ cursor' = [cursor EXCEPT ![n] = m]
      BY <2>2, Advances
    <3>2. m >= cursor[n]
      BY <2>1, <3>1
    <3> QED BY <2>1, <3>1, <3>2 DEF TypeOK
  <2>3. ASSUME NEW n \in Nodes, Publish(n) PROVE Up
    BY <2>2, <2>3 DEF Publish, TypeOK
  <2>4. ASSUME NEW n \in Nodes, Replay(n) PROVE Up
    <3>1. CursorAfter(n, Seen(n)) \in 0..MaxLsn
      BY <2>4, SeenIsAhead DEF Replay, LSNs
    <3> QED BY <2>2, <2>4, <3>1 DEF Replay
  <2>5. ASSUME NEW n \in Nodes, Restart(n) PROVE Up
    BY <2>1, <2>5 DEF Restart, TypeOK
  <2> QED BY <2>1, <2>3, <2>4, <2>5
      DEF Next, Submit, SubmitElse, TakeLsn, ChangeLeader, Quiet, vars
<1> QED BY <1>1, Invariant, PTL DEF Spec, CursorNeverRegresses

(* Replay, beside the node's own writes and whatever leaders overlap, takes a cell
   forward in the log only. *)
THEOREM CellsOnlyAdvance == Spec => CellsNeverGoBack
<1> DEFINE Forward == \A n \in Nodes : \/ from'[n] = Nowhere
                                       \/ \A c \in Cells : from'[n][c] >= from[n][c]
<1>1. Inv /\ [Next]_vars => [Forward]_vars
  <2> SUFFICES ASSUME Inv, Next PROVE Forward
    BY DEF vars
  <2> USE BoundsAreNat DEF Inv
  <2>1. \A n \in Nodes, c \in Cells : from[n][c] \in Nat /\ cursor[n] \in Nat
    BY DEF TypeOK
  <2>2. CASE from' = from
    BY <2>1, <2>2
  <2>3. ASSUME NEW n \in Nodes, NEW c \in Cells, NEW v \in Values, Submit(n, c, v)
        PROVE  Forward
    <3>1. from[n][c] <= cursor[n] /\ cursor[n] < next /\ next \in Nat
      BY <2>1, <2>3 DEF Submit, MaySubmit, Idle, Bounded, TypeOK
    <3> QED BY <2>1, <2>3, <3>1 DEF Submit, TypeOK
  <2>4. ASSUME NEW n \in Nodes, Replay(n) PROVE Forward
    <3>1. from' = [from EXCEPT ![n] = Applied(n, Seen(n))] /\ lsn[n] = 0 /\ Seen(n) # {}
      BY <2>4 DEF Replay, Idle
    <3>2. ASSUME NEW c \in Cells PROVE Applied(n, Seen(n))[c] >= from[n][c]
      <4>1. CASE WritesOf(c) \cap Seen(n) = {}
        BY <2>1, <4>1 DEF Applied
      <4>2. CASE WritesOf(c) \cap Seen(n) # {}
        <5>1. Applied(n, Seen(n))[c] \in Seen(n)
          BY <4>2, AppliedIsSeen
        <5>2. Applied(n, Seen(n))[c] > cursor[n] /\ Applied(n, Seen(n))[c] \in Nat
          BY <3>1, <5>1, SeenIsAhead DEF LSNs
        <5>3. from[n][c] <= cursor[n]
          BY <2>1, <3>1 DEF Bounded
        <5> QED BY <2>1, <5>2, <5>3
      <4> QED BY <4>1, <4>2
    <3> QED BY <2>1, <3>1, <3>2 DEF TypeOK
  <2>5. ASSUME NEW n \in Nodes, Restart(n) PROVE Forward
    BY <2>1, <2>5 DEF Restart, TypeOK
  <2> QED BY <2>2, <2>3, <2>4, <2>5 DEF Next, SubmitElse, Publish, ChangeLeader, Quiet, vars
<1> QED BY <1>1, Invariant, PTL DEF Spec, CellsNeverGoBack

(***************************************************************************)
(* Under one leader, every node holds a prefix of the log.                 *)
(***************************************************************************)

(* What the log says of cell c after its first k entries. *)
Said(c, k) == IF LastWrite(c, k) = 0 THEN Blank ELSE log[LastWrite(c, k)].new

(* Node n has written cell c and not logged it yet. *)
InFlight(n, c) == ~Idle(n) /\ entry[n].cell = c /\ entry[n].state = "COMMITTED"

Holds(n) == \A c \in Cells : df[n][c] = IF InFlight(n, c) THEN entry[n].new ELSE Said(c, cursor[n])

(* The leader alone appends, always past everything in the log, and no cursor is
   ahead of its own. *)
OneAppends ==
  /\ \A n \in Nodes : leader[n] = First
  /\ \A n \in Nodes : n # First => Idle(n)
  /\ \A n \in Nodes : cursor[n] <= cursor[First]
  /\ \A l \in LSNs : log[l] # NoEntry => l <= cursor[First]
  /\ ~Idle(First) => lsn[First] > cursor[First] /\ entry[First] \in Entry

PrefixHeld == OneAppends /\ \A n \in Nodes \ restarted : Holds(n)

OneLeader == changes = 0 => PrefixHeld

LEMMA LastWriteOf ==
  ASSUME NEW c, NEW k \in Nat
  PROVE  /\ LastWrite(c, k) = 0 \/ LastWrite(c, k) \in WritesOf(c)
         /\ LastWrite(c, k) <= k
         /\ \A w \in WritesOf(c) : w <= k => w <= LastWrite(c, k)
<1> DEFINE S == {0} \cup {l \in WritesOf(c) : l <= k}
<1>1. S \in SUBSET (0..MaxLsn) /\ S # {} /\ MaxLsn \in Nat
  BY BoundsAreNat DEF WritesOf, LSNs
<1>2. Max(S) \in S /\ \A y \in S : y <= Max(S)
  BY <1>1, MaxOf
<1>3. LastWrite(c, k) = Max(S)
  BY DEF LastWrite
<1>4. S \subseteq {0} \cup WritesOf(c) /\ (\A y \in S : y <= k)
      /\ (\A w \in WritesOf(c) : w <= k => w \in S)
  OBVIOUS
<1> HIDE DEF S
<1> QED BY <1>2, <1>3, <1>4

LEMMA LastWriteIs ==
  ASSUME NEW c, NEW k \in Nat, NEW l \in WritesOf(c), l <= k,
         \A w \in WritesOf(c) : w <= k => w <= l
  PROVE  LastWrite(c, k) = l /\ l \in LSNs
<1> DEFINE S == {0} \cup {w \in WritesOf(c) : w <= k}
<1>1. S \in SUBSET Int /\ l \in S /\ l \in LSNs
  BY BoundsAreNat DEF WritesOf, LSNs
<1>2. \A y \in S : y <= l
  BY <1>1 DEF LSNs
<1>3. Max(S) = l
  BY <1>1, <1>2, MaxIs
<1> QED BY <1>1, <1>3 DEF LastWrite

(* What the log says of a cell up to k depends on its writes up to k only. *)
LEMMA SaidAgain ==
  ASSUME NEW c, NEW k \in Nat, NEW m \in Nat,
         \A l \in LSNs : (l \in WritesOf(c) /\ l <= k) <=> (l \in WritesOf(c)' /\ l <= m),
         \A l \in LSNs : l \in WritesOf(c) /\ l <= k => log'[l] = log[l]
  PROVE  Said(c, m)' = Said(c, k)
<1>1. {l \in WritesOf(c)' : l <= m} = {l \in WritesOf(c) : l <= k}
  BY DEF WritesOf
<1>2. LastWrite(c, m)' = LastWrite(c, k)
  BY <1>1 DEF LastWrite
<1>3. LastWrite(c, k) # 0 => LastWrite(c, k) \in WritesOf(c) /\ LastWrite(c, k) <= k
  BY LastWriteOf
<1>4. LastWrite(c, k) # 0 => log'[LastWrite(c, k)] = log[LastWrite(c, k)]
  BY <1>3 DEF WritesOf
<1>5. Said(c, m)' = IF LastWrite(c, k) = 0 THEN Blank ELSE log'[LastWrite(c, k)].new
  BY <1>2 DEF Said
<1> QED BY <1>4, <1>5 DEF Said

LEMMA OneLeaderInit == Init => OneLeader
<1> SUFFICES ASSUME Init PROVE OneAppends /\ \A n \in Nodes : Holds(n)
  BY DEF OneLeader, PrefixHeld
<1>1. OneAppends
  BY FirstIsNode, BoundsAreNat DEF Init, OneAppends, Idle, LSNs
<1>2. ASSUME NEW n \in Nodes, NEW c \in Cells PROVE Said(c, cursor[n]) = Blank
  <2>1. WritesOf(c) = {}
    BY DEF Init, WritesOf, Committed
  <2>2. cursor[n] \in Nat
    BY DEF Init
  <2> QED BY <2>1, <2>2, LastWriteOf DEF Said
<1>3. \A n \in Nodes : Holds(n)
  BY <1>2 DEF Holds, InFlight, Init, Idle, Nothing
<1> QED BY <1>1, <1>3

(* Nothing a cell's log says changes with the log and the cursors. *)
LEMMA SaidSame ==
  ASSUME UNCHANGED <<log, cursor>>, NEW n \in Nodes, NEW c \in Cells
  PROVE  Said(c, cursor[n])' = Said(c, cursor[n])
BY DEF Said, LastWrite, WritesOf, Committed

LEMMA SubmitHolds ==
  ASSUME Inv, PrefixHeld, NEW n \in Nodes, NEW e \in Entry, MaySubmit(n), TakeLsn(n, e),
         UNCHANGED <<leader, log, cursor, restarted>>,
         \/ df' = df /\ (e.cell = Structure \/ e.state = "ROLLED_BACK")
         \/ df' = [df EXCEPT ![n][e.cell] = e.new] /\ e.cell \in Cells /\ e.state = "COMMITTED"
  PROVE  PrefixHeld'
<1> USE BoundsAreNat DEF Inv, PrefixHeld
<1>1. n = First /\ Idle(n) /\ next \in 1..MaxLsn
  BY DEF MaySubmit, OneAppends, TakeLsn, TypeOK
<1>2. lsn' = [lsn EXCEPT ![n] = next] /\ entry' = [entry EXCEPT ![n] = e]
  BY DEF TakeLsn
<1>3. lsn'[n] = next /\ entry'[n] = e /\ next > cursor[n]
      /\ \A q \in Nodes : q # n => lsn'[q] = lsn[q] /\ entry'[q] = entry[q]
  BY <1>1, <1>2, FirstIsNode DEF TypeOK, Bounded
<1>4. OneAppends'
  BY <1>1, <1>3, FirstIsNode DEF OneAppends, Idle
<1>5. ASSUME NEW q \in Nodes \ restarted, NEW c \in Cells
      PROVE  df'[q][c] = IF InFlight(q, c)' THEN entry'[q].new ELSE Said(c, cursor[q])'
  <2>1. Said(c, cursor[q])' = Said(c, cursor[q])
    BY SaidSame
  <2>2. df[q][c] = IF InFlight(q, c) THEN entry[q].new ELSE Said(c, cursor[q])
    BY DEF Holds
  <2>3. CASE q # n
    <3>1. InFlight(q, c)' <=> InFlight(q, c)
      BY <1>3, <2>3 DEF InFlight, Idle
    <3>2. df'[q] = df[q]
      BY <2>3 DEF TypeOK
    <3> QED BY <1>3, <2>1, <2>2, <2>3, <3>1, <3>2
  <2>4. CASE q = n
    <3>1. ~InFlight(n, c)
      BY <1>1 DEF InFlight
    <3>2. InFlight(n, c)' <=> e.cell = c /\ e.state = "COMMITTED"
      BY <1>1, <1>3 DEF InFlight, Idle
    <3>3. CASE df' = df /\ (e.cell = Structure \/ e.state = "ROLLED_BACK")
      BY <2>1, <2>2, <2>4, <3>1, <3>2, <3>3, StructureIsNoCell
    <3>4. CASE /\ df' = [df EXCEPT ![n][e.cell] = e.new]
               /\ e.cell \in Cells /\ e.state = "COMMITTED"
      <4>1. df'[n][c] = IF c = e.cell THEN e.new ELSE df[n][c]
        BY <3>4 DEF TypeOK
      <4> QED BY <1>3, <2>1, <2>2, <2>4, <3>1, <3>2, <3>4, <4>1
    <3> QED BY <3>3, <3>4
  <2> QED BY <2>3, <2>4
<1> QED BY <1>4, <1>5 DEF Holds

LEMMA PublishHolds ==
  ASSUME Inv, PrefixHeld, NEW n \in Nodes, Publish(n)
  PROVE  PrefixHeld'
<1> USE BoundsAreNat DEF Inv, PrefixHeld
<1>1. n = First /\ ~Idle(n)
  BY DEF Publish, OneAppends
<1>2. /\ lsn[n] \in LSNs /\ lsn[n] > cursor[n] /\ entry[n] \in Entry
      /\ log' = [log EXCEPT ![lsn[n]] = entry[n]]
      /\ lsn' = [lsn EXCEPT ![n] = 0] /\ entry' = [entry EXCEPT ![n] = NoEntry]
      /\ UNCHANGED <<leader, next, df, from, changes, restarted>>
  BY <1>1 DEF Publish, OneAppends, Idle, TypeOK, LSNs
<1>3. cursor' = [cursor EXCEPT ![n] = lsn[n]]
  <2>1. lsn[n] \in 0..MaxLsn /\ AdvanceCursor(n, lsn[n])
    BY DEF Publish, TypeOK
  <2>2. PICK m \in 0..MaxLsn : /\ m = IF lsn[n] >= cursor[n] THEN lsn[n] ELSE cursor[n]
                               /\ cursor' = [cursor EXCEPT ![n] = m]
    BY <2>1, Advances
  <2>3. m = lsn[n]
    BY <1>2, <2>2 DEF TypeOK, LSNs
  <2> QED BY <2>2, <2>3
<1>4. /\ cursor'[n] = lsn[n] /\ \A q \in Nodes : q # n => cursor'[q] = cursor[q]
      /\ log'[lsn[n]] = entry[n] /\ \A l \in LSNs : l # lsn[n] => log'[l] = log[l]
      /\ \A q \in Nodes : Idle(q)'
      /\ \A q \in Nodes : cursor[q] <= cursor[n]
      /\ \A q \in Nodes : cursor[q] \in Nat
      /\ \A l \in LSNs : l \in Nat /\ (log[l] # NoEntry => l <= cursor[n])
  BY <1>1, <1>2, <1>3 DEF TypeOK, OneAppends, Idle, LSNs
<1>5. OneAppends'
  BY <1>1, <1>2, <1>4, FirstIsNode DEF OneAppends
<1>6. ASSUME NEW q \in Nodes \ restarted, NEW c \in Cells
      PROVE  df'[q][c] = Said(c, cursor[q])'
  <2>1. df[q][c] = IF InFlight(q, c) THEN entry[q].new ELSE Said(c, cursor[q])
    BY DEF Holds
  <2>2. \A l \in LSNs : l # lsn[n] => (l \in WritesOf(c)' <=> l \in WritesOf(c))
    BY <1>4 DEF WritesOf, Committed
  <2>3. \A l \in LSNs : l \in WritesOf(c) => l <= cursor[n]
    BY <1>4 DEF WritesOf, Committed
  <2>4. lsn[n] \in WritesOf(c)' <=> entry[n].state = "COMMITTED" /\ entry[n].cell = c
    BY <1>2, <1>4, NoEntryIsNone DEF WritesOf, Committed
  <2>5. CASE q # n
    <3>1. cursor[q] < lsn[n] /\ ~InFlight(q, c) /\ cursor'[q] = cursor[q]
      BY <1>1, <1>2, <1>4, <2>5 DEF OneAppends, InFlight, LSNs
    <3>2. \A l \in LSNs : (l \in WritesOf(c) /\ l <= cursor[q])
                            <=> (l \in WritesOf(c)' /\ l <= cursor[q])
      BY <1>2, <1>4, <2>2, <3>1
    <3>3. \A l \in LSNs : l \in WritesOf(c) /\ l <= cursor[q] => log'[l] = log[l]
      BY <1>2, <1>4, <3>1
    <3>4. PICK k \in Nat : k = cursor[q]
      BY <1>4
    <3>5. Said(c, k)' = Said(c, k)
      BY <3>2, <3>3, <3>4, SaidAgain
    <3>6. Said(c, cursor[q])' = Said(c, k)'
      BY <3>1, <3>4 DEF Said, LastWrite
    <3> QED BY <1>2, <2>1, <3>1, <3>4, <3>5, <3>6
  <2>6. CASE q = n /\ InFlight(n, c)
    <3>1. lsn[n] \in WritesOf(c)'
      BY <2>4, <2>6 DEF InFlight
    <3>2. LastWrite(c, cursor[n])' = lsn[n]
      <4>1. PICK k \in Nat : k = lsn[n]
        BY <1>2, <1>4
      <4> DEFINE S == {0} \cup {w \in WritesOf(c)' : w <= k}
      <4>2. S \in SUBSET Int /\ k \in S /\ \A y \in S : y <= k
        BY <3>1, <4>1 DEF WritesOf, LSNs
      <4>3. Max(S) = k
        BY <4>2, MaxIs
      <4> QED BY <1>4, <4>1, <4>3 DEF LastWrite
    <3>3. lsn[n] # 0 /\ log'[lsn[n]].new = entry[n].new
      BY <1>2, <1>4 DEF LSNs
    <3> QED BY <1>2, <2>1, <2>6, <3>2, <3>3 DEF Said
  <2>7. CASE q = n /\ ~InFlight(n, c)
    <3>1. PICK k \in Nat : k = cursor[n]
      BY <1>4
    <3>2. PICK m \in Nat : m = lsn[n]
      BY <1>2, <1>4
    <3>3. lsn[n] \notin WritesOf(c)'
      BY <1>1, <2>4, <2>7 DEF InFlight
    <3>4. lsn[n] \notin WritesOf(c)
      BY <1>2, <1>4, <2>3, <3>1, <3>2
    <3>5. \A l \in LSNs : (l \in WritesOf(c) /\ l <= k) <=> (l \in WritesOf(c)' /\ l <= m)
      BY <1>2, <1>4, <2>2, <2>3, <3>1, <3>2, <3>3, <3>4
    <3>6. \A l \in LSNs : l \in WritesOf(c) /\ l <= k => log'[l] = log[l]
      BY <1>4, <3>4
    <3>7. Said(c, m)' = Said(c, k)
      BY <3>5, <3>6, SaidAgain
    <3>8. Said(c, cursor[n])' = Said(c, m)'
      BY <1>4, <3>2 DEF Said, LastWrite
    <3> QED BY <1>2, <2>1, <2>7, <3>1, <3>7, <3>8
  <2> QED BY <2>5, <2>6, <2>7
<1> QED BY <1>2, <1>4, <1>5, <1>6 DEF Holds, InFlight

(* An iteration leaves out no committed entry between the cursor and where it
   ends. *)
LEMMA SeenIsAll ==
  ASSUME TypeOK, NEW n \in Nodes, NEW k \in Seen(n), NEW l \in LSNs,
         log[l] # NoEntry, l > cursor[n], l <= k
  PROVE  l \in Seen(n)
<1>1. \A j \in WritesOf(Structure) : j > cursor[n] => j > k /\ j \in LSNs /\ k \in LSNs
  BY DEF Seen, WritesOf
<1>2. \A j \in WritesOf(Structure) : j > cursor[n] => j > l
  BY <1>1, BoundsAreNat DEF LSNs
<1> QED BY <1>2 DEF Seen

LEMMA ReplayHolds ==
  ASSUME Inv, PrefixHeld, NEW n \in Nodes, Replay(n)
  PROVE  PrefixHeld'
<1> USE BoundsAreNat DEF Inv, PrefixHeld
<1> DEFINE k == CursorAfter(n, Seen(n))
<1>1. /\ Seen(n) # {} /\ Idle(n)
      /\ AdvanceCursor(n, k)
      /\ UNCHANGED <<leader, log, next, lsn, entry, changes, restarted>>
  BY DEF Replay
<1>2. /\ Seen(n) \subseteq LSNs
      /\ \A l \in Seen(n) : l > cursor[n] /\ log[l] # NoEntry
      /\ k \in Seen(n) /\ \A l \in Seen(n) : l <= k
  BY <1>1, SeenIsAhead
<1>3. PICK m \in Nat : m = k
  BY <1>2 DEF LSNs
<1> HIDE DEF k
<1>4. m \in 0..MaxLsn /\ m > cursor[n] /\ m <= cursor[First] /\ n # First
  BY <1>2, <1>3, FirstIsNode DEF OneAppends, LSNs, TypeOK
<1>5. cursor' = [cursor EXCEPT ![n] = m]
  BY <1>1, <1>3, <1>4, Advances
<1>6. cursor'[n] = m /\ \A q \in Nodes : q # n => cursor'[q] = cursor[q]
  BY <1>5 DEF TypeOK
<1>7. OneAppends'
  BY <1>1, <1>4, <1>6, FirstIsNode DEF OneAppends, Idle
<1>8. ASSUME NEW q \in Nodes \ restarted, NEW c \in Cells
      PROVE  df'[q][c] = IF InFlight(q, c) THEN entry[q].new ELSE Said(c, cursor[q])'
  <2>1. df[q][c] = IF InFlight(q, c) THEN entry[q].new ELSE Said(c, cursor[q])
    BY DEF Holds
  <2>2. WritesOf(c)' = WritesOf(c)
    BY <1>1 DEF WritesOf, Committed
  <2>3. CASE q # n
    <3>1. df'[q] = df[q]
      BY <2>3 DEF Replay, TypeOK
    <3>2. Said(c, cursor[q])' = Said(c, cursor[q])
      BY <1>1, <1>6, <2>2, <2>3 DEF Said, LastWrite
    <3> QED BY <2>1, <3>1, <3>2
  <2>4. CASE q = n
    <3>1. ~InFlight(n, c)
      BY <1>1 DEF InFlight
    <3>2. df'[n][c] = IF WritesOf(c) \cap Seen(n) = {} THEN df[n][c]
                      ELSE log[Applied(n, Seen(n))[c]].new
      BY DEF Replay, TypeOK
    <3>3. Said(c, cursor[n])' = Said(c, m)
      BY <1>1, <1>6, <2>2 DEF Said, LastWrite
    <3>4. \A w \in WritesOf(c) : w > cursor[n] /\ w <= m => w \in Seen(n)
      <4>1. \A w \in WritesOf(c) : w \in LSNs /\ log[w] # NoEntry
        BY DEF WritesOf, Committed
      <4> QED BY <1>2, <1>3, <4>1, SeenIsAll
    <3>5. cursor[n] \in Nat /\ WritesOf(c) \subseteq Nat
      BY DEF TypeOK, WritesOf, LSNs
    <3>6. CASE WritesOf(c) \cap Seen(n) = {}
      <4>1. {w \in WritesOf(c) : w <= m} = {w \in WritesOf(c) : w <= cursor[n]}
        BY <1>4, <3>4, <3>5, <3>6
      <4>2. Said(c, m) = Said(c, cursor[n])
        BY <4>1 DEF Said, LastWrite
      <4> QED BY <2>1, <2>4, <3>1, <3>2, <3>3, <3>6, <4>2
    <3>7. CASE WritesOf(c) \cap Seen(n) # {}
      <4> DEFINE a == Applied(n, Seen(n))[c]
      <4>1. a \in WritesOf(c) \cap Seen(n) /\ \A l \in WritesOf(c) \cap Seen(n) : l <= a
        BY <3>7, AppliedIsSeen
      <4> HIDE DEF a
      <4>2. a <= m /\ a > cursor[n]
        BY <1>2, <1>3, <4>1
      <4>3. \A w \in WritesOf(c) : w <= m => w <= a
        BY <3>4, <3>5, <4>1, <4>2
      <4>4. LastWrite(c, m) = a /\ a # 0
        BY <4>1, <4>2, <4>3, LastWriteIs DEF LSNs
      <4>5. df'[n][c] = log[a].new
        BY <3>2, <3>7 DEF a
      <4> QED BY <2>4, <3>1, <3>3, <4>4, <4>5 DEF Said
    <3> QED BY <3>6, <3>7
  <2> QED BY <2>3, <2>4
<1> QED BY <1>1, <1>7, <1>8 DEF Holds, InFlight, Idle

LEMMA RestartHolds ==
  ASSUME Inv, PrefixHeld, NEW n \in Nodes, Restart(n)
  PROVE  PrefixHeld'
<1> USE DEF Inv, PrefixHeld
<1>1. /\ lsn' = [lsn EXCEPT ![n] = 0] /\ cursor' = cursor
      /\ restarted' = restarted \cup {n}
      /\ UNCHANGED <<leader, log>>
      /\ \A q \in Nodes : q # n => df'[q] = df[q] /\ lsn'[q] = lsn[q] /\ entry'[q] = entry[q]
  BY DEF Restart, TypeOK, Bounded
<1>2. lsn'[n] = 0
  BY <1>1 DEF TypeOK
<1>3. OneAppends'
  BY <1>1, <1>2, FirstIsNode DEF OneAppends, Idle
<1>4. ASSUME NEW q \in Nodes \ restarted' PROVE Holds(q)'
  <2>1. q # n /\ Holds(q)
    BY <1>1
  <2>2. \A c \in Cells : Said(c, cursor[q])' = Said(c, cursor[q])
    BY <1>1, SaidSame
  <2> QED BY <1>1, <2>1, <2>2 DEF Holds, InFlight, Idle
<1> QED BY <1>3, <1>4

LEMMA OneLeaderStep == Inv /\ OneLeader /\ [Next]_vars => OneLeader'
<1> SUFFICES ASSUME Inv, OneLeader, [Next]_vars, changes' = 0 PROVE PrefixHeld'
  BY DEF OneLeader
<1>1. \A n, m \in Nodes : ~ChangeLeader(n, m)
  BY BoundsAreNat DEF ChangeLeader, Inv, TypeOK
<1>2. PrefixHeld
  <2>1. changes = 0
    BY <1>1 DEF Next, Quiet, vars, Submit, SubmitElse, Publish, Replay, Restart
  <2> QED BY <2>1 DEF OneLeader
<1>3. ASSUME NEW n \in Nodes, NEW c \in Cells, NEW v \in Values, Submit(n, c, v)
      PROVE  PrefixHeld'
  <2> DEFINE e == [cell |-> c, new |-> v, state |-> "COMMITTED"]
  <2>1. e \in Entry /\ e.cell = c /\ e.new = v /\ e.state = "COMMITTED"
    BY DEF Entry
  <2>2. MaySubmit(n) /\ TakeLsn(n, e) /\ UNCHANGED <<leader, log, cursor, restarted>>
        /\ df' = [df EXCEPT ![n][c] = v]
    BY <1>3 DEF Submit
  <2> HIDE DEF e
  <2> QED BY <1>2, <2>1, <2>2, SubmitHolds
<1>4. ASSUME NEW n \in Nodes, NEW e \in Entry, SubmitElse(n, e) PROVE PrefixHeld'
  BY <1>2, <1>4, SubmitHolds DEF SubmitElse
<1>5. CASE UNCHANGED vars
  <2>1. \A n \in Nodes, c \in Cells : Said(c, cursor[n])' = Said(c, cursor[n])
    BY <1>5, SaidSame DEF vars
  <2> QED BY <1>2, <1>5, <2>1 DEF vars, PrefixHeld, OneAppends, Holds, InFlight, Idle
<1> QED BY <1>1, <1>2, <1>3, <1>4, <1>5, PublishHolds, ReplayHolds, RestartHolds
    DEF Next, Quiet

(* While nobody changes leader, a node that has not restarted holds the log up to
   its cursor whenever its event loop is free. *)
THEOREM OneLeaderPrefix == Spec => []PrefixUnderOneLeader
<1>1. OneLeader => PrefixUnderOneLeader
  BY DEF OneLeader, PrefixHeld, PrefixUnderOneLeader, Holds, HoldsPrefix, InFlight, Said
<1> QED BY <1>1, OneLeaderInit, OneLeaderStep, Invariant, PTL DEF Spec

(* Then the cursor says it all: two such nodes whose cursors agree show the same
   value in every cell, the leader among them. *)
SameCursorSameCells ==
  changes = 0 =>
    \A m, n \in Nodes \ restarted :
      Idle(m) /\ Idle(n) /\ cursor[m] = cursor[n] => df[m] = df[n]

(* Two nodes that have replayed the log equally far hold the same cells, whatever
   each of them wrote itself and whatever it was sent. *)
THEOREM EqualCursorsEqualCells == Spec => []SameCursorSameCells
<1>1. TypeOK /\ PrefixUnderOneLeader => SameCursorSameCells
  <2> SUFFICES ASSUME TypeOK, PrefixUnderOneLeader, changes = 0,
                      NEW m \in Nodes \ restarted, NEW n \in Nodes \ restarted,
                      Idle(m), Idle(n), cursor[m] = cursor[n]
               PROVE  df[m] = df[n]
    BY DEF SameCursorSameCells
  <2>1. HoldsPrefix(m) /\ HoldsPrefix(n)
    BY DEF PrefixUnderOneLeader
  <2>2. \A c \in Cells : df[m][c] = df[n][c]
    BY <2>1 DEF HoldsPrefix
  <2>3. df[m] \in [Cells -> Values] /\ df[n] \in [Cells -> Values]
    BY DEF TypeOK
  <2> QED BY <2>2, <2>3
<1> QED BY <1>1, TypeCorrect, OneLeaderPrefix, PTL

(***************************************************************************)
(* Where replay ends: at the first committed structural entry.             *)
(***************************************************************************)

(* A cursor passes a structural entry only in an append of the node's own that
   is under way: the ValueError that ends an iteration of the replay loop ends
   all the later ones at the same place, and a restart is of no help. *)
PassesByAppend ==
  \A n \in Nodes : \A s \in WritesOf(Structure) :
    cursor[n] < s /\ cursor'[n] >= s => ~Idle(n) /\ lsn[n] >= s

LEMMA PassesStep == Inv /\ [Next]_vars => [PassesByAppend]_vars
<1> SUFFICES ASSUME Inv, Next PROVE PassesByAppend
  BY DEF vars
<1> USE BoundsAreNat DEF Inv
<1>1. \A n \in Nodes, s \in WritesOf(Structure) :
        /\ s \in LSNs /\ s \in Nat /\ log[s] # NoEntry
        /\ cursor[n] \in 0..MaxLsn /\ cursor[n] \in Nat /\ saved[n] = cursor[n]
  BY DEF TypeOK, Bounded, WritesOf, Committed, LSNs
<1>2. ASSUME NEW n \in Nodes, NEW k \in 0..MaxLsn, AdvanceCursor(n, k),
             \A s \in WritesOf(Structure) :
               cursor[n] < s /\ k >= s => ~Idle(n) /\ lsn[n] >= s
      PROVE  PassesByAppend
  <2>1. PICK m \in 0..MaxLsn : /\ m = IF k >= cursor[n] THEN k ELSE cursor[n]
                               /\ cursor' = [cursor EXCEPT ![n] = m]
    BY <1>2, Advances
  <2>2. \A q \in Nodes : cursor'[q] = IF q = n THEN m ELSE cursor[q]
    BY <2>1 DEF TypeOK
  <2> QED BY <1>1, <1>2, <2>1, <2>2 DEF PassesByAppend
<1>3. ASSUME NEW n \in Nodes, Publish(n) PROVE PassesByAppend
  <2>1. ~Idle(n) /\ lsn[n] \in 0..MaxLsn /\ AdvanceCursor(n, lsn[n])
    BY <1>3 DEF Publish, TypeOK
  <2> QED BY <1>2, <2>1
<1>4. ASSUME NEW n \in Nodes, Replay(n) PROVE PassesByAppend
  <2> DEFINE k == CursorAfter(n, Seen(n))
  <2>1. AdvanceCursor(n, k) /\ Seen(n) # {}
    BY <1>4 DEF Replay
  <2>2. k \in Seen(n) /\ k \in LSNs
    BY <2>1, SeenIsAhead
  <2>3. \A s \in WritesOf(Structure) : s > cursor[n] => s > k
    BY <2>2 DEF Seen
  <2> HIDE DEF k
  <2>4. k \in 0..MaxLsn /\ \A s \in WritesOf(Structure) : ~(cursor[n] < s /\ k >= s)
    BY <1>1, <2>2, <2>3 DEF LSNs
  <2> QED BY <1>2, <2>1, <2>4
<1>5. ASSUME NEW n \in Nodes, Restart(n) PROVE PassesByAppend
  <2>1. \A q \in Nodes : cursor'[q] = cursor[q]
    BY <1>5 DEF Restart, TypeOK, Bounded
  <2> QED BY <1>1, <2>1 DEF PassesByAppend
<1>6. CASE cursor' = cursor
  BY <1>1, <1>6 DEF PassesByAppend
<1> QED
  BY <1>3, <1>4, <1>5, <1>6 DEF Next, Submit, SubmitElse, TakeLsn, ChangeLeader, Quiet, vars

(* No iteration of the replay loop, and no restart, gets a node past a committed
   structural entry. *)
THEOREM StructureEndsReplay == Spec => [][PassesByAppend]_vars
BY Invariant, PassesStep, PTL DEF Spec
=============================================================================
