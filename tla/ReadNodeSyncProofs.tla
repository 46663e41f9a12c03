------------------------- MODULE ReadNodeSyncProofs -------------------------
(***************************************************************************)
(* Proofs about ReadNodeSync, for any writers, workers, cells and deltas,  *)
(* any batch size and any number of versions: no operation is stranded in  *)
(* the buffer, the cache follows the write node, and so does its version.  *)
(***************************************************************************)
EXTENDS ReadNodeSync, NaturalLemmas, FiniteSetTheorems

(***************************************************************************)
(* Types: nothing on its way is newer than the write node.                 *)
(***************************************************************************)

Sent(v) == [cells : Deltas, stamp : 0..v, version : 0..v]
Held(v) == [cell : Cells \cup {Structure}, stamp : 0..v, version : 0..v]

Typed ==
  /\ version \in Stamps
  /\ df \in [Cells -> 0..version]
  /\ leaving \in [Writers -> Sent(version) \cup {Nothing}]
  /\ queue \in Seq(Sent(version))
  /\ work \in [Workers -> Sent(version) \cup {Nothing}]
  /\ buffer \in Seq(Held(version)) /\ Len(buffer) < BatchSize
  /\ timer \in {"none", "armed", "fired"}
  /\ late \in Nat
  /\ cache \in [Cells -> 0..version]
  /\ rversion \in 0..version
  /\ disk \in [Cells -> 0..version]
  /\ astray \subseteq Cells
  /\ cut \in BOOLEAN

LEMMA TypedIsTypeOK == Typed => TypeOK
<1> SUFFICES ASSUME Typed PROVE TypeOK
  OBVIOUS
<1>1. version \in Nat /\ version <= MaxVersion
  BY MaxVersionIsNat DEF Typed, Stamps
<1>2. Sent(version) \subseteq Delta /\ Held(version) \subseteq Op
  BY <1>1, MaxVersionIsNat DEF Sent, Held, Delta, Op, Stamps
<1>3. queue \in Seq(Delta) /\ buffer \in Seq(Op)
  BY <1>2 DEF Typed
<1> QED BY <1>2, <1>3 DEF Typed, TypeOK

(* The last place where P holds of a sequence. *)
LEMMA LastPlace ==
  ASSUME NEW n \in Nat, NEW S \in SUBSET (1..n), S # {}
  PROVE  \E i \in S : \A j \in S : j <= i
<1>1. S \in SUBSET (0..n)
  OBVIOUS
<1>2. \E i \in S : \A j \in S : i >= j
  BY <1>1, HasLargest
<1> QED BY <1>2

(* What a flush takes for a cell is the stamp of its last operation. *)
LEMMA LastUpdateOf ==
  ASSUME NEW v \in Nat, NEW ops \in Seq(Held(v)), NEW c,
         \E i \in DOMAIN ops : ops[i].cell = c
  PROVE  \E i \in DOMAIN ops :
           /\ ops[i].cell = c
           /\ \A j \in DOMAIN ops : ops[j].cell = c => j <= i
           /\ LastUpdate(ops, c) = ops[i].stamp
<1> DEFINE At == {i \in DOMAIN ops : ops[i].cell = c}
<1>1. At \in SUBSET (1..Len(ops)) /\ At # {} /\ Len(ops) \in Nat
  OBVIOUS
<1>2. \E i \in At : \A j \in At : j <= i
  BY <1>1, LastPlace
<1> DEFINE l == CHOOSE i \in At : \A j \in At : j <= i
<1>3. l \in At /\ \A j \in At : j <= l
  BY <1>2
<1>4. LastUpdate(ops, c) = ops[l].stamp
  BY DEF LastUpdate
<1> HIDE DEF l
<1> QED BY <1>3, <1>4

LEMMA HighestVersionOf ==
  ASSUME NEW v \in Nat, NEW ops \in Seq(Held(v)), ops # <<>>
  PROVE  /\ HighestVersion(ops) \in 0..v
         /\ \A i \in DOMAIN ops : ops[i].version <= HighestVersion(ops)
<1> DEFINE S == {ops[i].version : i \in DOMAIN ops}
<1>1. S \in SUBSET (0..v)
  <2>1. \A i \in DOMAIN ops : ops[i] \in Held(v)
    OBVIOUS
  <2> QED BY <2>1 DEF Held
<1>2. S # {}
  <2>1. 1 \in DOMAIN ops
    OBVIOUS
  <2> QED BY <2>1
<1>3. \E x \in S : \A y \in S : x >= y
  BY <1>1, <1>2, HasLargest
<1>4. \E x \in S : \A i \in DOMAIN ops : ops[i].version <= x
  BY <1>1, <1>3
<1>5. HighestVersion(ops) \in S /\ \A i \in DOMAIN ops : ops[i].version <= HighestVersion(ops)
  BY <1>4 DEF HighestVersion
<1> QED BY <1>1, <1>5

LEMMA FlushTyped ==
  ASSUME Typed, version' = version, NEW ops \in Seq(Held(version)), Flush(ops)
  PROVE  /\ buffer' = <<>> /\ timer' = "none" /\ disk' = disk
         /\ cache' \in [Cells -> 0..version]
         /\ rversion' \in 0..version
         /\ astray \subseteq astray' /\ astray' \subseteq Cells
         /\ cut' \in BOOLEAN
<1>0. version \in Nat
  BY MaxVersionIsNat DEF Typed, Stamps
<1>1. cache' \in [Cells -> 0..version]
  <2>0. cache \in [Cells -> 0..version]
    BY DEF Typed
  <2>1. CASE cache' = cache
    BY <2>0, <2>1
  <2>2. CASE (\A i \in DOMAIN ops : Parses(ops[i])) /\ cache' = Updated(ops)
    <3> DEFINE Touched == {ops[i].cell : i \in DOMAIN ops}
    <3>1. Cells \cup Touched = Cells
      BY <2>2 DEF Parses
    <3>2. \A c \in Touched : LastUpdate(ops, c) \in 0..version
      <4>1. \A i \in DOMAIN ops : ops[i] \in Held(version)
        OBVIOUS
      <4>2. \A i \in DOMAIN ops : ops[i].stamp \in 0..version
        BY <4>1 DEF Held
      <4>3. \A c \in Touched : \E i \in DOMAIN ops : LastUpdate(ops, c) = ops[i].stamp
        BY <1>0, LastUpdateOf
      <4> QED BY <4>2, <4>3
    <3>3. cache' = [c \in Cells \cup Touched |-> IF c \in Touched THEN LastUpdate(ops, c) ELSE cache[c]]
      BY <2>2 DEF Updated
    <3> HIDE DEF Touched
    <3> QED BY <2>0, <3>1, <3>2, <3>3
  <2> QED BY <2>1, <2>2 DEF Flush
<1>2. rversion' \in 0..version
  BY <1>0, HighestVersionOf DEF Flush, Typed
<1> QED BY <1>1, <1>2 DEF Flush, Typed

(* The operations of a delta. *)
LEMMA OpsOfTyped ==
  ASSUME NEW v \in Nat, NEW d \in Sent(v), NEW order \in Orders(d.cells)
  PROVE  /\ OpsOf(d, order) \in Seq(Held(v))
         /\ Len(OpsOf(d, order)) = Cardinality(d.cells)
         /\ \A i \in DOMAIN OpsOf(d, order) :
              OpsOf(d, order)[i].cell \in d.cells /\ OpsOf(d, order)[i].stamp = d.stamp
         /\ \A c \in d.cells : \E i \in DOMAIN OpsOf(d, order) : OpsOf(d, order)[i].cell = c
<1> DEFINE n == Cardinality(d.cells)
<1>1. n \in Nat
  BY DeltasAreCells, FS_CardinalityType DEF Sent
<1>2. order \in [1..n -> d.cells] /\ \A c \in d.cells : \E i \in DOMAIN order : order[i] = c
  BY DEF Orders
<1> HIDE DEF n
<1>3. OpsOf(d, order) = [i \in 1..n |-> [cell |-> order[i], stamp |-> d.stamp, version |-> d.version]]
  BY DEF OpsOf, n
<1>4. OpsOf(d, order) \in [1..n -> Held(v)]
  BY <1>2, <1>3, DeltasAreCells DEF Sent, Held
<1>5. OpsOf(d, order) \in Seq(Held(v)) /\ Len(OpsOf(d, order)) = n
  BY <1>1, <1>4
<1>6. DOMAIN OpsOf(d, order) = 1..n /\ DOMAIN order = 1..n
  BY <1>2, <1>3
<1>7. \A i \in 1..n : OpsOf(d, order)[i].cell = order[i] /\ OpsOf(d, order)[i].stamp = d.stamp
  BY <1>3
<1>8. \A i \in 1..n : order[i] \in d.cells
  BY <1>2
<1>9. n = Cardinality(d.cells)
  BY DEF n
<1> QED BY <1>2, <1>5, <1>6, <1>7, <1>8, <1>9

(***************************************************************************)
(* Each step keeps the types, and strands nothing.                         *)
(***************************************************************************)

Inv1 == Typed /\ NothingStranded

LEMMA InitTyped == Init => Inv1
<1> SUFFICES ASSUME Init PROVE Typed /\ NothingStranded
  BY DEF Inv1
<1>1. version = 0 /\ 0 \in Stamps /\ 0 \in 0..version
  BY MaxVersionIsNat DEF Init, Stamps
<1>2. queue \in Seq(Sent(version)) /\ buffer \in Seq(Held(version)) /\ Len(buffer) < BatchSize
  BY BatchSizeIsPositive DEF Init
<1>3. Typed
  BY <1>1, <1>2 DEF Init, Typed
<1> QED BY <1>3 DEF Init, NothingStranded

LEMMA ApplyTyped ==
  ASSUME Inv1, NEW t \in Writers, NEW d \in Deltas, Apply(t, d)
  PROVE  Inv1'
<1> USE DEF Inv1
<1>1. version \in Nat /\ version' = version + 1 /\ version' \in Stamps
  BY MaxVersionIsNat DEF Apply, Typed, Stamps
<1>2. Sent(version) \subseteq Sent(version') /\ Held(version) \subseteq Held(version')
      /\ 0..version \subseteq 0..version'
  BY <1>1 DEF Sent, Held
<1>3. queue \in Seq(Sent(version')) /\ buffer \in Seq(Held(version'))
  BY <1>2 DEF Typed
<1>4. [cells |-> d, stamp |-> version + 1, version |-> 0] \in Sent(version')
  BY <1>1 DEF Sent
<1>5. leaving' \in [Writers -> Sent(version') \cup {Nothing}]
  <2> DEFINE new == [cells |-> d, stamp |-> version + 1, version |-> 0]
  <2>1. leaving' = [leaving EXCEPT ![t] = new]
    BY DEF Apply
  <2>2. new \in Sent(version')
    BY <1>4
  <2> HIDE DEF new
  <2> QED BY <1>2, <2>1, <2>2 DEF Typed
<1>6. work' \in [Workers -> Sent(version') \cup {Nothing}]
  BY <1>2 DEF Apply, Typed
<1>7. /\ df' \in [Cells -> 0..version'] /\ cache' \in [Cells -> 0..version']
      /\ disk' \in [Cells -> 0..version'] /\ rversion' \in 0..version'
  <2>1. version + 1 \in 0..version'
    BY <1>1
  <2> QED BY <1>2, <2>1 DEF Apply, Typed, readVars
<1>8. Typed'
  BY <1>1, <1>3, <1>5, <1>6, <1>7 DEF Apply, Typed
<1> QED BY <1>8 DEF Apply, NothingStranded

LEMMA DispatchTyped ==
  ASSUME Inv1, NEW t \in Writers, Dispatch(t)
  PROVE  Inv1'
<1> USE DEF Inv1
<1>1. version \in Nat
  BY MaxVersionIsNat DEF Typed, Stamps
<1>2. leaving[t] \in Sent(version)
  BY DEF Dispatch, Typed
<1>3. [leaving[t] EXCEPT !.version = version] \in Sent(version)
  BY <1>1, <1>2 DEF Sent
<1>4. queue' \in Seq(Sent(version))
  BY <1>3 DEF Dispatch, Typed
<1>5. leaving' \in [Writers -> Sent(version) \cup {Nothing}]
  BY DEF Dispatch, Typed
<1> QED BY <1>4, <1>5 DEF Dispatch, Typed, writeVars, readVars, NothingStranded

LEMMA TakeTyped ==
  ASSUME Inv1, NEW w \in Workers, Take(w)
  PROVE  Inv1'
<1> USE DEF Inv1
<1>1. Head(queue) \in Sent(version) /\ Tail(queue) \in Seq(Sent(version))
  BY DEF Take, Typed
<1>2. work' \in [Workers -> Sent(version) \cup {Nothing}]
  BY <1>1 DEF Take, Typed
<1>3. astray' \subseteq Cells
  BY DEF Take, Typed
<1> QED BY <1>1, <1>2, <1>3 DEF Take, Typed, writeVars, readVars, NothingStranded

LEMMA FlushKeeps ==
  ASSUME Inv1, NEW ops \in Seq(Held(version)), Flush(ops),
         UNCHANGED <<writeVars, leaving, queue>>,
         work' \in [Workers -> Sent(version) \cup {Nothing}], late' \in Nat
  PROVE  Inv1'
<1>1. version' = version /\ Typed
  BY DEF writeVars, Inv1
<1>2. /\ buffer' = <<>> /\ timer' = "none" /\ disk' = disk
      /\ cache' \in [Cells -> 0..version] /\ rversion' \in 0..version
      /\ astray' \subseteq Cells /\ cut' \in BOOLEAN
  BY <1>1, FlushTyped
<1>3. buffer' \in Seq(Held(version)) /\ Len(buffer') < BatchSize
  BY <1>2, BatchSizeIsPositive
<1>4. Typed'
  BY <1>1, <1>2, <1>3 DEF Typed, writeVars
<1> QED BY <1>2, <1>4 DEF Inv1, NothingStranded

LEMMA ReceiveTyped ==
  ASSUME Inv1, NEW w \in Workers, Receive(w)
  PROVE  Inv1'
<1> USE DEF Inv1
<1>1. version \in Nat /\ work[w] \in Sent(version)
  BY MaxVersionIsNat DEF Receive, Typed, Stamps
<1>2. PICK order \in Orders(work[w].cells) :
        LET ops == buffer \o OpsOf(work[w], order)
        IN \/ /\ Len(ops) >= BatchSize
              /\ Flush(ops)
              /\ late' = StillComing(FALSE)
           \/ /\ Len(ops) < BatchSize
              /\ buffer' = ops
              /\ timer' = TimerOnReceive
              /\ UNCHANGED <<late, readVars, astray, cut>>
  BY DEF Receive
<1> DEFINE ops == buffer \o OpsOf(work[w], order)
<1>3. ops \in Seq(Held(version))
  <2>1. OpsOf(work[w], order) \in Seq(Held(version))
    BY <1>1, OpsOfTyped
  <2> QED BY <2>1 DEF Typed
<1>4. work' \in [Workers -> Sent(version) \cup {Nothing}]
      /\ UNCHANGED <<writeVars, leaving, queue>>
  BY DEF Receive, Typed
<1> HIDE DEF ops
<1>5. CASE Flush(ops) /\ late' = StillComing(FALSE)
  <2>1. late' \in Nat
    BY <1>5 DEF StillComing, Typed
  <2> QED BY <1>3, <1>4, <1>5, <2>1, FlushKeeps
<1>6. CASE /\ Len(ops) < BatchSize
           /\ buffer' = ops
           /\ timer' = TimerOnReceive
           /\ UNCHANGED <<late, readVars, astray, cut>>
  <2>1. timer' \in {"armed", "fired"}
    BY <1>6 DEF TimerOnReceive, Typed
  <2> QED BY <1>3, <1>4, <1>6, <2>1 DEF Typed, writeVars, readVars, NothingStranded
<1> QED BY <1>2, <1>5, <1>6 DEF ops

LEMMA CallbacksTyped ==
  ASSUME Inv1, Flushes
  PROVE  Inv1'
<1>1. CASE TimerFires
  BY <1>1 DEF TimerFires, Inv1, Typed, NothingStranded, writeVars, readVars
<1>2. CASE FlushOnTimer \/ FlushLate
  <2>1. Flush(buffer) /\ late' \in Nat /\ UNCHANGED <<writeVars, leaving, queue, work>>
    BY <1>2 DEF FlushOnTimer, FlushLate, StillComing, Inv1, Typed
  <2>2. buffer \in Seq(Held(version)) /\ work' \in [Workers -> Sent(version) \cup {Nothing}]
    BY <2>1 DEF Inv1, Typed
  <2> QED BY <2>1, <2>2, FlushKeeps
<1> QED BY <1>1, <1>2 DEF Flushes

LEMMA StepTyped == Inv1 /\ [Next]_vars => Inv1'
<1> SUFFICES ASSUME Inv1, [Next]_vars PROVE Inv1'
  OBVIOUS
<1>1. CASE Persist
  BY <1>1 DEF Persist, Inv1, Typed, NothingStranded, writeVars
<1>2. CASE Load
  <2>1. cache' \in [Cells -> 0..version] /\ astray' \subseteq Cells
    BY <1>2 DEF Load, Inv1, Typed
  <2> QED BY <1>2, <2>1 DEF Load, Inv1, Typed, NothingStranded, writeVars
<1>3. CASE UNCHANGED vars
  BY <1>3 DEF vars, Inv1, Typed, NothingStranded, writeVars, readVars
<1> QED BY <1>1, <1>2, <1>3, ApplyTyped, DispatchTyped, TakeTyped, ReceiveTyped, CallbacksTyped
    DEF Next, Done

LEMMA Invariant1 == Spec => []Inv1
BY InitTyped, StepTyped, PTL DEF Spec

(* Every state of the pool, the buffer and the cache is well typed, and neither
   the cache nor its version is ahead of the write node. *)
THEOREM TypeCorrect == Spec => []TypeOK
<1>1. Inv1 => TypeOK
  BY TypedIsTypeOK DEF Inv1
<1> QED BY <1>1, Invariant1, PTL

(* Whatever synchronous flush, firing timer and receive meet, operations in the
   buffer have a timer or a callback that will flush them. *)
THEOREM BufferIsFlushed == Spec => []NothingStranded
<1>1. Inv1 => NothingStranded
  BY DEF Inv1
<1> QED BY <1>1, Invariant1, PTL

(***************************************************************************)
(* The cache follows the write node: the last carrier of a cell, by how    *)
(* far it has got, carries the cell's last write.                          *)
(***************************************************************************)

PoolFollows(c) ==
  /\ \A t \in Leaving(c) : leaving[t].stamp = df[c]
  /\ Leaving(c) = {} =>
       \A i \in Queued(c) : (\A j \in Queued(c) : j <= i) => queue[i].stamp = df[c]

WorkFollows(c) ==
  /\ \A v, w \in AtWork(c) : v = w
  /\ Leaving(c) = {} /\ Queued(c) = {} => \A w \in AtWork(c) : work[w].stamp = df[c]

BufferFollows(c) ==
  ~InPool(c) =>
    \A i \in Buffered(c) : (\A j \in Buffered(c) : j <= i) => buffer[i].stamp = df[c]

CacheShows(c) == ~InPool(c) /\ Buffered(c) = {} => cache[c] = df[c]

Follows(c) ==
  /\ PoolFollows(c)
  /\ c \notin astray => WorkFollows(c) /\ BufferFollows(c) /\ CacheShows(c)

Inv2 == Inv1 /\ \A c \in Cells : Follows(c)

LEMMA InitFollows == Init => \A c \in Cells : Follows(c)
<1> SUFFICES ASSUME Init, NEW c \in Cells PROVE Follows(c)
  OBVIOUS
<1>1. Leaving(c) = {} /\ AtWork(c) = {}
  BY DEF Init, Leaving, AtWork, Nothing
<1>2. Queued(c) = {} /\ Buffered(c) = {}
  BY DEF Init, Queued, Buffered
<1> QED BY <1>1, <1>2
    DEF Init, Follows, PoolFollows, WorkFollows, BufferFollows, CacheShows

(* What a step leaves alone is where it was. *)
LEMMA LeavingSame == ASSUME leaving' = leaving, NEW c PROVE Leaving(c)' = Leaving(c)
BY DEF Leaving

LEMMA QueuedSame == ASSUME queue' = queue, NEW c PROVE Queued(c)' = Queued(c)
BY DEF Queued

LEMMA AtWorkSame == ASSUME work' = work, NEW c PROVE AtWork(c)' = AtWork(c)
BY DEF AtWork

LEMMA BufferedSame == ASSUME buffer' = buffer, NEW c PROVE Buffered(c)' = Buffered(c)
BY DEF Buffered

LEMMA PoolSame ==
  ASSUME UNCHANGED <<df, leaving, queue>>, NEW c, PoolFollows(c)
  PROVE  PoolFollows(c)'
BY LeavingSame, QueuedSame DEF PoolFollows

LEMMA WorkSame ==
  ASSUME UNCHANGED <<df, leaving, queue, work>>, NEW c, WorkFollows(c)
  PROVE  WorkFollows(c)'
BY LeavingSame, QueuedSame, AtWorkSame DEF WorkFollows

(* A write overtakes nothing that is in the pool; what it finds only in the buffer
   or in the cache it will replace. *)
LEMMA ApplyFollows ==
  ASSUME Inv2, NEW t \in Writers, NEW d \in Deltas, Apply(t, d), NEW c \in Cells
  PROVE  Follows(c)'
<1> USE DEF Inv2
<1>1. /\ leaving[t] = Nothing /\ \A x \in d : Leaving(x) = {}
      /\ UNCHANGED <<queue, work, buffer, cache>>
      /\ df'[c] = IF c \in d THEN version + 1 ELSE df[c]
      /\ astray' = astray \ {x \in d : ~InPool(x)}
  BY DEF Apply, readVars
<1>2. /\ leaving'[t].cells = d /\ leaving'[t].stamp = version + 1
      /\ \A q \in Writers : q # t => leaving'[q] = leaving[q]
  BY DEF Apply, Inv1, Typed
<1>3. Queued(c)' = Queued(c) /\ AtWork(c)' = AtWork(c) /\ Buffered(c)' = Buffered(c)
  BY <1>1, QueuedSame, AtWorkSame, BufferedSame
<1>4. CASE c \in d
  <2>1. Leaving(c)' = {t}
    BY <1>1, <1>2, <1>4 DEF Leaving
  <2>2. PoolFollows(c)'
    BY <1>1, <1>2, <1>4, <2>1 DEF PoolFollows
  <2>3. c \notin astray' => \A v, w \in AtWork(c) : v = w
    <3>1. CASE c \in astray
      BY <1>1, <3>1 DEF InPool
    <3>2. CASE c \notin astray
      BY <3>2 DEF Follows, WorkFollows
    <3> QED BY <3>1, <3>2
  <2>4. c \notin astray' => WorkFollows(c)'
    BY <1>3, <2>1, <2>3 DEF WorkFollows
  <2>5. BufferFollows(c)' /\ CacheShows(c)'
    BY <2>1 DEF BufferFollows, CacheShows, InPool
  <2> QED BY <2>2, <2>4, <2>5 DEF Follows
<1>5. CASE c \notin d
  <2>1. Leaving(c)' = Leaving(c)
    BY <1>1, <1>2, <1>5 DEF Leaving, Nothing
  <2>2. \A q \in Leaving(c) : q # t
    BY <1>1 DEF Leaving, Nothing
  <2>3. PoolFollows(c)'
    BY <1>1, <1>2, <1>3, <1>5, <2>1, <2>2 DEF Follows, PoolFollows, Leaving
  <2>4. c \in astray' <=> c \in astray
    BY <1>1, <1>5
  <2>5. InPool(c)' <=> InPool(c)
    BY <1>3, <2>1 DEF InPool
  <2>6. WorkFollows(c) => WorkFollows(c)'
    BY <1>1, <1>3, <1>5, <2>1 DEF WorkFollows
  <2>7. BufferFollows(c) /\ CacheShows(c) => BufferFollows(c)' /\ CacheShows(c)'
    BY <1>1, <1>3, <1>5, <2>5 DEF BufferFollows, CacheShows
  <2> QED BY <2>3, <2>4, <2>6, <2>7 DEF Follows
<1> QED BY <1>4, <1>5

LEMMA DispatchFollows ==
  ASSUME Inv2, NEW t \in Writers, Dispatch(t), NEW c \in Cells
  PROVE  Follows(c)'
<1> USE DEF Inv2
<1> DEFINE e == [leaving[t] EXCEPT !.version = version]
<1>1. /\ leaving[t] \in Sent(version) /\ queue \in Seq(Sent(version))
      /\ UNCHANGED <<df, work, buffer, cache, astray>>
      /\ leaving' = [leaving EXCEPT ![t] = Nothing] /\ leaving[t] # Nothing
  BY DEF Dispatch, writeVars, readVars, Inv1, Typed
<1>2. queue' = Append(queue, e) /\ e.cells = leaving[t].cells /\ e.stamp = leaving[t].stamp
  BY <1>1 DEF Dispatch, Sent
<1> HIDE DEF e
<1>3. /\ Len(queue) \in Nat /\ DOMAIN queue = 1..Len(queue)
      /\ DOMAIN queue' = 1..(Len(queue) + 1) /\ queue'[Len(queue) + 1] = e
      /\ \A i \in DOMAIN queue : queue'[i] = queue[i]
  BY <1>1, <1>2
<1>4. Leaving(c)' = Leaving(c) \ {t} /\ \A q \in Leaving(c)' : leaving'[q] = leaving[q]
  BY <1>1 DEF Leaving, Nothing, Inv1, Typed
<1>5. AtWork(c)' = AtWork(c) /\ Buffered(c)' = Buffered(c)
  BY <1>1, AtWorkSame, BufferedSame
<1>6. CASE c \in leaving[t].cells
  <2>1. t \in Leaving(c) /\ leaving[t].stamp = df[c]
    BY <1>6 DEF Leaving, Follows, PoolFollows
  <2>2. Len(queue) + 1 \in Queued(c)' /\ \A i \in Queued(c)' : i <= Len(queue) + 1
    BY <1>2, <1>3, <1>6 DEF Queued
  <2>3. PoolFollows(c)'
    <3>1. ASSUME NEW i \in Queued(c)', \A j \in Queued(c)' : j <= i
          PROVE  queue'[i].stamp = df[c]
      <4>1. i = Len(queue) + 1
        BY <1>3, <2>2, <3>1 DEF Queued
      <4> QED BY <1>2, <1>3, <2>1, <4>1
    <3> QED BY <1>1, <1>4, <3>1 DEF Follows, PoolFollows
  <2>4. InPool(c)' /\ Queued(c)' # {}
    BY <2>2 DEF InPool
  <2> QED BY <1>1, <1>5, <2>3, <2>4 DEF Follows, WorkFollows, BufferFollows, CacheShows
<1>7. CASE c \notin leaving[t].cells
  <2>1. Leaving(c)' = Leaving(c)
    BY <1>4, <1>7 DEF Leaving
  <2>2. Queued(c)' = Queued(c)
    BY <1>2, <1>3, <1>7 DEF Queued
  <2>3. \A i \in Queued(c) : queue'[i] = queue[i]
    BY <1>3 DEF Queued
  <2>4. PoolFollows(c)'
    BY <1>1, <1>4, <2>1, <2>2, <2>3 DEF Follows, PoolFollows
  <2>5. InPool(c)' <=> InPool(c)
    BY <1>5, <2>1, <2>2 DEF InPool
  <2> QED BY <1>1, <1>5, <2>1, <2>2, <2>4, <2>5
      DEF Follows, WorkFollows, BufferFollows, CacheShows
<1> QED BY <1>6, <1>7

(* The oldest delta is the last of a cell only when it is the only one in the
   queue; a worker that takes a second one sets the cell astray. *)
LEMMA TakeFollows ==
  ASSUME Inv2, NEW w \in Workers, Take(w), NEW c \in Cells
  PROVE  Follows(c)'
<1> USE DEF Inv2
<1>1. /\ queue \in Seq(Sent(version)) /\ queue # <<>> /\ work[w] = Nothing
      /\ UNCHANGED <<df, leaving, buffer, cache>>
      /\ queue' = Tail(queue)
      /\ astray' = astray \cup {x \in Cells \cap Head(queue).cells : AtWork(x) # {}}
  BY DEF Take, writeVars, readVars, Inv1, Typed
<1>2. work'[w] = Head(queue) /\ \A v \in Workers : v # w => work'[v] = work[v]
  BY DEF Take, Inv1, Typed
<1>3. /\ Len(queue) \in Nat \ {0} /\ DOMAIN queue = 1..Len(queue)
      /\ Head(queue) = queue[1] /\ DOMAIN queue' = 1..(Len(queue) - 1)
      /\ \A i \in 1..(Len(queue) - 1) : queue'[i] = queue[i + 1]
  BY <1>1
<1>4. Leaving(c)' = Leaving(c) /\ Buffered(c)' = Buffered(c)
  BY <1>1, LeavingSame, BufferedSame
<1>5. \A i \in 1..(Len(queue) - 1) : i \in Queued(c)' <=> i + 1 \in Queued(c)
  BY <1>3 DEF Queued
<1>6. Queued(c)' \subseteq 1..(Len(queue) - 1) /\ Queued(c) \subseteq 1..Len(queue)
      /\ (1 \in Queued(c) <=> c \in Head(queue).cells)
  BY <1>3 DEF Queued
<1>7. PoolFollows(c)'
  <2>1. ASSUME Leaving(c) = {}, NEW i \in Queued(c)', \A j \in Queued(c)' : j <= i
        PROVE  queue'[i].stamp = df[c]
    <3>1. i + 1 \in Queued(c) /\ queue'[i] = queue[i + 1] /\ i \in Nat
      BY <1>3, <1>5, <1>6, <2>1
    <3>2. ASSUME NEW j \in Queued(c) PROVE j <= i + 1
      <4>1. CASE j = 1
        BY <3>1, <4>1
      <4>2. CASE j # 1
        <5>1. j - 1 \in 1..(Len(queue) - 1) /\ (j - 1) + 1 = j /\ j \in Nat
          BY <1>3, <1>6, <4>2
        <5>2. j - 1 \in Queued(c)'
          BY <1>5, <5>1
        <5>3. j - 1 <= i
          BY <2>1, <5>2
        <5> QED BY <3>1, <5>1, <5>3
      <4> QED BY <4>1, <4>2
    <3> QED BY <2>1, <3>1, <3>2 DEF Follows, PoolFollows
  <2> QED BY <1>1, <1>4, <2>1 DEF Follows, PoolFollows
<1>8. CASE c \in Head(queue).cells
  <2>1. AtWork(c)' = AtWork(c) \cup {w}
    BY <1>1, <1>2, <1>8 DEF AtWork
  <2>2. InPool(c)'
    BY <2>1 DEF InPool
  <2>3. ASSUME c \notin astray' PROVE WorkFollows(c)'
    <3>1. AtWork(c) = {}
      BY <1>1, <1>8, <2>3
    <3>2. ASSUME Leaving(c) = {}, Queued(c)' = {} PROVE Head(queue).stamp = df[c]
      <4>1. ASSUME NEW j \in Queued(c) PROVE j = 1
        <5>1. CASE j # 1
          <6>1. j - 1 \in 1..(Len(queue) - 1) /\ (j - 1) + 1 = j
            BY <1>3, <1>6, <5>1
          <6> QED BY <1>5, <3>2, <6>1
        <5> QED BY <5>1
      <4>2. 1 \in Queued(c) /\ \A j \in Queued(c) : j <= 1
        BY <1>6, <1>8, <4>1
      <4> QED BY <1>3, <3>2, <4>2 DEF Follows, PoolFollows
    <3> QED BY <1>1, <1>2, <1>4, <2>1, <3>1, <3>2 DEF WorkFollows
  <2> QED BY <1>7, <2>2, <2>3 DEF Follows, BufferFollows, CacheShows
<1>9. CASE c \notin Head(queue).cells
  <2>1. AtWork(c)' = AtWork(c) /\ \A v \in AtWork(c) : work'[v] = work[v]
    BY <1>1, <1>2, <1>9 DEF AtWork, Nothing
  <2>2. Queued(c)' = {} <=> Queued(c) = {}
    <3>1. ASSUME NEW j \in Queued(c) PROVE Queued(c)' # {}
      <4>1. j # 1
        BY <1>6, <1>9
      <4>2. j - 1 \in 1..(Len(queue) - 1) /\ (j - 1) + 1 = j
        BY <1>3, <1>6, <4>1
      <4> QED BY <1>5, <4>2
    <3>2. ASSUME NEW j \in Queued(c)' PROVE Queued(c) # {}
      BY <1>5, <1>6
    <3> QED BY <3>1, <3>2
  <2>3. InPool(c)' <=> InPool(c)
    BY <1>4, <2>1, <2>2 DEF InPool
  <2>4. c \in astray' <=> c \in astray
    BY <1>1, <1>9
  <2> QED BY <1>1, <1>4, <1>7, <2>1, <2>2, <2>3, <2>4
      DEF Follows, WorkFollows, BufferFollows, CacheShows
<1> QED BY <1>8, <1>9

(* The last operation of c in ops has what the write node has, or the cache has it
   and ops have none. *)
LastIs(ops, c) ==
  /\ \A i \in DOMAIN ops :
       ops[i].cell = c /\ (\A j \in DOMAIN ops : ops[j].cell = c => j <= i)
         => ops[i].stamp = df[c]
  /\ (\A i \in DOMAIN ops : ops[i].cell # c) => cache[c] = df[c]

(* A flush puts the last operation in the cache, or sets astray what it loses. *)
LEMMA FlushFollows ==
  ASSUME Inv2, NEW ops \in Seq(Held(version)), Flush(ops), df' = df, NEW c \in Cells,
         c \notin astray /\ ~InPool(c)' => LastIs(ops, c)
  PROVE  c \notin astray' => c \notin astray /\ BufferFollows(c)' /\ CacheShows(c)'
<1> SUFFICES ASSUME c \notin astray'
             PROVE  c \notin astray /\ BufferFollows(c)' /\ CacheShows(c)'
  OBVIOUS
<1>1. c \notin astray /\ Buffered(c)' = {}
  BY DEF Flush, Buffered
<1>2. ASSUME ~InPool(c)' PROVE cache'[c] = df[c]
  <2>1. LastIs(ops, c)
    BY <1>1, <1>2
  <2>2. CASE \E i \in DOMAIN ops : ops[i].cell = c
    <3>1. \A i \in DOMAIN ops : Parses(ops[i])
      BY <1>2, <2>2 DEF Flush
    <3>2. ops # <<>> /\ cache' = Updated(ops)
      BY <2>2, <3>1 DEF Flush
    <3>3. cache'[c] = LastUpdate(ops, c)
      BY <2>2, <3>2 DEF Updated
    <3>4. version \in Nat
      BY MaxVersionIsNat DEF Inv2, Inv1, Typed, Stamps
    <3>5. PICK i \in DOMAIN ops :
            /\ ops[i].cell = c
            /\ \A j \in DOMAIN ops : ops[j].cell = c => j <= i
            /\ LastUpdate(ops, c) = ops[i].stamp
      BY <2>2, <3>4, LastUpdateOf
    <3> QED BY <2>1, <3>3, <3>5 DEF LastIs
  <2>3. CASE \A i \in DOMAIN ops : ops[i].cell # c
    <3>1. cache'[c] = cache[c]
      <4>1. CASE cache' = cache
        BY <4>1
      <4>2. CASE cache' = Updated(ops)
        BY <2>3, <4>2 DEF Updated
      <4> QED BY <4>1, <4>2 DEF Flush
    <3> QED BY <2>1, <2>3, <3>1 DEF LastIs
  <2> QED BY <2>2, <2>3
<1> QED BY <1>1, <1>2 DEF BufferFollows, CacheShows

LEMMA BufferIsLast ==
  ASSUME Inv2, NEW c \in Cells, c \notin astray, ~InPool(c)
  PROVE  LastIs(buffer, c)
<1>1. BufferFollows(c) /\ CacheShows(c)
  BY DEF Inv2, Follows
<1> QED BY <1>1 DEF LastIs, BufferFollows, CacheShows, Buffered

(* So it is when a worker adds its delta: either it has the cell, and was the last
   to have it, or the buffer has. *)
LEMMA ReceivedIsLast ==
  ASSUME Inv2, NEW w \in Workers, NEW order \in Orders(work[w].cells), Receive(w),
         NEW c \in Cells, c \notin astray, ~InPool(c)'
  PROVE  LastIs(buffer \o OpsOf(work[w], order), c)
<1> DEFINE d == work[w]
           new == OpsOf(d, order)
           ops == buffer \o new
<1>1. version \in Nat /\ d \in Sent(version) /\ buffer \in Seq(Held(version))
  BY MaxVersionIsNat DEF Receive, Inv2, Inv1, Typed, Stamps
<1>2. /\ new \in Seq(Held(version))
      /\ \A i \in DOMAIN new : new[i].cell \in d.cells /\ new[i].stamp = d.stamp
      /\ \A x \in d.cells : \E i \in DOMAIN new : new[i].cell = x
  BY <1>1, OpsOfTyped
<1>3. Leaving(c) = {} /\ Queued(c) = {} /\ AtWork(c) \subseteq {w}
  <2>1. Leaving(c)' = Leaving(c) /\ Queued(c)' = Queued(c)
    BY LeavingSame, QueuedSame DEF Receive
  <2>2. \A v \in AtWork(c) : v # w => v \in AtWork(c)'
    BY DEF Receive, AtWork, Inv2, Inv1, Typed
  <2> QED BY <2>1, <2>2 DEF InPool
<1>4. c \in d.cells => d.stamp = df[c]
  BY <1>3 DEF Inv2, Follows, WorkFollows, AtWork
<1>5. c \notin d.cells => LastIs(buffer, c)
  BY <1>3, BufferIsLast DEF InPool, AtWork
<1> HIDE DEF d, new
<1>6. /\ Len(buffer) \in Nat /\ Len(new) \in Nat
      /\ DOMAIN buffer = 1..Len(buffer) /\ DOMAIN new = 1..Len(new)
      /\ DOMAIN ops = 1..(Len(buffer) + Len(new))
      /\ \A i \in DOMAIN buffer : ops[i] = buffer[i]
      /\ \A i \in DOMAIN ops : i > Len(buffer) => i - Len(buffer) \in DOMAIN new
                                                  /\ ops[i] = new[i - Len(buffer)]
      /\ \A i \in DOMAIN new : Len(buffer) + i \in DOMAIN ops /\ ops[Len(buffer) + i] = new[i]
  BY <1>1, <1>2
<1> HIDE DEF ops
<1>7. CASE c \in d.cells
  <2>1. PICK k \in DOMAIN new : new[k].cell = c
    BY <1>2, <1>7
  <2>2. Len(buffer) + k \in DOMAIN ops /\ ops[Len(buffer) + k].cell = c
    BY <1>6, <2>1
  <2>3. ASSUME NEW i \in DOMAIN ops, ops[i].cell = c,
               \A j \in DOMAIN ops : ops[j].cell = c => j <= i
        PROVE  ops[i].stamp = df[c]
    <3>1. Len(buffer) + k <= i
      BY <2>2, <2>3
    <3>2. i > Len(buffer)
      BY <1>6, <3>1
    <3>3. i - Len(buffer) \in DOMAIN new /\ ops[i] = new[i - Len(buffer)]
      BY <1>6, <3>2
    <3>4. new[i - Len(buffer)].stamp = d.stamp
      BY <1>2, <3>3
    <3> QED BY <1>4, <1>7, <3>3, <3>4
  <2> QED BY <2>2, <2>3 DEF LastIs, ops, new, d
<1>8. CASE c \notin d.cells
  <2>1. \A i \in DOMAIN ops : ops[i].cell = c => i \in DOMAIN buffer /\ ops[i] = buffer[i]
    <3>1. ASSUME NEW i \in DOMAIN ops, ops[i].cell = c PROVE i \in DOMAIN buffer
      <4>1. ~(i > Len(buffer))
        BY <1>2, <1>6, <1>8, <3>1
      <4> QED BY <1>6, <4>1
    <3> QED BY <1>6, <3>1
  <2>2. \A i \in DOMAIN buffer : i \in DOMAIN ops /\ ops[i] = buffer[i]
    BY <1>6
  <2>3. LastIs(buffer, c)
    BY <1>5, <1>8
  <2>4. LastIs(ops, c)
    BY <2>1, <2>2, <2>3 DEF LastIs
  <2> QED BY <2>4 DEF ops, new, d
<1> QED BY <1>7, <1>8

LEMMA ReceiveFollows ==
  ASSUME Inv2, NEW w \in Workers, Receive(w), NEW c \in Cells
  PROVE  Follows(c)'
<1> USE DEF Inv2
<1>1. UNCHANGED <<df, leaving, queue>> /\ Leaving(c)' = Leaving(c) /\ Queued(c)' = Queued(c)
  BY LeavingSame, QueuedSame DEF Receive, writeVars
<1>2. PoolFollows(c)'
  BY <1>1, PoolSame DEF Follows
<1>3. AtWork(c)' \subseteq AtWork(c) /\ \A v \in AtWork(c)' : work'[v] = work[v]
  BY DEF Receive, AtWork, Nothing, Inv1, Typed
<1>4. WorkFollows(c) => WorkFollows(c)'
  BY <1>1, <1>3 DEF WorkFollows
<1>5. PICK order \in Orders(work[w].cells) :
        LET ops == buffer \o OpsOf(work[w], order)
        IN \/ /\ Len(ops) >= BatchSize
              /\ Flush(ops)
              /\ late' = StillComing(FALSE)
           \/ /\ Len(ops) < BatchSize
              /\ buffer' = ops
              /\ timer' = TimerOnReceive
              /\ UNCHANGED <<late, readVars, astray, cut>>
  BY DEF Receive
<1> DEFINE ops == buffer \o OpsOf(work[w], order)
<1>6. ops \in Seq(Held(version))
  <2>1. version \in Nat /\ work[w] \in Sent(version)
    BY MaxVersionIsNat DEF Receive, Inv1, Typed, Stamps
  <2>2. OpsOf(work[w], order) \in Seq(Held(version))
    BY <2>1, OpsOfTyped
  <2> QED BY <2>2 DEF Inv1, Typed
<1>7. c \notin astray /\ ~InPool(c)' => LastIs(ops, c)
  BY ReceivedIsLast
<1> HIDE DEF ops
<1>8. c \notin astray' => c \notin astray /\ BufferFollows(c)' /\ CacheShows(c)'
  <2>1. CASE Flush(ops)
    BY <1>1, <1>6, <1>7, <2>1, FlushFollows
  <2>2. CASE buffer' = ops /\ UNCHANGED <<readVars, astray>>
    BY <1>1, <1>7, <2>2 DEF BufferFollows, CacheShows, Buffered, LastIs, readVars
  <2> QED BY <1>5, <2>1, <2>2 DEF ops
<1> QED BY <1>2, <1>4, <1>8 DEF Follows

LEMMA CallbacksFollow ==
  ASSUME Inv2, Flushes, NEW c \in Cells
  PROVE  Follows(c)'
<1> USE DEF Inv2
<1>1. UNCHANGED <<df, leaving, queue, work>>
  BY DEF Flushes, TimerFires, FlushOnTimer, FlushLate, writeVars
<1>2. PoolFollows(c)' /\ (WorkFollows(c) => WorkFollows(c)') /\ (InPool(c)' <=> InPool(c))
  BY <1>1, PoolSame, WorkSame, LeavingSame, QueuedSame, AtWorkSame DEF Follows, InPool
<1>3. CASE TimerFires
  <2>1. UNCHANGED <<buffer, cache, astray>> /\ Buffered(c)' = Buffered(c)
    BY <1>3, BufferedSame DEF TimerFires, readVars
  <2> QED BY <1>1, <1>2, <2>1 DEF Follows, BufferFollows, CacheShows
<1>4. CASE FlushOnTimer \/ FlushLate
  <2>1. Flush(buffer) /\ buffer \in Seq(Held(version))
    BY <1>4 DEF FlushOnTimer, FlushLate, Inv1, Typed
  <2>2. c \notin astray /\ ~InPool(c)' => LastIs(buffer, c)
    BY <1>2, BufferIsLast
  <2>3. c \notin astray' => c \notin astray /\ BufferFollows(c)' /\ CacheShows(c)'
    BY <1>1, <2>1, <2>2, FlushFollows
  <2> QED BY <1>2, <2>3 DEF Follows
<1> QED BY <1>3, <1>4 DEF Flushes

(* A load sets astray every cell that nothing on its way will put right. *)
LEMMA LoadFollows ==
  ASSUME Inv2, Load, NEW c \in Cells
  PROVE  Follows(c)'
<1> USE DEF Inv2
<1>1. /\ UNCHANGED <<df, leaving, queue, work, buffer>>
      /\ astray' = astray \cup {x \in Cells : Coming(x) = {}}
  BY DEF Load, writeVars
<1>2. PoolFollows(c)' /\ (WorkFollows(c) => WorkFollows(c)') /\ (InPool(c)' <=> InPool(c))
      /\ Buffered(c)' = Buffered(c)
  BY <1>1, PoolSame, WorkSame, LeavingSame, QueuedSame, AtWorkSame, BufferedSame
     DEF Follows, InPool
<1>3. ~InPool(c) /\ Buffered(c) = {} => Coming(c) = {}
  BY DEF InPool, Coming
<1> QED BY <1>1, <1>2, <1>3 DEF Follows, BufferFollows, CacheShows

LEMMA StepFollows == Inv2 /\ [Next]_vars => Inv2'
<1> SUFFICES ASSUME Inv2, [Next]_vars, NEW c \in Cells PROVE Follows(c)'
  BY StepTyped DEF Inv2
<1>1. CASE Persist \/ UNCHANGED vars
  <2>1. UNCHANGED <<df, leaving, queue, work, buffer, cache, astray>>
    BY <1>1 DEF Persist, vars, writeVars, readVars
  <2> QED BY <2>1, PoolSame, WorkSame, LeavingSame, QueuedSame, AtWorkSame, BufferedSame
      DEF Inv2, Follows, BufferFollows, CacheShows, InPool
<1> QED BY <1>1, ApplyFollows, DispatchFollows, TakeFollows, ReceiveFollows,
           CallbacksFollow, LoadFollows
    DEF Next, Done

(* Where the last carrier is, the last write is, or else in the cache. *)
LEMMA FollowsIsSeen ==
  ASSUME Inv2, NEW c \in Cells \ astray
  PROVE  cache[c] = df[c] \/ df[c] \in Coming(c)
<1>1. PoolFollows(c) /\ WorkFollows(c) /\ BufferFollows(c) /\ CacheShows(c)
  BY DEF Inv2, Follows
<1>2. CASE Leaving(c) # {}
  BY <1>1, <1>2 DEF PoolFollows, Coming
<1>3. CASE Leaving(c) = {} /\ Queued(c) # {}
  <2>1. Queued(c) \in SUBSET (1..Len(queue)) /\ Len(queue) \in Nat
    BY DEF Queued, Inv2, Inv1, Typed
  <2>2. PICK i \in Queued(c) : \A j \in Queued(c) : j <= i
    BY <1>3, <2>1, LastPlace
  <2> QED BY <1>1, <1>3, <2>2 DEF PoolFollows, Coming
<1>4. CASE Leaving(c) = {} /\ Queued(c) = {} /\ AtWork(c) # {}
  BY <1>1, <1>4 DEF WorkFollows, Coming
<1>5. CASE ~InPool(c) /\ Buffered(c) # {}
  <2>1. Buffered(c) \in SUBSET (1..Len(buffer)) /\ Len(buffer) \in Nat
    BY DEF Buffered, Inv2, Inv1, Typed
  <2>2. PICK i \in Buffered(c) : \A j \in Buffered(c) : j <= i
    BY <1>5, <2>1, LastPlace
  <2> QED BY <1>1, <1>5, <2>2 DEF BufferFollows, Coming
<1>6. CASE ~InPool(c) /\ Buffered(c) = {}
  BY <1>1, <1>6 DEF CacheShows
<1> QED BY <1>2, <1>3, <1>4, <1>5, <1>6 DEF InPool

(* The cache shows the last write of a cell or that write is on its way, for every
   cell that no overtaken, lost or loaded-over delta has set astray. *)
THEOREM CacheAlwaysFollows == Spec => []CacheFollows
<1>1. Init => Inv2
  BY InitTyped, InitFollows DEF Inv2
<1>2. Inv2 => CacheFollows
  BY FollowsIsSeen DEF CacheFollows
<1> QED BY <1>1, <1>2, StepFollows, PTL DEF Spec
(***************************************************************************)
(* The version: until a flush fails, the write node's version has arrived  *)
(* or is on its way.                                                       *)
(***************************************************************************)

(* A delta that leaves is sent with the version of that moment, so any such delta
   will do; the later ones carry theirs. *)
VersionComes ==
  ~cut =>
    \/ rversion = version
    \/ \E t \in Writers : leaving[t] # Nothing
    \/ \E i \in DOMAIN queue : queue[i].version = version
    \/ \E w \in Workers : work[w] # Nothing /\ work[w].version = version
    \/ \E i \in DOMAIN buffer : buffer[i].version = version

Inv3 == Inv1 /\ VersionComes

(* A batch with the write node's version brings the read node up to it. *)
LEMMA FlushSettles ==
  ASSUME Inv1, NEW ops \in Seq(Held(version)), Flush(ops), ~cut',
         rversion = version \/ \E i \in DOMAIN ops : ops[i].version = version
  PROVE  rversion' = version
<1>1. version \in Nat /\ rversion \in 0..version
  BY MaxVersionIsNat DEF Inv1, Typed, Stamps
<1>2. rversion' = IF ops = <<>> \/ HighestVersion(ops) < rversion
                  THEN rversion ELSE HighestVersion(ops)
  BY DEF Flush
<1>3. CASE ops = <<>>
  BY <1>2, <1>3
<1>4. CASE ops # <<>>
  <2>1. HighestVersion(ops) \in 0..version /\ \A i \in DOMAIN ops : ops[i].version <= HighestVersion(ops)
    BY <1>1, <1>4, HighestVersionOf
  <2>2. CASE rversion = version
    BY <1>1, <1>2, <2>1, <2>2
  <2>3. CASE \E i \in DOMAIN ops : ops[i].version = version
    <3>1. version <= HighestVersion(ops)
      BY <2>1, <2>3
    <3> QED BY <1>1, <1>2, <2>1, <3>1
  <2> QED BY <2>2, <2>3
<1> QED BY <1>3, <1>4

LEMMA ReceiveComes ==
  ASSUME Inv3, NEW w \in Workers, Receive(w)
  PROVE  VersionComes'
<1> USE DEF Inv3
<1>1. version \in Nat /\ work[w] \in Sent(version) /\ buffer \in Seq(Held(version))
  BY MaxVersionIsNat DEF Receive, Inv1, Typed, Stamps
<1>2. PICK order \in Orders(work[w].cells) :
        LET ops == buffer \o OpsOf(work[w], order)
        IN \/ /\ Len(ops) >= BatchSize
              /\ Flush(ops)
              /\ late' = StillComing(FALSE)
           \/ /\ Len(ops) < BatchSize
              /\ buffer' = ops
              /\ timer' = TimerOnReceive
              /\ UNCHANGED <<late, readVars, astray, cut>>
  BY DEF Receive
<1> DEFINE new == OpsOf(work[w], order)
           ops == buffer \o new
<1>3. new \in Seq(Held(version)) /\ \E i \in DOMAIN new : new[i].version = work[w].version
  <2>1. /\ new \in Seq(Held(version))
        /\ \A c \in work[w].cells : \E i \in DOMAIN new : new[i].cell = c
    BY <1>1, OpsOfTyped
  <2>2. work[w].cells # {}
    BY <1>1, DeltasAreCells DEF Sent
  <2>3. \A i \in DOMAIN new : new[i].version = work[w].version
    BY DEF OpsOf
  <2> QED BY <2>1, <2>2, <2>3
<1>4. UNCHANGED <<version, leaving, queue>> /\ \A v \in Workers : v # w => work'[v] = work[v]
  BY DEF Receive, writeVars, Inv1, Typed
<1> HIDE DEF new
<1>5. /\ ops \in Seq(Held(version))
      /\ \A i \in DOMAIN buffer : i \in DOMAIN ops /\ ops[i] = buffer[i]
      /\ \A i \in DOMAIN new : Len(buffer) + i \in DOMAIN ops /\ ops[Len(buffer) + i] = new[i]
  BY <1>1, <1>3
<1>6. \/ cut
      \/ rversion = version
      \/ \E t \in Writers : leaving[t] # Nothing
      \/ \E i \in DOMAIN queue : queue[i].version = version
      \/ \E v \in Workers : v # w /\ work[v] # Nothing /\ work[v].version = version
      \/ \E i \in DOMAIN ops : ops[i].version = version
  <2>1. work[w].version = version => \E i \in DOMAIN ops : ops[i].version = version
    BY <1>3, <1>5
  <2>2. (\E i \in DOMAIN buffer : buffer[i].version = version)
          => \E i \in DOMAIN ops : ops[i].version = version
    BY <1>5
  <2> HIDE DEF ops
  <2> QED BY <2>1, <2>2 DEF VersionComes
<1> HIDE DEF ops
<1>7. CASE Flush(ops)
  <2>1. ~cut' => ~cut
    BY <1>7 DEF Flush
  <2>2. ~cut' /\ (rversion = version \/ \E i \in DOMAIN ops : ops[i].version = version)
          => rversion' = version
    BY <1>5, <1>7, FlushSettles
  <2> QED BY <1>4, <1>6, <2>1, <2>2 DEF VersionComes
<1>8. CASE buffer' = ops /\ UNCHANGED <<readVars, cut>>
  BY <1>4, <1>6, <1>8 DEF VersionComes, readVars
<1> QED BY <1>2, <1>7, <1>8 DEF ops, new

LEMMA StepComes == Inv3 /\ [Next]_vars => Inv3'
<1> SUFFICES ASSUME Inv3, [Next]_vars PROVE VersionComes'
  BY StepTyped DEF Inv3
<1> USE DEF Inv3
<1>1. ASSUME NEW t \in Writers, NEW d \in Deltas, Apply(t, d) PROVE VersionComes'
  <2>1. leaving'[t] = [cells |-> d, stamp |-> version + 1, version |-> 0]
    BY <1>1 DEF Apply, Inv1, Typed
  <2>2. d # {}
    BY DeltasAreCells
  <2>3. leaving'[t] # Nothing
    BY <2>1, <2>2 DEF Nothing
  <2> QED BY <2>3 DEF VersionComes
<1>2. ASSUME NEW t \in Writers, Dispatch(t) PROVE VersionComes'
  <2>1. queue' = Append(queue, [leaving[t] EXCEPT !.version = version]) /\ version' = version
    BY <1>2 DEF Dispatch, writeVars
  <2>2. leaving[t] \in Sent(version) /\ queue \in Seq(Sent(version))
    BY <1>2 DEF Dispatch, Inv1, Typed
  <2>3. [leaving[t] EXCEPT !.version = version].version = version
    BY <2>2 DEF Sent
  <2>4. Len(queue) + 1 \in DOMAIN queue' /\ queue'[Len(queue) + 1].version = version
    BY <2>1, <2>2, <2>3
  <2> QED BY <2>1, <2>4 DEF VersionComes
<1>3. ASSUME NEW w \in Workers, Take(w) PROVE VersionComes'
  <2>1. /\ work' = [work EXCEPT ![w] = Head(queue)] /\ queue' = Tail(queue)
        /\ work[w] = Nothing /\ queue # <<>> /\ queue \in Seq(Sent(version))
        /\ work \in [Workers -> Sent(version) \cup {Nothing}]
        /\ UNCHANGED <<version, rversion, leaving, buffer, cut>>
    BY <1>3 DEF Take, writeVars, readVars, Inv1, Typed
  <2>2. work'[w] = Head(queue) /\ Head(queue) # Nothing
    <3>1. Head(queue) \in Sent(version)
      BY <2>1
    <3> QED BY <2>1, <3>1, DeltasAreCells DEF Sent, Nothing
  <2>3. ASSUME NEW i \in DOMAIN queue, queue[i].version = version
        PROVE  \/ work'[w].version = version
               \/ \E j \in DOMAIN queue' : queue'[j].version = version
    <3>1. CASE i = 1
      BY <2>1, <2>2, <2>3, <3>1
    <3>2. CASE i # 1
      <4>1. i - 1 \in DOMAIN queue' /\ queue'[i - 1] = queue[i]
        BY <2>1, <3>2
      <4> QED BY <2>3, <4>1
    <3> QED BY <3>1, <3>2
  <2>4. \A v \in Workers : work[v] # Nothing => work'[v] = work[v]
    BY <2>1
  <2> QED BY <2>1, <2>2, <2>3, <2>4 DEF VersionComes
<1>4. ASSUME NEW w \in Workers, Receive(w) PROVE VersionComes'
  BY <1>4, ReceiveComes
<1>5. CASE FlushOnTimer \/ FlushLate
  <2>1. Flush(buffer) /\ UNCHANGED <<version, leaving, queue, work>>
    BY <1>5 DEF FlushOnTimer, FlushLate, writeVars
  <2>2. buffer \in Seq(Held(version))
    BY DEF Inv1, Typed
  <2>3. ~cut' => ~cut
    BY <2>1 DEF Flush
  <2>4. ~cut' /\ (rversion = version \/ \E i \in DOMAIN buffer : buffer[i].version = version)
          => rversion' = version
    BY <2>1, <2>2, FlushSettles
  <2> QED BY <2>1, <2>3, <2>4 DEF VersionComes
<1>6. CASE TimerFires \/ Persist \/ Load \/ UNCHANGED vars
  <2>1. UNCHANGED <<version, leaving, queue, work, buffer, rversion, cut>>
    BY <1>6 DEF TimerFires, Persist, Load, vars, writeVars, readVars
  <2> QED BY <2>1 DEF VersionComes
<1> QED BY <1>1, <1>2, <1>3, <1>4, <1>5, <1>6 DEF Next, Done, Flushes

(* When all is flushed and no flush failed, the read node's version is the write
   node's: the version is read late and deltas overtake one another, but the last
   delta to leave carries the last version, and a flush keeps the highest. *)
THEOREM VersionAlwaysSettles == Spec => []VersionSettles
<1>1. Init => Inv3
  BY InitTyped DEF Init, Inv3, VersionComes
<1>2. Inv3 => VersionSettles
  <2> SUFFICES ASSUME Inv3, Quiet, ~cut PROVE rversion = version
    BY DEF VersionSettles
  <2> QED BY DEF Inv3, VersionComes, Quiet
<1> QED BY <1>1, <1>2, StepComes, PTL DEF Spec

(* What the read node shows when nothing is on its way any more. *)
ShowsTheFrame == Quiet => \A c \in Cells \ astray : cache[c] = df[c]

(* Once all is flushed, a read node shows the write node's value in every cell,
   in whatever order the deltas were dispatched, taken, batched and flushed; the
   cells two deltas carried at once, whose batch was cut off, or whose cache was
   loaded over, are excepted until they are written again. *)
THEOREM FlushedShowsTheFrame == Spec => []ShowsTheFrame
<1>1. CacheFollows => ShowsTheFrame
  <2> SUFFICES ASSUME CacheFollows, Quiet, NEW c \in Cells \ astray PROVE cache[c] = df[c]
    BY DEF ShowsTheFrame
  <2>1. Leaving(c) = {} /\ Queued(c) = {} /\ AtWork(c) = {} /\ Buffered(c) = {}
    BY DEF Quiet, Leaving, Queued, AtWork, Buffered, Nothing
  <2>2. Coming(c) = {}
    BY <2>1 DEF Coming
  <2> QED BY <2>2 DEF CacheFollows
<1> QED BY <1>1, CacheAlwaysFollows, PTL
=============================================================================
