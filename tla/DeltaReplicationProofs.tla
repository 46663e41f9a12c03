----------------------- MODULE DeltaReplicationProofs -----------------------
(***************************************************************************)
(* Proofs about DeltaReplication, for any number of read nodes, any window *)
(* and memory, and whatever the network loses, doubles or reorders: the    *)
(* contiguous pointer, what a reader applies, and what an acknowledged     *)
(* transaction means.                                                      *)
(***************************************************************************)
EXTENDS DeltaReplication, FiniteSetTheorems, TLAPS

(***************************************************************************)
(* The contiguous pointer.                                                 *)
(***************************************************************************)

(* Intervals bound the size of what they contain and of what contains them. *)
LEMMA IntervalBounds ==
  ASSUME NEW k \in Nat, NEW n \in Nat, k <= n, NEW S
  PROVE  /\ S \subseteq (k + 1)..n => IsFiniteSet(S) /\ Cardinality(S) <= n - k
         /\ IsFiniteSet(S) /\ (k + 1)..n \subseteq S => n - k <= Cardinality(S)
<1> DEFINE I == (k + 1)..n
<1>1. IsFiniteSet(I) /\ Cardinality(I) = n - k
  <2>1. IsFiniteSet(I) /\ Cardinality(I) = IF k + 1 > n THEN 0 ELSE n - (k + 1) + 1
    BY FS_Interval, k + 1 \in Int, n \in Int
  <2> HIDE DEF I
  <2> QED BY <2>1
<1> HIDE DEF I
<1>2. S \subseteq I => IsFiniteSet(S) /\ Cardinality(S) <= Cardinality(I)
  BY <1>1, FS_Subset
<1>3. IsFiniteSet(S) /\ I \subseteq S => Cardinality(I) <= Cardinality(S)
  BY FS_Subset
<1> QED BY <1>1, <1>2, <1>3 DEF I

(* _last_lsn moves over the LSNs that follow it in s, and over all of them. *)
LEMMA PointerMoves ==
  ASSUME NEW k \in 0..MaxLsn, NEW s \in SUBSET LSNs
  PROVE  /\ Pointer(k, s) \in k..MaxLsn
         /\ (k + 1)..Pointer(k, s) \subseteq s
         /\ Pointer(k, s) + 1 \notin s
<1> DEFINE T == {m \in LSNs : m > k /\ (k + 1)..m \subseteq s}
           P == Pointer(k, s)
<1>0. MaxLsn \in Nat /\ k \in Nat /\ k <= MaxLsn
  BY SizesAreNat
<1>1. T \subseteq (k + 1)..MaxLsn
  BY <1>0 DEF LSNs
<1>2. P = k + Cardinality(T)
  BY DEF Pointer
<1>3. \A m : m \in T <=> m \in LSNs /\ m > k /\ (k + 1)..m \subseteq s
  OBVIOUS
<1> HIDE DEF T, P
<1>4. /\ IsFiniteSet(T) /\ Cardinality(T) \in Nat
      /\ Cardinality(T) <= MaxLsn - k
  BY <1>0, <1>1, IntervalBounds, FS_CardinalityType
<1>5. P \in k..MaxLsn
  BY <1>0, <1>2, <1>4
<1>6. ASSUME NEW m \in (k + 1)..P, m \notin s PROVE FALSE
  <2>1. T \subseteq (k + 1)..(m - 1)
    BY <1>0, <1>3, <1>5, <1>6 DEF LSNs
  <2> DEFINE n == m - 1
  <2>2. n \in Nat /\ k <= n
    BY <1>0, <1>5
  <2> HIDE DEF n
  <2>3. Cardinality(T) <= n - k
    BY <1>0, <2>1, <2>2, IntervalBounds DEF n
  <2> QED BY <1>0, <1>2, <1>4, <1>5, <2>3 DEF n
<1>7. ASSUME P + 1 \in s PROVE FALSE
  <2>1. (k + 1)..(P + 1) \subseteq s
    BY <1>0, <1>5, <1>6, <1>7
  <2>2. (k + 1)..(P + 1) \subseteq T
    BY <1>0, <1>3, <1>5, <2>1 DEF LSNs
  <2> DEFINE n == P + 1
  <2>3. n \in Nat /\ k <= n
    BY <1>0, <1>5
  <2>4. (k + 1)..n \subseteq T
    BY <2>2
  <2> HIDE DEF n
  <2>5. n - k <= Cardinality(T)
    BY <1>0, <1>4, <2>3, <2>4, IntervalBounds
  <2> QED BY <1>0, <1>2, <1>4, <1>5, <2>5 DEF n
<1> QED BY <1>5, <1>6, <1>7 DEF P

(* _drain_reorder_buffer, as it is called, finds nothing: what could follow the
   pointer is in _applied_lsns, so that the pointer has passed it already. *)
THEOREM DrainFindsNothing ==
  ASSUME NEW k \in 0..MaxLsn, NEW s \in SUBSET LSNs, NEW held \in SUBSET LSNs
  PROVE  Drained(Pointer(k, s), s, held) = {}
<1> DEFINE P == Pointer(k, s)
<1>1. P \in k..MaxLsn /\ P + 1 \notin s /\ MaxLsn \in Nat
  BY PointerMoves, SizesAreNat
<1> HIDE DEF P
<1>2. ASSUME NEW m \in held, m > P, (P + 1)..m \subseteq s \cap held PROVE FALSE
  BY <1>1, <1>2 DEF LSNs
<1> QED BY <1>2 DEF Drained, P

(***************************************************************************)
(* The invariant of a reader.                                              *)
(***************************************************************************)

(* What _applied_lsns has is applied or held, and what was applied is in it
   until it is pruned. *)
SeenIsAccountedFor ==
  /\ \A r \in Readers : seen[r] \subseteq AppliedBy(r) \cup buffer[r]
  /\ \A r \in Readers, l \in LSNs :
       applied[r][l] > 0 => l \in seen[r] \/ l <= last[r] - Keep

ReaderInv == SeenIsAccountedFor /\ PointerCoversReceived /\ RecentAppliedOnce

readerTypes ==
  /\ last \in [Readers -> 0..MaxLsn]
  /\ seen \in [Readers -> SUBSET LSNs]
  /\ buffer \in [Readers -> SUBSET LSNs]
  /\ applied \in [Readers -> [LSNs -> Nat]]

(* A reader r applies the LSNs A it does not remember, moves its pointer over
   them and prunes. *)
Takes(r, A) ==
  LET s == seen[r] \cup A
      k == Pointer(last[r], s)
  IN  /\ applied' = [applied EXCEPT ![r] = CalledWith(@, A)]
      /\ last' = [last EXCEPT ![r] = k]
      /\ seen' = [seen EXCEPT ![r] = Pruned(s, k)]
      /\ buffer' = buffer

(* _apply_delta_entry takes its one LSN and nothing from the buffer. *)
LEMMA ApplyTakes ==
  ASSUME readerTypes, NEW r \in Readers, NEW l \in LSNs, ApplyDelta(r, l)
  PROVE  Takes(r, {l}) /\ acks' = acks \cup {<<l, r>>}
<1> DEFINE s == seen[r] \cup {l}
           k == Pointer(last[r], s)
           d == Drained(k, s, buffer[r])
<1>1. s \in SUBSET LSNs /\ last[r] \in 0..MaxLsn /\ buffer[r] \in SUBSET LSNs
  BY DEF readerTypes
<1>2. d = {}
  BY <1>1, DrainFindsNothing
<1>3. k \in Nat
  BY <1>1, PointerMoves, SizesAreNat
<1> HIDE DEF s, k
<1>4. k + Cardinality({}) = k
  BY <1>3, FS_EmptySet
<1>5. /\ applied' = [applied EXCEPT ![r] = CalledWith(@, {l} \cup d)]
      /\ last' = [last EXCEPT ![r] = k + Cardinality(d)]
      /\ seen' = [seen EXCEPT ![r] = Pruned(s, last'[r])]
      /\ buffer' = [buffer EXCEPT ![r] = @ \ d]
      /\ acks' = acks \cup {<<l, r>>}
  BY DEF ApplyDelta, s, k
<1> HIDE DEF d
<1>6. last' = [last EXCEPT ![r] = k] /\ last'[r] = k
  BY <1>2, <1>4, <1>5 DEF readerTypes
<1>7. {l} \cup d = {l} /\ buffer[r] \ d = buffer[r]
  BY <1>2
<1>8. buffer' = buffer
  BY <1>5, <1>7 DEF readerTypes
<1> QED BY <1>5, <1>6, <1>7, <1>8 DEF Takes, s, k

(* What _handle_sync_response looks up is not in _applied_lsns. *)
LEMMA SyncTakes ==
  ASSUME TypeOK, NEW m \in syncs, DeliverSync(m)
  PROVE  /\ m.to \in Readers
         /\ Wanted(m.to, m) \subseteq LSNs \ seen[m.to]
         /\ Takes(m.to, Wanted(m.to, m))
BY SizesAreNat DEF TypeOK, DeliverSync, Wanted, Takes, LSNs

(* Taking what it does not remember keeps the reader's invariant. *)
LEMMA TakesKeeps ==
  ASSUME readerTypes, ReaderInv, NEW r \in Readers,
         NEW A \in SUBSET LSNs, A \cap seen[r] = {}, Takes(r, A)
  PROVE  readerTypes' /\ ReaderInv'
<1> DEFINE s == seen[r] \cup A
           k == Pointer(last[r], s)
<1>0. MaxLsn \in Nat /\ Keep \in Nat
  BY SizesAreNat
<1>1. s \in SUBSET LSNs /\ last[r] \in 0..MaxLsn
  BY DEF readerTypes
<1>2. k \in last[r]..MaxLsn /\ (last[r] + 1)..k \subseteq s
  BY <1>1, PointerMoves
<1>3. /\ applied' = [applied EXCEPT ![r] = CalledWith(@, A)]
      /\ last' = [last EXCEPT ![r] = k]
      /\ seen' = [seen EXCEPT ![r] = Pruned(s, k)]
      /\ buffer' = buffer
  BY DEF Takes
<1> HIDE DEF s, k
<1>4. Pruned(s, k) \subseteq s /\ \A l \in s : l > k - Keep => l \in Pruned(s, k)
  BY DEF Pruned
<1>5. \A l \in LSNs : /\ applied[r][l] \in Nat
                      /\ applied'[r][l] = IF l \in A THEN applied[r][l] + 1 ELSE applied[r][l]
  BY <1>3 DEF readerTypes, CalledWith
<1>6. readerTypes'
  <2>1. CalledWith(applied[r], A) \in [LSNs -> Nat]
    BY DEF readerTypes, CalledWith
  <2>2. k \in 0..MaxLsn
    BY <1>0, <1>1, <1>2
  <2> QED BY <1>1, <1>3, <1>4, <2>1, <2>2 DEF readerTypes
<1>7. ASSUME NEW q \in Readers, q # r
      PROVE  last'[q] = last[q] /\ seen'[q] = seen[q] /\ applied'[q] = applied[q]
  BY <1>3, <1>7 DEF readerTypes
<1>8. last'[r] = k /\ seen'[r] = Pruned(s, k)
  BY <1>3 DEF readerTypes
<1>9. \A l \in LSNs : l \in s => applied'[r][l] > 0 \/ l \in buffer[r]
  BY <1>5 DEF s, ReaderInv, SeenIsAccountedFor, AppliedBy
<1>10. SeenIsAccountedFor'
  <2>1. ASSUME NEW q \in Readers PROVE seen'[q] \subseteq (AppliedBy(q) \cup buffer[q])'
    <3>1. CASE q = r
      BY <1>1, <1>3, <1>4, <1>8, <1>9, <3>1 DEF AppliedBy
    <3>2. CASE q # r
      BY <1>3, <1>7, <3>2 DEF AppliedBy, ReaderInv, SeenIsAccountedFor
    <3> QED BY <3>1, <3>2
  <2>2. ASSUME NEW q \in Readers, NEW l \in LSNs, applied'[q][l] > 0
        PROVE  l \in seen'[q] \/ l <= last'[q] - Keep
    <3>1. CASE q = r
      <4>1. l \in s \/ l <= last[r] - Keep
        BY <1>5, <2>2, <3>1 DEF s, ReaderInv, SeenIsAccountedFor
      <4>2. l \in Int /\ k \in Int /\ last[r] \in Int
        BY <1>0, <1>1, <1>2 DEF LSNs
      <4> QED BY <1>0, <1>2, <1>4, <1>8, <3>1, <4>1, <4>2
    <3>2. CASE q # r
      BY <1>7, <2>2, <3>2 DEF ReaderInv, SeenIsAccountedFor
    <3> QED BY <3>1, <3>2
  <2> QED BY <2>1, <2>2 DEF SeenIsAccountedFor
<1>11. PointerCoversReceived'
  <2>1. ASSUME NEW q \in Readers, NEW l \in 1..last'[q]
        PROVE  l \in (AppliedBy(q) \cup buffer[q])'
    <3>1. CASE q = r
      <4>1. l \in LSNs /\ l \in 1..k
        BY <1>0, <1>1, <1>2, <1>8, <3>1 DEF LSNs
      <4>2. CASE l \in 1..last[r]
        BY <1>3, <1>5, <3>1, <4>1, <4>2 DEF AppliedBy, ReaderInv, PointerCoversReceived
      <4>3. CASE l \notin 1..last[r]
        <5>1. l \in s
          BY <1>0, <1>1, <1>2, <4>1, <4>3
        <5> QED BY <1>3, <1>9, <3>1, <4>1, <5>1 DEF AppliedBy
      <4> QED BY <4>2, <4>3
    <3>2. CASE q # r
      BY <1>3, <1>7, <3>2 DEF AppliedBy, ReaderInv, PointerCoversReceived
    <3> QED BY <3>1, <3>2
  <2> QED BY <2>1 DEF PointerCoversReceived
<1>12. RecentAppliedOnce'
  <2>1. ASSUME NEW q \in Readers, NEW l \in LSNs, applied'[q][l] > 1
        PROVE  l <= last'[q] - Keep
    <3>1. CASE q = r
      <4>1. l <= last[r] - Keep
        <5>1. CASE l \in A
          <6>1. applied[r][l] > 0 /\ l \notin seen[r]
            BY <1>5, <2>1, <3>1, <5>1
          <6> QED BY <6>1 DEF ReaderInv, SeenIsAccountedFor
        <5>2. CASE l \notin A
          BY <1>5, <2>1, <3>1, <5>2 DEF ReaderInv, RecentAppliedOnce
        <5> QED BY <5>1, <5>2
      <4>2. l \in Int /\ k \in Int /\ last[r] \in Int /\ last[r] <= k
        BY <1>0, <1>1, <1>2 DEF LSNs
      <4> QED BY <1>0, <1>8, <3>1, <4>1, <4>2
    <3>2. CASE q # r
      BY <1>7, <2>1, <3>2 DEF ReaderInv, RecentAppliedOnce
    <3> QED BY <3>1, <3>2
  <2> QED BY <2>1 DEF RecentAppliedOnce
<1> QED BY <1>6, <1>10, <1>11, <1>12 DEF ReaderInv

(***************************************************************************)
(* The invariant of the acknowledgements.                                  *)
(***************************************************************************)

Ackers(l) == {r \in Readers : <<l, r>> \in acked}

(* Each acknowledgement is of a delta its reader applied, and is sent once, so
   that a waiter counts no reader twice. *)
AckInv ==
  /\ \A r \in Readers, l \in LSNs : <<l, r>> \in acks \cup acked => applied[r][l] > 0
  /\ acks \cap acked = {}
  /\ \A l \in LSNs : received[l] <= Cardinality(Ackers(l))
  /\ \A l \in LSNs : task[l] = "acked" => Ackers(l) = Readers

LEMMA AckersAreReaders ==
  ASSUME NEW l
  PROVE  /\ IsFiniteSet(Ackers(l))
         /\ Cardinality(Ackers(l)) \in Nat
         /\ Cardinality(Ackers(l)) <= Cardinality(Readers)
         /\ Cardinality(Ackers(l)) = Cardinality(Readers) => Ackers(l) = Readers
<1>1. Ackers(l) \subseteq Readers
  BY DEF Ackers
<1> QED BY <1>1, ReadersExist, FS_Subset, FS_CardinalityType

IInv == TypeOK /\ ReaderInv /\ AckInv

LEMMA InvInit == Init => IInv
<1> SUFFICES ASSUME Init PROVE IInv
  OBVIOUS
<1>1. TypeOK
  BY SizesAreNat, ReadersExist, FS_CardinalityType DEF Init, TypeOK, Tasks
<1>2. ReaderInv
  BY SizesAreNat DEF Init, ReaderInv, SeenIsAccountedFor, PointerCoversReceived,
     RecentAppliedOnce, LSNs
<1>3. AckInv
  BY AckersAreReaders DEF Init, AckInv
<1> QED BY <1>1, <1>2, <1>3 DEF IInv

(* A reader applies deltas and leaves the writer alone. *)
LEMMA AckInvAfterTakes ==
  ASSUME IInv, readerTypes', NEW r \in Readers, NEW A \in SUBSET LSNs, Takes(r, A),
         UNCHANGED writer,
         \/ acks' = acks
         \/ \E l \in A : l \notin seen[r] /\ l > last[r] /\ acks' = acks \cup {<<l, r>>}
  PROVE  AckInv'
<1>1. \A q \in Readers, l \in LSNs :
        /\ applied[q][l] \in Nat
        /\ applied[q][l] > 0 => applied'[q][l] > 0
        /\ q = r /\ l \in A => applied'[q][l] > 0
  BY DEF Takes, CalledWith, IInv, TypeOK
<1>2. \A l : Ackers(l)' = Ackers(l)
  BY DEF writer, Ackers
<1>3. ASSUME NEW l \in A, l \notin seen[r], l > last[r] PROVE <<l, r>> \notin acked
  <2>1. ~(applied[r][l] > 0)
    <3>1. l \in LSNs /\ l \in Int /\ last[r] \in Int /\ Keep \in Nat
      BY SizesAreNat DEF IInv, TypeOK, LSNs
    <3> QED BY <1>3, <3>1 DEF IInv, ReaderInv, SeenIsAccountedFor
  <2> QED BY <2>1 DEF IInv, AckInv
<1>4. acks' \cap acked' = {}
  BY <1>3 DEF writer, IInv, AckInv
<1>5. \A q \in Readers, l \in LSNs : <<l, q>> \in acks' \cup acked' => applied'[q][l] > 0
  BY <1>1 DEF writer, IInv, AckInv
<1> QED BY <1>2, <1>4, <1>5 DEF AckInv, IInv, writer

(* The steps that leave the readers and the acknowledgements alone. *)
LEMMA AckInvKept ==
  ASSUME IInv, UNCHANGED <<received, acks, acked, applied>>,
         \A l \in LSNs : task'[l] = "acked" => task[l] = "acked"
  PROVE  AckInv'
BY DEF IInv, AckInv, Ackers

LEMMA ReaderInvKept ==
  ASSUME ReaderInv, UNCHANGED <<last, seen, applied>>,
         \A r \in Readers : buffer[r] \subseteq buffer'[r]
  PROVE  ReaderInv'
<1>1. \A r : AppliedBy(r)' = AppliedBy(r)
  BY DEF AppliedBy
<1> QED BY <1>1 DEF ReaderInv, SeenIsAccountedFor, PointerCoversReceived, RecentAppliedOnce

(* The delta a reader takes, or the entries of a sync response. *)
LEMMA DeliverKeeps ==
  ASSUME IInv, NEW r \in Readers, NEW l \in LSNs, Fresh(r, l), ApplyDelta(r, l),
         UNCHANGED <<writer, deltas, syncs, answers>>
  PROVE  IInv'
<1>1. readerTypes /\ ReaderInv
  BY DEF IInv, TypeOK, readerTypes
<1>2. Takes(r, {l}) /\ acks' = acks \cup {<<l, r>>}
  BY <1>1, ApplyTakes
<1>3. l \notin seen[r] /\ l > last[r]
  BY DEF Fresh
<1>4. readerTypes' /\ ReaderInv'
  BY <1>1, <1>2, <1>3, TakesKeeps
<1>5. AckInv'
  BY <1>2, <1>3, <1>4, AckInvAfterTakes
<1>6. TypeOK'
  <2>1. TypeOK /\ acks' \in SUBSET (LSNs \X Readers)
    BY <1>2 DEF IInv, TypeOK
  <2>2. UNCHANGED <<wal, task, received, acked, deltas, syncs, answers>>
    BY DEF writer
  <2> QED BY <1>4, <2>1, <2>2 DEF TypeOK, readerTypes
<1> QED BY <1>4, <1>5, <1>6 DEF IInv

LEMMA HandleAckKeeps ==
  ASSUME IInv, NEW l \in LSNs, NEW r \in Readers, HandleAck(l, r)
  PROVE  IInv'
<1> USE DEF IInv
<1>1. /\ <<l, r>> \in acks /\ <<l, r>> \notin acked
      /\ acks' = acks \ {<<l, r>>} /\ acked' = acked \cup {<<l, r>>}
      /\ UNCHANGED <<wal, deltas, syncs, answers, last, seen, buffer, applied>>
  BY DEF HandleAck, AckInv, reader
<1>2. /\ received' = [received EXCEPT ![l] = IF task[l] = "waiting" THEN @ + 1 ELSE @]
      /\ task' = [task EXCEPT ![l] = IF @ = "waiting" /\ Enough(received'[l]) THEN "acked" ELSE @]
  BY DEF HandleAck
<1>3. ReaderInv'
  BY <1>1, ReaderInvKept
<1>4. Ackers(l)' = Ackers(l) \cup {r} /\ r \notin Ackers(l)
  BY <1>1 DEF Ackers
<1>5. \A n \in LSNs : n # l => Ackers(n)' = Ackers(n)
  BY <1>1 DEF Ackers
<1>6. Cardinality(Ackers(l)') = Cardinality(Ackers(l)) + 1
  BY <1>4, AckersAreReaders, FS_AddElement
<1>7. /\ Ackers(l)' \subseteq Readers
      /\ Cardinality(Ackers(l)') \in Nat
      /\ Cardinality(Ackers(l)') <= Cardinality(Readers)
      /\ Cardinality(Ackers(l)') = Cardinality(Readers) => Ackers(l)' = Readers
  <2>1. Ackers(l)' \subseteq Readers
    BY DEF Ackers
  <2> QED BY <2>1, ReadersExist, FS_Subset, FS_CardinalityType
<1>8. received[l] \in Nat /\ received[l] <= Cardinality(Ackers(l)) /\ Cardinality(Readers) \in Nat
  BY ReadersExist, FS_CardinalityType DEF TypeOK, AckInv
<1>9. received'[l] \in 0..Cardinality(Readers) /\ received'[l] <= Cardinality(Ackers(l)')
  <2>1. Cardinality(Ackers(l)) \in Nat
    BY AckersAreReaders
  <2>2. received'[l] = IF task[l] = "waiting" THEN received[l] + 1 ELSE received[l]
    BY <1>2 DEF TypeOK
  <2> QED BY <1>6, <1>7, <1>8, <2>1, <2>2
<1>10. TypeOK'
  <2>1. received' \in [LSNs -> 0..Cardinality(Readers)]
    BY <1>2, <1>9 DEF TypeOK
  <2>2. task' \in [LSNs -> Tasks]
    BY <1>2 DEF TypeOK, Tasks
  <2> QED BY <1>1, <2>1, <2>2 DEF TypeOK
<1>11. AckInv'
  <2>1. \A q \in Readers, n \in LSNs : <<n, q>> \in acks' \cup acked' => applied'[q][n] > 0
    BY <1>1 DEF AckInv
  <2>2. acks' \cap acked' = {}
    BY <1>1 DEF AckInv
  <2>3. ASSUME NEW n \in LSNs
        PROVE  /\ received'[n] <= Cardinality(Ackers(n)')
               /\ task'[n] = "acked" => Ackers(n)' = Readers
    <3>1. CASE n = l
      <4>1. task'[l] = "acked" => task[l] = "acked" \/ Enough(received'[l])
        BY <1>2 DEF TypeOK
      <4>2. task[l] = "acked" => Ackers(l)' = Readers
        BY <1>4 DEF AckInv
      <4>3. Enough(received'[l]) => Ackers(l)' = Readers
        BY <1>7, <1>8, <1>9 DEF Enough
      <4> QED BY <1>9, <3>1, <4>1, <4>2, <4>3
    <3>2. CASE n # l
      BY <1>2, <1>5, <3>2 DEF TypeOK, AckInv
    <3> QED BY <3>1, <3>2
  <2> QED BY <2>1, <2>2, <2>3 DEF AckInv
<1> QED BY <1>3, <1>10, <1>11

LEMMA InvStep == IInv /\ [Next]_vars => IInv'
<1> SUFFICES ASSUME IInv, [Next]_vars PROVE IInv'
  OBVIOUS
<1> USE SizesAreNat DEF writer, network, reader
<1>1. ASSUME NEW s \in {"COMMITTED", "ROLLED_BACK"}, Log(s) PROVE IInv'
  <2>1. TypeOK'
    BY <1>1 DEF Log, IInv, TypeOK
  <2> QED BY <1>1, <2>1, AckInvKept, ReaderInvKept DEF Log, IInv
<1>2. ASSUME NEW l \in LSNs, Broadcast(l) PROVE IInv'
  <2>1. TypeOK'
    BY <1>2 DEF Broadcast, IInv, TypeOK, Tasks
  <2>2. \A n \in LSNs : task'[n] = "acked" => task[n] = "acked"
    BY <1>2 DEF Broadcast, IInv, TypeOK
  <2> QED BY <1>2, <2>1, <2>2, AckInvKept, ReaderInvKept DEF Broadcast, IInv
<1>3. ASSUME NEW l \in LSNs, Await(l) \/ GiveUp(l) PROVE IInv'
  <2>1. TypeOK'
    BY <1>3 DEF Await, GiveUp, IInv, TypeOK, Tasks
  <2>2. \A n \in LSNs : task'[n] = "acked" => task[n] = "acked"
    BY <1>3 DEF Await, GiveUp, IInv, TypeOK
  <2> QED BY <1>3, <2>1, <2>2, AckInvKept, ReaderInvKept DEF Await, GiveUp, IInv
<1>4. ASSUME NEW l \in LSNs, NEW r \in Readers, HandleAck(l, r) PROVE IInv'
  BY <1>4, HandleAckKeeps
<1>5. ASSUME NEW l \in LSNs, NEW r \in Readers, DeliverNext(r, l) \/ DeliverTooEarly(r, l)
      PROVE  IInv'
  BY <1>5, DeliverKeeps DEF DeliverNext, DeliverTooEarly
<1>6. ASSUME NEW l \in LSNs, NEW r \in Readers, DeliverEarly(r, l) PROVE IInv'
  <2>1. /\ seen' = [seen EXCEPT ![r] = @ \cup {l}]
        /\ buffer' = [buffer EXCEPT ![r] = @ \cup {l}]
        /\ UNCHANGED <<wal, task, received, acked, deltas, acks, syncs, answers, last, applied>>
    BY <1>6 DEF DeliverEarly
  <2>2. TypeOK'
    BY <2>1 DEF IInv, TypeOK
  <2>3. AckInv'
    BY <2>1, AckInvKept
  <2>4. ReaderInv'
    <3>1. \A q \in Readers : /\ seen[q] \subseteq seen'[q] /\ buffer[q] \subseteq buffer'[q]
                             /\ seen'[q] \subseteq seen[q] \cup buffer'[q]
      BY <2>1 DEF IInv, TypeOK
    <3>2. \A q : AppliedBy(q)' = AppliedBy(q)
      BY <2>1 DEF AppliedBy
    <3> QED BY <2>1, <3>1, <3>2
        DEF IInv, ReaderInv, SeenIsAccountedFor, PointerCoversReceived, RecentAppliedOnce
  <2> QED BY <2>2, <2>3, <2>4 DEF IInv
<1>7. ASSUME NEW r \in Readers, NEW from \in 0..MaxLsn, AnswerSync(r, from) PROVE IInv'
  <2>1. TypeOK'
    BY <1>7 DEF AnswerSync, IInv, TypeOK
  <2> QED BY <1>7, <2>1, AckInvKept, ReaderInvKept DEF AnswerSync, IInv
<1>8. ASSUME NEW m \in syncs, DeliverSync(m) PROVE IInv'
  <2>1. TypeOK /\ readerTypes /\ ReaderInv
    BY DEF IInv, TypeOK, readerTypes
  <2>2. /\ m.to \in Readers
        /\ Wanted(m.to, m) \subseteq LSNs \ seen[m.to]
        /\ Takes(m.to, Wanted(m.to, m))
    BY <1>8, <2>1, SyncTakes
  <2>3. readerTypes' /\ ReaderInv'
    BY <2>1, <2>2, TakesKeeps
  <2>4. UNCHANGED <<wal, task, received, acked, deltas, acks, answers>> /\ syncs' = syncs \ {m}
    BY <1>8 DEF DeliverSync
  <2>5. AckInv'
    BY <2>2, <2>3, <2>4, AckInvAfterTakes
  <2>6. TypeOK'
    BY <2>1, <2>3, <2>4 DEF TypeOK, readerTypes
  <2> QED BY <2>3, <2>5, <2>6 DEF IInv
<1>9. CASE UNCHANGED vars
  <2>1. TypeOK'
    BY <1>9 DEF vars, IInv, TypeOK
  <2> QED BY <1>9, <2>1, AckInvKept, ReaderInvKept DEF vars, IInv
<1> QED BY <1>1, <1>2, <1>3, <1>4, <1>5, <1>6, <1>7, <1>8, <1>9 DEF Next, Deliver, Quiet

LEMMA Invariant == Spec => []IInv
BY InvInit, InvStep, PTL DEF Spec

(* Every state replication reaches is well typed; a waiter never counts more
   acknowledgements than there are read nodes. *)
THEOREM TypeCorrect == Spec => []TypeOK
<1>1. IInv => TypeOK
  BY DEF IInv
<1> QED BY <1>1, Invariant, PTL

(* The contiguous pointer of a reader has no hole below it. *)
THEOREM PointerHasNoHole == Spec => []PointerCoversReceived
<1>1. IInv => PointerCoversReceived
  BY DEF IInv, ReaderInv
<1> QED BY <1>1, Invariant, PTL

(* An LSN is applied again only when it has been pruned from _applied_lsns. *)
THEOREM AppliedOnceWhileRemembered == Spec => []RecentAppliedOnce
<1>1. IInv => RecentAppliedOnce
  BY DEF IInv, ReaderInv
<1> QED BY <1>1, Invariant, PTL

(* replicate_tx answers True only when every read node has applied the delta. *)
THEOREM TrueMeansApplied == Spec => []AckedMeansApplied
<1>1. IInv => AckedMeansApplied
  BY DEF IInv, AckInv, AckedMeansApplied, Ackers, AppliedBy
<1> QED BY <1>1, Invariant, PTL

(***************************************************************************)
(* What the reorder buffer does with what it is given: nothing.            *)
(***************************************************************************)

(* A delta that came early stays in the buffer, and while the reader remembers
   its LSN no step applies it: _drain_reorder_buffer looks for the LSN after a
   pointer that has by then passed it, and a sync response, which alone could
   bring it again, is refused by the slot it reserved in _applied_lsns. *)
StaysHeld ==
  \A r \in Readers : \A l \in buffer[r] :
    /\ l \in buffer'[r]
    /\ l \in seen[r] => applied'[r][l] = applied[r][l]

LEMMA HeldStep == IInv /\ [Next]_vars => [StaysHeld]_vars
<1> SUFFICES ASSUME IInv, Next PROVE StaysHeld \/ UNCHANGED vars
  OBVIOUS
<1> USE DEF reader
<1>1. CASE UNCHANGED <<buffer, applied>>
  BY <1>1 DEF StaysHeld
<1>2. ASSUME NEW r \in Readers, NEW A \in SUBSET LSNs, A \cap seen[r] = {}, Takes(r, A)
      PROVE  StaysHeld
  <2>1. \A q \in Readers : \A l \in LSNs \cap seen[q] : applied'[q][l] = applied[q][l]
    BY <1>2 DEF Takes, CalledWith, IInv, TypeOK
  <2> QED BY <1>2, <2>1 DEF Takes, StaysHeld, IInv, TypeOK
<1>3. ASSUME NEW l \in LSNs, NEW r \in Readers, DeliverNext(r, l) \/ DeliverTooEarly(r, l)
      PROVE  StaysHeld
  <2>1. Fresh(r, l) /\ ApplyDelta(r, l) /\ readerTypes /\ ReaderInv
    BY <1>3 DEF DeliverNext, DeliverTooEarly, IInv, TypeOK, readerTypes
  <2>2. Takes(r, {l}) /\ {l} \in SUBSET LSNs /\ {l} \cap seen[r] = {}
    BY <2>1, ApplyTakes DEF Fresh
  <2> QED BY <1>2, <2>2
<1>4. ASSUME NEW l \in LSNs, NEW r \in Readers, DeliverEarly(r, l) PROVE StaysHeld
  BY <1>4 DEF DeliverEarly, StaysHeld, IInv, TypeOK
<1>5. ASSUME NEW m \in syncs, DeliverSync(m) PROVE StaysHeld
  BY <1>2, <1>5, SyncTakes DEF IInv
<1> QED
  BY <1>1, <1>3, <1>4, <1>5
     DEF Next, Log, Broadcast, Await, GiveUp, HandleAck, AnswerSync, Deliver, Quiet, vars

(* No call of a read node takes a delta out of its reorder buffer, or applies
   one that waits there and is remembered. *)
THEOREM HeldForever == Spec => [][StaysHeld]_vars
BY Invariant, HeldStep, PTL DEF Spec
=============================================================================
