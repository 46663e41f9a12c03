-------------------------- MODULE DeltaReplication --------------------------
(***************************************************************************)
(* ReplicationManager: the writer broadcasts each committed transaction as *)
(* a DELTA and counts acknowledgements; a read node applies the deltas it  *)
(* expects, holds those that come early in a reorder buffer, and catches   *)
(* up from a SYNC_RESPONSE (src/core/replication.py).                      *)
(*                                                                         *)
(* A delta stands for its LSN.  The network delivers a delta late, out of  *)
(* order, more than once or never: a delta that was sent stays deliverable *)
(* and nothing says it is delivered, but in the liveness property.         *)
(***************************************************************************)
EXTENDS Integers, Sequences, FiniteSets, FiniteSetsExt

CONSTANTS
  Readers,  \* the read nodes the registry knows
  Window,   \* how far ahead a delta may be to be buffered (64 in the code)
  Keep,     \* how many applied LSNs are remembered below the pointer (128)
  MaxLsn,   \* bound: LSNs of the log
  MaxSyncs  \* bound: SYNC_RESPONSEs

ASSUME ReadersExist == IsFiniteSet(Readers) /\ Readers # {}
ASSUME SizesAreNat == Window \in Nat /\ Keep \in Nat /\ MaxLsn \in Nat /\ MaxSyncs \in Nat

LSNs == 1..MaxLsn

VARIABLES
  wal,      \* the state of each entry of the writer's log, by LSN
  task,     \* where replicate_tx is for each LSN
  received, \* the acknowledgements its waiter has counted
  deltas,   \* the DELTA messages sent, by LSN
  acks,     \* the DELTA_ACK messages on their way, <<lsn, reader>>
  syncs,    \* the SYNC_RESPONSE messages on their way: reader, range of LSNs
  answers,  \* how many of them were sent
  last,     \* _last_lsn of each reader
  seen,     \* _applied_lsns
  buffer,   \* the LSNs in _reorder_buffer
  applied,  \* history: how often each reader called _apply_entry with each LSN
  acked     \* history: the acknowledgements that reached the writer

writer == <<wal, task, received, acked>>
network == <<deltas, acks, syncs, answers>>
reader == <<last, seen, buffer, applied>>
vars == <<writer, network, reader>>

Tasks == {"none", "sent", "waiting", "acked", "timedout"}

TypeOK ==
  /\ wal \in Seq({"COMMITTED", "ROLLED_BACK"}) /\ Len(wal) <= MaxLsn
  /\ task \in [LSNs -> Tasks]
  /\ received \in [LSNs -> 0..Cardinality(Readers)]
  /\ deltas \in SUBSET LSNs
  /\ acks \in SUBSET (LSNs \X Readers)
  /\ syncs \in SUBSET [to : Readers, from : 0..MaxLsn, upto : 0..MaxLsn]
  /\ answers \in 0..MaxSyncs
  /\ last \in [Readers -> 0..MaxLsn]
  /\ seen \in [Readers -> SUBSET LSNs]
  /\ buffer \in [Readers -> SUBSET LSNs]
  /\ applied \in [Readers -> [LSNs -> Nat]]
  /\ acked \in SUBSET (LSNs \X Readers)

Init ==
  /\ wal = <<>>
  /\ task = [l \in LSNs |-> "none"]
  /\ received = [l \in LSNs |-> 0]
  /\ deltas = {}
  /\ acks = {}
  /\ syncs = {}
  /\ answers = 0
  /\ last = [r \in Readers |-> 0]
  /\ seen = [r \in Readers |-> {}]
  /\ buffer = [r \in Readers |-> {}]
  /\ applied = [r \in Readers |-> [l \in LSNs |-> 0]]
  /\ acked = {}

(* The counts f after one more call with each LSN of S. *)
CalledWith(f, S) == [l \in LSNs |-> IF l \in S THEN f[l] + 1 ELSE f[l]]

-----------------------------------------------------------------------------
(* Broken variants of the definitions below, each a slip the code could have
   had; the properties are checked to notice them. *)

(* The pointer stops one past the delta. *)
PointerPastSeen(k, s) == Max({k} \cup {m \in k..(MaxLsn + 1) : (k + 1)..(m - 1) \subseteq s})

(* The pointer moves by one. *)
PointerByOne(k, s) == IF k + 1 \in s THEN k + 1 ELSE k

(* A delta is acknowledged when it is buffered. *)
DeliverEarlyAcks(r, l) ==
  /\ l \in deltas \ seen[r]
  /\ l - (last[r] + 1) \in 1..Window
  /\ seen' = [seen EXCEPT ![r] = @ \cup {l}]
  /\ buffer' = [buffer EXCEPT ![r] = @ \cup {l}]
  /\ acks' = acks \cup {<<l, r>>}
  /\ UNCHANGED <<writer, deltas, syncs, answers, last, applied>>

(* A delta applied over a gap moves the pointer to itself. *)
AcceptGap(r, l) ==
  /\ applied' = [applied EXCEPT ![r] = CalledWith(@, {l})]
  /\ seen' = [seen EXCEPT ![r] = @ \cup {l}]
  /\ last' = [last EXCEPT ![r] = l]
  /\ UNCHANGED buffer
  /\ acks' = acks \cup {<<l, r>>}

(* SYNC_RESPONSE entries are not looked up. *)
WantedAll(r, m) == (m.from + 1)..m.upto

-----------------------------------------------------------------------------
(* The writer.                                                             *)

(* submit logs a transaction, committed or rolled back. *)
Log(s) ==
  /\ Len(wal) < MaxLsn
  /\ wal' = Append(wal, s)
  /\ UNCHANGED <<task, received, acked, network, reader>>

(* replicate_tx up to the end of its broadcast.  Its tasks run in any order; a
   thread without an event loop never starts one. *)
Broadcast(l) ==
  /\ l \in DOMAIN wal /\ wal[l] = "COMMITTED"
  /\ task[l] = "none"
  /\ task' = [task EXCEPT ![l] = "sent"]
  /\ deltas' = deltas \cup {l}
  /\ UNCHANGED <<wal, received, acked, acks, syncs, answers, reader>>

(* Only after the broadcast does it register its waiter. *)
Await(l) ==
  /\ task[l] = "sent"
  /\ task' = [task EXCEPT ![l] = "waiting"]
  /\ UNCHANGED <<wal, received, acked, network, reader>>

Enough(n) == n >= Cardinality(Readers)

(* _handle_delta_ack; an acknowledgement nobody waits for is dropped. *)
HandleAck(l, r) ==
  /\ <<l, r>> \in acks
  /\ acks' = acks \ {<<l, r>>}
  /\ acked' = acked \cup {<<l, r>>}
  /\ received' = [received EXCEPT ![l] = IF task[l] = "waiting" THEN @ + 1 ELSE @]
  /\ task' = [task EXCEPT ![l] = IF @ = "waiting" /\ Enough(received'[l]) THEN "acked" ELSE @]
  /\ UNCHANGED <<wal, deltas, syncs, answers, reader>>

(* The two seconds of replicate_tx are over. *)
GiveUp(l) ==
  /\ task[l] = "waiting"
  /\ task' = [task EXCEPT ![l] = "timedout"]
  /\ UNCHANGED <<wal, received, acked, network, reader>>

(* _handle_sync_request: the log after from, whatever its entries' states. *)
AnswerSync(r, from) ==
  /\ answers < MaxSyncs
  /\ answers' = answers + 1
  /\ from < Len(wal)
  /\ syncs' = syncs \cup {[to |-> r, from |-> from, upto |-> Len(wal)]}
  /\ UNCHANGED <<writer, deltas, acks, reader>>

-----------------------------------------------------------------------------
(* A read node.                                                            *)

(* The contiguous pointer k moved over the LSNs in s. *)
Pointer(k, s) == k + Cardinality({m \in LSNs : m > k /\ (k + 1)..m \subseteq s})

(* _applied_lsns pruned to the last Keep below pointer k. *)
Pruned(s, k) == {m \in s : m > k - Keep}

(* What _drain_reorder_buffer takes out: the run of buffered LSNs that follows
   pointer k, if k + 1 is in s.  The pointer has by then passed every LSN in s,
   the buffered ones included, so there is none. *)
Drained(k, s, held) == {m \in held : m > k /\ (k + 1)..m \subseteq s \cap held}

(* _apply_delta_entry, _drain_reorder_buffer, _send_delta_ack. *)
ApplyDelta(r, l) ==
  LET s == seen[r] \cup {l}
      k == Pointer(last[r], s)
      d == Drained(k, s, buffer[r])
  IN  /\ applied' = [applied EXCEPT ![r] = CalledWith(@, {l} \cup d)]
      /\ last' = [last EXCEPT ![r] = k + Cardinality(d)]
      /\ seen' = [seen EXCEPT ![r] = Pruned(s, last'[r])]
      /\ buffer' = [buffer EXCEPT ![r] = @ \ d]
      /\ acks' = acks \cup {<<l, r>>}

Expected(r) == last[r] + 1

(* _handle_delta drops an LSN it has seen or that its pointer has passed. *)
Fresh(r, l) == l \in deltas /\ l \notin seen[r] /\ l > last[r]

DeliverNext(r, l) ==
  /\ Fresh(r, l)
  /\ l = Expected(r)
  /\ ApplyDelta(r, l)
  /\ UNCHANGED <<writer, deltas, syncs, answers>>

(* An early delta reserves its slot in _applied_lsns and waits. *)
DeliverEarly(r, l) ==
  /\ Fresh(r, l)
  /\ l - Expected(r) \in 1..Window
  /\ seen' = [seen EXCEPT ![r] = @ \cup {l}]
  /\ buffer' = [buffer EXCEPT ![r] = @ \cup {l}]
  /\ UNCHANGED <<writer, network, last, applied>>

(* One too far ahead is applied over the gap. *)
DeliverTooEarly(r, l) ==
  /\ Fresh(r, l)
  /\ l - Expected(r) > Window
  /\ ApplyDelta(r, l)
  /\ UNCHANGED <<writer, deltas, syncs, answers>>

(* _handle_sync_response looks up _applied_lsns only, which the buffered LSNs
   are in and the pruned ones are not. *)
Wanted(r, m) == {l \in (m.from + 1)..m.upto : l \notin seen[r]}

DeliverSync(m) ==
  LET r == m.to
      s == seen[r] \cup Wanted(r, m)
      k == Pointer(last[r], s)
  IN  /\ m \in syncs
      /\ applied' = [applied EXCEPT ![r] = CalledWith(@, Wanted(r, m))]
      /\ last' = [last EXCEPT ![r] = k]
      /\ seen' = [seen EXCEPT ![r] = Pruned(s, k)]
      /\ syncs' = syncs \ {m}
      /\ UNCHANGED <<writer, deltas, acks, answers, buffer>>

Deliver(r, l) == DeliverNext(r, l) \/ DeliverEarly(r, l) \/ DeliverTooEarly(r, l)

(* Whatever is left is not delivered. *)
Quiet ==
  /\ Len(wal) = MaxLsn
  /\ UNCHANGED vars

Next ==
  \/ \E s \in {"COMMITTED", "ROLLED_BACK"} : Log(s)
  \/ \E l \in LSNs : Broadcast(l) \/ Await(l) \/ GiveUp(l)
  \/ \E l \in LSNs, r \in Readers : HandleAck(l, r) \/ Deliver(r, l)
  \/ \E r \in Readers, from \in 0..MaxLsn : AnswerSync(r, from)
  \/ \E m \in syncs : DeliverSync(m)
  \/ Quiet

Spec == Init /\ [][Next]_vars

(* For liveness, the runs in which the network delivers. *)
FairSpec == Spec /\ \A r \in Readers, l \in LSNs : WF_vars(Deliver(r, l))

-----------------------------------------------------------------------------
AppliedBy(r) == {l \in LSNs : applied[r][l] > 0}

(* replicate_tx "returns True when all known read nodes acknowledge the delta":
   then all of them have applied it, whatever was lost, doubled or reordered. *)
AckedMeansApplied ==
  \A l \in LSNs : task[l] = "acked" => \A r \in Readers : l \in AppliedBy(r)

(* The pointer has no hole below it: an LSN it has passed was applied, or came
   early and is still in the buffer. *)
PointerCoversReceived ==
  \A r \in Readers : \A l \in 1..last[r] : l \in AppliedBy(r) \cup buffer[r]

(* No LSN is applied twice while the reader still remembers it. *)
RecentAppliedOnce ==
  \A r \in Readers, l \in LSNs : applied[r][l] > 1 => l <= last[r] - Keep

(* If the log up to l is all committed and sent, and the network delivers, every
   reader's pointer gets there, in whatever order the deltas come. *)
PointerCatchesUp ==
  \A l \in LSNs : 1..l \subseteq deltas ~> \A r \in Readers : last[r] >= l

(* The reorder buffer is there for "preventing silent data loss when a newer
   LSN wins a TCP race": what the pointer has passed has been applied. *)
NoSilentLoss == \A r \in Readers : 1..last[r] \subseteq AppliedBy(r)
=============================================================================
