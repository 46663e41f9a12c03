------------------------------- MODULE OpLog -------------------------------
(***************************************************************************)
(* The operation log of the cluster's metadata: every node has a database  *)
(* of operations, followers push theirs to the leader, pull what it has    *)
(* decided and, when they are far behind, take its whole database          *)
(* (src/core/op_log.py; the sync loop, the leader's handlers and the       *)
(* membership gate of src/core/cluster_runtime.py).                        *)
(*                                                                         *)
(* A request and what the leader does with it are one step; the answer is  *)
(* on its way until it is handled, or lost to a time-out.  A node has at   *)
(* most one request of its sync loop and one of its gates open (the gates: *)
(* a membership update, the leader heard again), and may append to its log *)
(* meanwhile.  The leader is fixed, as in the static cluster the runtime   *)
(* is configured for.                                                      *)
(***************************************************************************)
EXTENDS Integers, Sequences, FiniteSets, SequencesExt

CONSTANTS
  Followers,
  Leader,
  Keys,            \* (entity, key) pairs
  Values,          \* what is recorded about them
  PushThreshold,   \* push_threshold_ops
  ResyncThreshold, \* full_resync_threshold_ops
  Gated,           \* the followers that hear membership updates
  MaxSeq,          \* bound: the numbers of the operations
  MaxOps,          \* bound: how many operations are made, by all nodes together
  NoAnswer         \* no request is open

Nodes == Followers \cup {Leader}

ASSUME LeaderLeads == Leader \notin Followers
ASSUME GatedFollow == Gated \subseteq Followers
ASSUME ThresholdsArePositive ==
  PushThreshold \in Nat \ {0} /\ ResyncThreshold \in Nat \ {0}
ASSUME BoundsAreNat == MaxSeq \in Nat /\ MaxOps \in Nat

VARIABLES
  log,   \* the table op_log of each node, its rows ordered by updated_at
  seq,   \* op_meta.local_seq
  epoch, \* op_meta.leader_epoch
  open,  \* the answer each open request of a node will get
  made   \* how many operations were made

vars == <<log, seq, epoch, open, made>>

Ids == (0..1) \X (1..MaxSeq)
Row == [id : Ids, key : Keys, value : Values, origin : Nodes,
        status : {"pending", "acked", "rejected_by_leader"}]
Tasks == {"loop", "gate"}

(* What a task waits for, or, for the loop between its push and its pull or
   resync, which of the two is next. *)
Answer ==
  [kind : {"push"}, acked : Seq(Row), rejected : SUBSET Ids, then : {"near", "far"}]
    \cup [kind : {"near", "far"}]
    \cup [kind : {"pull"}, ops : Seq(Row)]
    \cup [kind : {"snapshot"}, log : Seq(Row), seq : Nat, epoch : 0..1]
    \cup [kind : {"ops"}, ops : Seq(Row), saved : Seq(Row)]

TypeOK ==
  /\ log \in [Nodes -> Seq(Row)]
  /\ \A n \in Nodes : \A i, j \in DOMAIN log[n] : log[n][i].id = log[n][j].id => i = j
  /\ seq \in [Nodes -> 0..MaxSeq]
  /\ epoch \in [Nodes -> 0..1]
  /\ open \in [Followers -> [Tasks -> Answer \cup {NoAnswer}]]
  /\ made \in 0..MaxOps

(* A database made for a leader has epoch 1, any other epoch 0; a follower may
   have been configured as the leader when its database was made. *)
Init ==
  /\ log = [n \in Nodes |-> <<>>]
  /\ seq = [n \in Nodes |-> 0]
  /\ epoch \in {e \in [Nodes -> 0..1] : e[Leader] = 1}
  /\ open = [f \in Followers |-> [task \in Tasks |-> NoAnswer]]
  /\ made = 0

Rows(l) == {l[i] : i \in DOMAIN l}
IdsOf(l) == {r.id : r \in Rows(l)}
WithStatus(l, s) == {r \in Rows(l) : r.status = s}

(* Operation ids are compared as text: the epoch, then the padded number. *)
Before(i, j) == i[1] < j[1] \/ (i[1] = j[1] /\ i[2] < j[2])

(* ORDER BY op_id: the i-th of the rows is the one with i - 1 before it. *)
ById(rows) ==
  [i \in 1..Cardinality(rows) |->
     CHOOSE r \in rows : Cardinality({q \in rows : Before(q.id, r.id)}) = i - 1]

Pending(n) == ById(WithStatus(log[n], "pending"))
Acked(l) == ById(WithStatus(l, "acked"))

(* get_last_acked_op_id, <<0, 0>> for None. *)
LastAcked(l) == IF Acked(l) = <<>> THEN <<0, 0>> ELSE Last(Acked(l)).id

(* An update that does not find the row by its id. *)
AppendAlways(l, row) == Append(l, row)

Without(l, id) ==
  IF id \in IdsOf(l) THEN RemoveAt(l, CHOOSE i \in DOMAIN l : l[i].id = id) ELSE l

(* ON CONFLICT(op_id) DO UPDATE: the row is written again, and is the latest. *)
Upsert(l, row) == Append(Without(l, row.id), row)

(* _latest_acked_for_key: the acknowledged row of a key that was written last. *)
AckedAt(l, k) == {i \in DOMAIN l : l[i].key = k /\ l[i].status = "acked"}

LatestValue(l, k) == {l[i].value : i \in {j \in AckedAt(l, k) : \A h \in AckedAt(l, k) : h <= j}}

-----------------------------------------------------------------------------
(* Broken variants of the definitions below. *)

(* No dedup_check: an operation that is known is judged again. *)
AcceptWithoutDedup(s, op) ==
  IF LatestValue(s.log, op.key) \notin {{}, {op.value}}
  THEN [s EXCEPT !.rejected = @ \cup {op.id}]
  ELSE LET row == [op EXCEPT !.status = "acked"]
       IN [s EXCEPT !.log = Upsert(s.log, row), !.acked = Append(@, row)]

(* The last writer wins. *)
ConflictsNever(l, op) == FALSE

(* An acknowledgement only sets the status of the follower's own row. *)
ApplyAckedInPlace(l, ops) ==
  [i \in DOMAIN l |-> IF l[i].id \in IdsOf(ops) THEN [l[i] EXCEPT !.status = "acked"]
                      ELSE l[i]]
    \o ById({r \in Rows(ops) : r.id \notin IdsOf(l)})

(* Appending is an upsert too. *)
AppendOver(l, row) == Upsert(l, row)

-----------------------------------------------------------------------------
(* append_local: a number, then a row.  The id is the primary key: when it is
   taken the insert raises, and the number is used up. *)
NewId(n) == <<epoch[n], seq[n] + 1>>

NewRow(id, k, v, n) == [id |-> id, key |-> k, value |-> v, origin |-> n, status |-> "pending"]

Inserted(l, row) == IF row.id \in IdsOf(l) THEN l ELSE Append(l, row)

Propose(f, k, v) ==
  /\ seq[f] < MaxSeq
  /\ made < MaxOps /\ made' = made + 1
  /\ log' = [log EXCEPT ![f] = Inserted(@, NewRow(NewId(f), k, v, f))]
  /\ seq' = [seq EXCEPT ![f] = @ + 1]
  /\ UNCHANGED <<epoch, open>>

(* _record_metadata_op at the leader: append_local_acked. *)
Record(k, v) ==
  /\ seq[Leader] < MaxSeq
  /\ made < MaxOps /\ made' = made + 1
  /\ log' = [log EXCEPT ![Leader] =
               IF NewId(Leader) \in IdsOf(@) THEN @
               ELSE Upsert(@, [NewRow(NewId(Leader), k, v, Leader) EXCEPT !.status = "acked"])]
  /\ seq' = [seq EXCEPT ![Leader] = @ + 1]
  /\ UNCHANGED <<epoch, open>>

(* The leader stops between the two commits of append_local_acked. *)
RecordCut(k, v) ==
  /\ seq[Leader] < MaxSeq
  /\ made < MaxOps /\ made' = made + 1
  /\ log' = [log EXCEPT ![Leader] = Inserted(@, NewRow(NewId(Leader), k, v, Leader))]
  /\ seq' = [seq EXCEPT ![Leader] = @ + 1]
  /\ UNCHANGED <<epoch, open>>

Conflicts(l, op) == LatestValue(l, op.key) \notin {{}, {op.value}}

(* One round of accept_from_follower: known operations are answered with what is
   known of them, whatever that is; a conflicting value is refused. *)
AcceptOne(s, op) ==
  IF op.id \in IdsOf(s.log)
  THEN [s EXCEPT !.acked = Append(@, CHOOSE r \in Rows(s.log) : r.id = op.id)]
  ELSE IF Conflicts(s.log, op)
  THEN [s EXCEPT !.rejected = @ \cup {op.id}]
  ELSE LET row == [op EXCEPT !.status = "acked"]
       IN [s EXCEPT !.log = Upsert(s.log, row), !.acked = Append(@, row)]

(* accept_from_follower: the operations one after the other. *)
AcceptAll(l, ops) ==
  LET After[i \in 0..Len(ops)] ==
        IF i = 0 THEN [log |-> l, acked |-> <<>>, rejected |-> {}]
        ELSE AcceptOne(After[i - 1], ops[i])
  IN After[Len(ops)]

Waiting(f, task, kind) == open[f][task] # NoAnswer /\ open[f][task].kind = kind

Await(f, task, what) == open' = [open EXCEPT ![f][task] = what]

(* How long the outbox was when the loop's tick began decides what follows. *)
Direction(f) == IF Len(Pending(f)) >= ResyncThreshold THEN "far" ELSE "near"

(* push_to_leader up to its await, and the leader's handler. *)
Push(f) ==
  /\ open[f]["loop"] = NoAnswer
  /\ Len(Pending(f)) >= PushThreshold
  /\ LET s == AcceptAll(log[Leader], Pending(f))
     IN /\ log' = [log EXCEPT ![Leader] = s.log]
        /\ Await(f, "loop", [kind |-> "push", acked |-> s.acked, rejected |-> s.rejected,
                             then |-> Direction(f)])
  /\ UNCHANGED <<seq, epoch, made>>

(* apply_acked, whatever the status of the row the leader sent. *)
ApplyAcked(l, ops) ==
  LET After[i \in 0..Len(ops)] ==
        IF i = 0 THEN l ELSE Upsert(After[i - 1], [ops[i] EXCEPT !.status = "acked"])
  IN After[Len(ops)]

MarkRejected(l, ids) ==
  [i \in DOMAIN l |-> IF l[i].id \in ids THEN [l[i] EXCEPT !.status = "rejected_by_leader"]
                      ELSE l[i]]

HandlePush(f) ==
  /\ Waiting(f, "loop", "push")
  /\ LET a == open[f]["loop"]
     IN /\ log' = [log EXCEPT ![f] = MarkRejected(ApplyAcked(@, a.acked), a.rejected)]
        /\ Await(f, "loop", [kind |-> a.then])
  /\ UNCHANGED <<seq, epoch, made>>

(* The loop goes on: after a push, or at once when the outbox is too short. *)
GoesOn(f, what) ==
  \/ Waiting(f, "loop", what)
  \/ open[f]["loop"] = NoAnswer /\ Len(Pending(f)) < PushThreshold /\ Direction(f) = what

(* export_since. *)
Export(l, since) == ById({r \in WithStatus(l, "acked") : Before(since, r.id)})

(* The loop, or _check_leader_reachable_now when the leader is heard again. *)
Pull(f, task) ==
  /\ IF task = "loop" THEN GoesOn(f, "near") ELSE f \in Gated /\ open[f]["gate"] = NoAnswer
  /\ Await(f, task, [kind |-> "pull", ops |-> Export(log[Leader], LastAcked(log[f]))])
  /\ UNCHANGED <<log, seq, epoch, made>>

HandlePull(f, task) ==
  /\ Waiting(f, task, "pull")
  /\ log' = [log EXCEPT ![f] = ApplyAcked(@, open[f][task].ops)]
  /\ Await(f, task, NoAnswer)
  /\ UNCHANGED <<seq, epoch, made>>

(* The gate of _handle_membership_update: estimate_gap, and a jump of epoch is
   any gap. *)
Gap(mine, theirs) ==
  IF theirs[1] > mine[1] THEN ResyncThreshold + 1 ELSE theirs[2] - mine[2]

FarBehind(f) ==
  LET mine == LastAcked(log[f])
      theirs == LastAcked(log[Leader])
  IN theirs # <<0, 0>> /\ (mine = <<0, 0>> \/ Gap(mine, theirs) > ResyncThreshold)

(* full_resync_from_leader: the manifest and the chunks are, by their checksum,
   one snapshot of the leader's database; it may be a while old when it is
   handled, as one from the leader's cache is. *)
AskSnapshot(f, task) ==
  /\ IF task = "loop" THEN GoesOn(f, "far")
     ELSE f \in Gated /\ open[f]["gate"] = NoAnswer /\ FarBehind(f)
  /\ Await(f, task, [kind |-> "snapshot", log |-> log[Leader], seq |-> seq[Leader],
                     epoch |-> epoch[Leader]])
  /\ UNCHANGED <<log, seq, epoch, made>>

(* What was pending is appended again, under new numbers; append_local raises
   when one is taken, and the except clause passes. *)
AppendAgain(s, row) ==
  LET id == <<s.epoch, s.seq + 1>>
  IN [s EXCEPT !.seq = @ + 1,
               !.log = Inserted(@, NewRow(id, row.key, row.value, s.node))]

AppendAll(s, rows) ==
  LET After[i \in 0..Len(rows)] == IF i = 0 THEN s ELSE AppendAgain(After[i - 1], rows[i])
  IN After[Len(rows)]

Refill(f, l, q, e, saved) ==
  LET s == AppendAll([log |-> l, seq |-> q, epoch |-> e, node |-> f], saved)
  IN /\ s.seq <= MaxSeq
     /\ log' = [log EXCEPT ![f] = s.log]
     /\ seq' = [seq EXCEPT ![f] = s.seq]
     /\ epoch' = [epoch EXCEPT ![f] = e]
     /\ UNCHANGED made

(* restore_sqlite_snapshot_b64: rows, number and epoch become the leader's. *)
HandleSnapshot(f, task) ==
  /\ Waiting(f, task, "snapshot")
  /\ Await(f, task, NoAnswer)
  /\ LET a == open[f][task] IN Refill(f, a.log, a.seq, a.epoch, Pending(f))

(* The follower stops after the restore, part of its outbox appended again. *)
SnapshotCut(f, task) ==
  /\ Waiting(f, task, "snapshot")
  /\ open' = [open EXCEPT ![f] = [t \in Tasks |-> NoAnswer]]
  /\ LET a == open[f][task]
     IN \E k \in 0..(Len(Pending(f)) - 1) :
          Refill(f, a.log, a.seq, a.epoch, SubSeq(Pending(f), 1, k))

(* The snapshot did not come through: _fallback_full_resync_ops keeps what is
   pending now, before it asks. *)
AskOps(f, task) ==
  /\ Waiting(f, task, "snapshot")
  /\ Await(f, task, [kind |-> "ops", ops |-> Acked(log[Leader]), saved |-> Pending(f)])
  /\ UNCHANGED <<log, seq, epoch, made>>

HandleOps(f, task) ==
  /\ Waiting(f, task, "ops")
  /\ Await(f, task, NoAnswer)
  /\ LET a == open[f][task]
     IN Refill(f, ApplyAcked(<<>>, a.ops), seq[f], epoch[f], a.saved)

(* The answer does not come within the time-out; a restart of the follower
   leaves it with its database and no answer too. *)
TimeOut(f, task) ==
  /\ \E kind \in {"push", "pull", "ops"} : Waiting(f, task, kind)
  /\ Await(f, task, IF Waiting(f, task, "push") THEN [kind |-> open[f][task].then] ELSE NoAnswer)
  /\ UNCHANGED <<log, seq, epoch, made>>

Next ==
  \/ \E f \in Followers :
       \/ \E k \in Keys, v \in Values : Propose(f, k, v)
       \/ Push(f)
       \/ HandlePush(f)
       \/ \E task \in Tasks :
            \/ Pull(f, task)
            \/ HandlePull(f, task)
            \/ AskSnapshot(f, task)
            \/ HandleSnapshot(f, task)
            \/ SnapshotCut(f, task)
            \/ AskOps(f, task)
            \/ HandleOps(f, task)
            \/ TimeOut(f, task)
  \/ \E k \in Keys, v \in Values : Record(k, v) \/ RecordCut(k, v)

Spec == Init /\ [][Next]_vars
-----------------------------------------------------------------------------
(* A leader never changes what an operation of its log says, and never takes
   an acknowledgement back: what it exported yesterday is what it holds. *)
LeaderLogIsStable ==
  [][\A r \in Rows(log[Leader]) :
       \E s \in Rows(log'[Leader]) :
          /\ [s EXCEPT !.status = r.status] = r
          /\ r.status = "acked" => s.status = "acked"]_vars

(* What a follower holds as acknowledged is an operation of the leader's log,
   word for word, whichever way it came and whatever was lost on the way. *)
AckedIsLeaders ==
  \A f \in Followers : \A r \in Rows(log[f]) :
    r.status = "acked" =>
      \E s \in Rows(log[Leader]) : [s EXCEPT !.status = "acked"] = r

(* What a follower was told is refused is not in force at the leader. *)
RefusedIsNotInForce ==
  \A f \in Followers : \A r \in Rows(log[f]) :
    r.status = "rejected_by_leader" =>
      \A s \in Rows(log[Leader]) :
        (s.id = r.id /\ s.origin = f /\ s.value = r.value) => s.status # "acked"

(* leader_wins: once the leader has a value for a key, only an append of the
   leader itself changes it. *)
LeaderWins ==
  [][\A k \in Keys :
       LatestValue(log[Leader], k) \notin {{}, LatestValue(log'[Leader], k)}
         => seq'[Leader] # seq[Leader]]_vars

(* The docstring of restore_sqlite_snapshot_b64 (src/core/op_log.py:537): what
   was pending and is not among the leader's operations is pending afterwards. *)
PendingSurvivesRestore ==
  [][\A f \in Followers, task \in Tasks :
       HandleSnapshot(f, task) =>
         \A r \in Rows(Pending(f)) : \E s \in Rows(log'[f]) :
            <<s.key, s.value>> = <<r.key, r.value>>]_vars
=============================================================================
