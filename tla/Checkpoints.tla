----------------------------- MODULE Checkpoints -----------------------------
(***************************************************************************)
(* DFrame checkpoints (src/core/dataframe.py): a checkpoint is a full copy *)
(* of the frame or a delta, the operations logged since the checkpoint     *)
(* before it.  A delta is restored by replaying it on its parent's         *)
(* snapshot; pruning turns the deltas it cuts off into full copies.        *)
(*                                                                         *)
(* The frame is one row: a function from its columns to values.            *)
(***************************************************************************)
EXTENDS Integers, Sequences, FiniteSets, SequencesExt

CONSTANTS
  Columns,      \* column names
  Seeded,       \* the columns the frame is created with
  Values,       \* cell values
  Labels,       \* checkpoint ids
  NoParent,     \* no checkpoint
  KeyError,     \* what restoring a checkpoint raises when its chain is broken
  FullInterval, \* every how many checkpoints one is full (50 in the code)
  AutoMax,      \* how many automatic checkpoints are kept (30)
  MaxOps,       \* the longest delta (5000)
  MaxLsn,       \* bound: entries of the log
  MaxCalls      \* bound: calls of checkpoint()

Frames == UNION {[S -> Values] : S \in SUBSET Columns}

ASSUME SeededAreColumns == Seeded \in SUBSET Columns /\ Seeded # {}
ASSUME NoParentIsNoLabel == NoParent \notin Labels
ASSUME KeyErrorIsNoFrame == KeyError \notin Frames
ASSUME SizesAreNat ==
  /\ FullInterval \in Nat \ {0} /\ AutoMax \in Nat
  /\ MaxOps \in Nat /\ MaxLsn \in Nat \ {0} /\ MaxCalls \in Nat
ASSUME LabelsAreFinite == IsFiniteSet(Labels)

(* An operation of a log entry: a cell's new value, or one that writes no cell:
   the summary of a seed, a change of shape. *)
BulkInit == [kind |-> "init"]
Structural == [kind |-> "shape"]
SetCell(c, v) == [kind |-> "set_cell", column |-> c, value |-> v]
Ops == {BulkInit, Structural} \cup {SetCell(c, v) : c \in Columns, v \in Values}

Entries == [committed : BOOLEAN, op : Ops]

VARIABLES
  df,          \* the frame's columns in the write node
  wal,         \* the log
  checkpoints, \* _checkpoints, in the order of its keys
  taken,       \* history: the frame each checkpoint was taken of
  doubtful,    \* history: deltas over a rollback, or over a label used again
  calls        \* history: the calls of checkpoint()

history == <<taken, doubtful, calls>>
vars == <<df, wal, checkpoints, history>>

CheckpointEntries ==
  [id : Labels, lsn : 0..MaxLsn, kind : {"full", "delta"}, snapshot_df : Frames,
   parent : Labels \cup {NoParent}, ops : Seq(Ops), auto : BOOLEAN]

(* A finite set of numbers in their order. *)
Ascending(S) ==
  CHOOSE s \in [1..Cardinality(S) -> S] :
    Range(s) = S /\ \A i, j \in DOMAIN s : i < j => s[i] < s[j]

Ids(cps) == {cps[i].id : i \in DOMAIN cps}
EntryOf(cps, id) == cps[CHOOSE i \in DOMAIN cps : cps[i].id = id]

TypeOK ==
  /\ df \in Frames
  /\ wal \in Seq(Entries) /\ Len(wal) <= MaxLsn
  /\ checkpoints \in Seq(CheckpointEntries)
  /\ \A i, j \in DOMAIN checkpoints : checkpoints[i].id = checkpoints[j].id => i = j
  /\ taken \in [Ids(checkpoints) -> Frames]
  /\ doubtful \in SUBSET Ids(checkpoints)
  /\ calls \in 0..MaxCalls
  /\ Cardinality({i \in DOMAIN checkpoints : checkpoints[i].auto}) <= AutoMax

Logged(op) == [committed |-> TRUE, op |-> op]

(* The constructor seeds the frame, which logs one summary entry. *)
Init ==
  /\ df \in [Seeded -> Values]
  /\ wal = <<Logged(BulkInit)>>
  /\ checkpoints = <<>>
  /\ taken = <<>>
  /\ doubtful = {}
  /\ calls = 0

-----------------------------------------------------------------------------
(* Writing the frame.                                                      *)

Log(entry) ==
  /\ Len(wal) < MaxLsn
  /\ wal' = Append(wal, entry)

Without(f, c) == [d \in DOMAIN f \ {c} |-> f[d]]
With(f, c, v) == [d \in DOMAIN f \cup {c} |-> IF d = c THEN v ELSE f[d]]

(* __setitem__ logs an operation per cell, also for a new column. *)
SetColumn(c, v) ==
  /\ Log(Logged(SetCell(c, v)))
  /\ df' = With(df, c, v)
  /\ UNCHANGED <<checkpoints, history>>

(* A transaction that fails is logged as rolled back. *)
SetColumnFails(c, v) ==
  /\ Log([committed |-> FALSE, op |-> SetCell(c, v)])
  /\ UNCHANGED <<df, checkpoints, history>>

(* insert_column and delete_column.  (rename_column, which does both in one
   entry, is left out.) *)
InsertColumn(c, v) ==
  /\ c \notin DOMAIN df
  /\ Log(Logged(Structural))
  /\ df' = With(df, c, v)
  /\ UNCHANGED <<checkpoints, history>>

DeleteColumn(c) ==
  /\ Log(Logged(Structural))
  /\ df' = Without(df, c)
  /\ UNCHANGED <<checkpoints, history>>

(* __delitem__ logs nothing. *)
DelItem(c) ==
  /\ c \in DOMAIN df
  /\ df' = Without(df, c)
  /\ UNCHANGED <<wal, checkpoints, history>>

-----------------------------------------------------------------------------
(* Restoring a checkpoint.                                                 *)

(* _terapkan_ops_ke_snapshot: an operation on a column the base lacks, and one
   that is no cell's, is skipped. *)
ReplayOp(f, op) ==
  IF op.kind = "set_cell" /\ op.column \in DOMAIN f
  THEN [f EXCEPT ![op.column] = op.value] ELSE f

ReplayOps(f, ops) ==
  LET after[i \in 0..Len(ops)] == IF i = 0 THEN f ELSE ReplayOp(after[i - 1], ops[i])
  IN  after[Len(ops)]

(* _materialisasi_checkpoint: the chain of parents down to a full copy, which
   must not come back to a checkpoint visited. *)
SnapshotsOf(cps) ==
  LET at[visited \in SUBSET Labels] ==
        [c \in Labels \cup {NoParent} |->
           IF c \in visited \/ c \notin Ids(cps) THEN KeyError
           ELSE LET e == EntryOf(cps, c)
                IN  IF e.kind = "full" THEN e.snapshot_df
                    ELSE LET base == at[visited \cup {c}][e.parent]
                         IN  IF base = KeyError THEN KeyError ELSE ReplayOps(base, e.ops)]
  IN  at

SnapshotOf(cps, id) == SnapshotsOf(cps)[{}][id]

-----------------------------------------------------------------------------
(* Broken variants of the definitions below, each a slip the code could have
   had; the properties are checked to notice them. *)

(* A delta is made of any operations. *)
DeltaFitsAlways(lsn) == TRUE

(* Only the checkpoints kept by name are rebased. *)
RebasedNamedOnly(cps, cut, named) == named

(* A label used again becomes a second entry. *)
PutLast(cps, e) == Append(cps, e)

-----------------------------------------------------------------------------
(* Taking a checkpoint.                                                    *)

CommittedSince(lsn) == {l \in (lsn + 1)..Len(wal) : wal[l].committed}

(* _ops_sejak: the committed operations after lsn. *)
OpsSince(lsn) ==
  LET after == Ascending(CommittedSince(lsn))
  IN  [i \in DOMAIN after |-> wal[after[i]].op]

(* They make no delta if the first entry after lsn is missing or not committed,
   if one changes the frame's shape, or if they are too many. *)
DeltaFits(lsn) ==
  /\ Len(wal) > lsn => lsn + 1 \in CommittedSince(lsn)
  /\ Structural \notin Range(OpsSince(lsn))
  /\ Len(OpsSince(lsn)) <= MaxOps

HeadCommit == IF checkpoints = <<>> THEN NoParent ELSE Last(checkpoints).id

(* _bangun_entri_checkpoint *)
NewEntry(id, auto) ==
  LET full == [id |-> id, lsn |-> Len(wal), kind |-> "full", snapshot_df |-> df,
               parent |-> NoParent, ops |-> <<>>, auto |-> auto]
      since == Last(checkpoints).lsn
  IN  IF \/ checkpoints = <<>>
         \/ Len(checkpoints) % FullInterval = 0
         \/ ~DeltaFits(since)
      THEN full
      ELSE [full EXCEPT !.kind = "delta", !.snapshot_df = <<>>,
                        !.parent = HeadCommit, !.ops = OpsSince(since)]

(* A label used again keeps its place in _checkpoints. *)
Put(cps, e) ==
  IF e.id \in Ids(cps) THEN [i \in DOMAIN cps |-> IF cps[i].id = e.id THEN e ELSE cps[i]]
  ELSE Append(cps, e)

(* _rebase_checkpoint: a delta becomes the full copy it restores to; it is left
   alone if that fails. *)
Rebase(cps, i) ==
  LET snapshot == SnapshotOf(cps, cps[i].id)
  IN  IF cps[i].kind = "full" \/ snapshot = KeyError THEN cps[i]
      ELSE [cps[i] EXCEPT !.kind = "full", !.snapshot_df = snapshot,
                          !.parent = NoParent, !.ops = <<>>]

(* Which checkpoints are rebased when those up to cut go but for the named: the
   named, or else the first of the others. *)
Rebased(cps, cut, named) == IF named # {} THEN named ELSE {cut + 1} \cap DOMAIN cps

(* prune_checkpoints *)
Pruned(cps, keep_last, keep_named) ==
  LET cut == Len(cps) - keep_last
      named == {i \in 1..cut : keep_named /\ ~cps[i].auto}
      kept == Ascending(named \cup (cut + 1)..Len(cps))
      rebased == Rebased(cps, cut, named)
  IN  IF cut <= 0 THEN cps
      ELSE [k \in DOMAIN kept |->
              IF kept[k] \in rebased THEN Rebase(cps, kept[k]) ELSE cps[kept[k]]]

Autos(cps) == Cardinality({i \in DOMAIN cps : cps[i].auto})

OverLimit(cps, auto) == auto /\ Autos(cps) > AutoMax

(* checkpoint(label, auto) *)
Checkpoint(id, auto) ==
  LET e == NewEntry(id, auto)
      cps == Put(checkpoints, e)
      over == e.kind = "delta" /\ (BulkInit \in Range(e.ops) \/ e.parent \in doubtful)
      deltas == {c \in Ids(checkpoints) : EntryOf(checkpoints, c).kind = "delta"}
      reused == IF \E c \in deltas : EntryOf(checkpoints, c).parent = id THEN deltas ELSE {}
  IN  /\ calls < MaxCalls
      /\ calls' = calls + 1
      /\ checkpoints' = IF OverLimit(cps, auto) THEN Pruned(cps, AutoMax, TRUE) ELSE cps
      /\ taken' = [c \in Ids(checkpoints') |-> IF c = id THEN df ELSE taken[c]]
      /\ doubtful' = Ids(checkpoints') \cap
                       (((doubtful \cup reused) \ {id}) \cup (IF over THEN {id} ELSE {}))
      /\ UNCHANGED <<df, wal>>

Prune(keep_last, keep_named) ==
  /\ checkpoints' = Pruned(checkpoints, keep_last, keep_named)
  /\ taken' = [c \in Ids(checkpoints') |-> taken[c]]
  /\ doubtful' = doubtful \cap Ids(checkpoints')
  /\ UNCHANGED <<df, wal, calls>>

(* rollback puts the snapshot in place of the frame and logs only that it seeded
   it, if it has columns. *)
Rollback(id) ==
  LET snapshot == SnapshotOf(checkpoints, id)
  IN  /\ snapshot # KeyError
      /\ df' = snapshot
      /\ IF DOMAIN snapshot = {} THEN UNCHANGED wal ELSE Log(Logged(BulkInit))
      /\ UNCHANGED <<checkpoints, history>>

Next ==
  \/ \E c \in Columns, v \in Values :
       SetColumn(c, v) \/ SetColumnFails(c, v) \/ InsertColumn(c, v)
  \/ \E c \in Columns : DeleteColumn(c) \/ DelItem(c)
  \/ \E id \in Labels, auto \in BOOLEAN : Checkpoint(id, auto)
  \/ \E n \in 0..Cardinality(Labels), named \in BOOLEAN : Prune(n, named)
  \/ \E id \in Ids(checkpoints) : Rollback(id)

Spec == Init /\ [][Next]_vars

-----------------------------------------------------------------------------
Agree(f, g) == \A c \in DOMAIN f \cap DOMAIN g : f[c] = g[c]

(* checkpoint_snapshot: a checkpoint that can be restored has the values the
   frame had when it was taken, whatever was written, rolled back, pruned and
   rebased since - but for the deltas in doubt, and for columns a delta does not
   know were added or deleted. *)
DeltasRestore ==
  \A id \in Ids(checkpoints) \ doubtful :
    LET s == SnapshotOf(checkpoints, id) IN s # KeyError => Agree(s, taken[id])

(* A step that prunes and does not use a label again. *)
PruneStep ==
  \/ \E n \in 0..Cardinality(Labels), named \in BOOLEAN : Prune(n, named)
  \/ \E id \in Labels \ Ids(checkpoints) : Checkpoint(id, TRUE)

KeepsSnapshots ==
  \A id \in Ids(checkpoints') \cap Ids(checkpoints) :
    SnapshotOf(checkpoints, id) \in {KeyError, SnapshotOf(checkpoints', id)}

LeavesASuffix ==
  \E cut \in 0..Len(checkpoints) :
    Ids(checkpoints') \cap Ids(checkpoints) = Ids(SubSeq(checkpoints, cut + 1, Len(checkpoints)))

PrunedPlainly == PruneStep /\ LeavesASuffix => KeepsSnapshots
PrunedAnyhow == PruneStep => KeepsSnapshots

(* prune_checkpoints: "the chain must stay whole".  What is left restores as it
   did before, if no older checkpoint was kept by name. *)
PruneKeepsSuffix == [][PrunedPlainly]_vars

(* The same, of every pruning: prune_checkpoints claims it. *)
PruneKeepsChain == [][PrunedAnyhow]_vars
=============================================================================
