----------------------------- MODULE WalReplay -----------------------------
(***************************************************************************)
(* Coordinators of several nodes over one shared log (RedisWriteAheadLog,  *)
(* MySQLWriteAheadLog): the leader submits, and every node replays what    *)
(* the others committed into its own write node (src/core/coordinator.py,  *)
(* wal.py).                                                                *)
(*                                                                         *)
(* Here submit and the replay loop run on the node's one event loop, so    *)
(* that neither interrupts the other; TxCoordinator has the threads.  What *)
(* interleaves is the nodes: an append to the shared log is two steps, the *)
(* server's counter and then the entry.                                    *)
(*                                                                         *)
(* A write node lives in memory; the replay cursor lives in a file.        *)
(***************************************************************************)
EXTENDS Integers, FiniteSets, FiniteSetsExt

CONSTANTS
  Nodes,       \* the nodes that share the log
  First,       \* the leader every node is configured with
  Cells,       \* cell ids
  Structure,   \* the cell id of a structural operation, <frame>::__structure__
  Values,      \* cell values
  Blank,       \* the value of a cell nothing has written
  NoEntry,     \* an LSN with no entry
  MaxLsn,      \* bound: LSNs the log hands out
  MaxChanges,  \* bound: changes of a node's idea of the leader
  MaxRestarts  \* bound: restarts

ASSUME FirstIsNode == First \in Nodes
ASSUME BlankIsValue == Blank \in Values
ASSUME StructureIsNoCell == Structure \notin Cells
ASSUME BoundsAreNat == MaxLsn \in Nat /\ MaxChanges \in Nat /\ MaxRestarts \in Nat

LSNs == 1..MaxLsn

Entry == [cell : Cells \cup {Structure}, new : Values, state : {"COMMITTED", "ROLLED_BACK"}]

ASSUME NoEntryIsNone == NoEntry \notin Entry

VARIABLES
  leader,    \* _leader_node_id of each node's coordinator
  log,       \* the entries of the shared log
  next,      \* the log's counter: the next LSN it hands out
  lsn,       \* the LSN each node has been given and not yet used, or 0
  entry,     \* the entry each node is about to put under it
  df,        \* the write node of each node
  cursor,    \* _wal_replay_last_lsn
  saved,     \* the cursor file
  from,      \* history: the LSN of the entry each cell's value comes from
  changes,   \* how often a node changed its leader
  restarted  \* history: the nodes that have restarted

vars == <<leader, log, next, lsn, entry, df, cursor, saved, from, changes, restarted>>

TypeOK ==
  /\ leader \in [Nodes -> Nodes]
  /\ log \in [LSNs -> Entry \cup {NoEntry}]
  /\ next \in 1..(MaxLsn + 1)
  /\ lsn \in [Nodes -> 0..MaxLsn]
  /\ entry \in [Nodes -> Entry \cup {NoEntry}]
  /\ df \in [Nodes -> [Cells -> Values]]
  /\ cursor \in [Nodes -> 0..MaxLsn]
  /\ saved \in [Nodes -> 0..MaxLsn]
  /\ from \in [Nodes -> [Cells -> 0..MaxLsn]]
  /\ changes \in 0..MaxChanges
  /\ restarted \in SUBSET Nodes

Nothing == [c \in Cells |-> Blank]
Nowhere == [c \in Cells |-> 0]

Init ==
  /\ leader = [n \in Nodes |-> First]
  /\ log = [l \in LSNs |-> NoEntry]
  /\ next = 1
  /\ lsn = [n \in Nodes |-> 0]
  /\ entry = [n \in Nodes |-> NoEntry]
  /\ df = [n \in Nodes |-> Nothing]
  /\ cursor = [n \in Nodes |-> 0]
  /\ saved = [n \in Nodes |-> 0]
  /\ from = [n \in Nodes |-> Nowhere]
  /\ changes = 0
  /\ restarted = {}

Idle(n) == lsn[n] = 0

Committed(l) == log[l] # NoEntry /\ log[l].state = "COMMITTED"

(* The entries that write cell c. *)
WritesOf(c) == {l \in LSNs : Committed(l) /\ log[l].cell = c}

-----------------------------------------------------------------------------
(* Broken variants of the definitions below, each a slip the code could have
   had; the properties are checked to notice them. *)

(* No leader guard in submit. *)
MaySubmitAnywhere(n) == Idle(n)

(* submit leaves the cursor to the replay loop. *)
PublishOnly(n) ==
  /\ ~Idle(n)
  /\ log' = [log EXCEPT ![lsn[n]] = entry[n]]
  /\ lsn' = [lsn EXCEPT ![n] = 0]
  /\ entry' = [entry EXCEPT ![n] = NoEntry]
  /\ UNCHANGED <<leader, next, df, cursor, saved, from, changes, restarted>>

(* The cursor is the next LSN, not the last. *)
AdvanceCursorToNext(n, k) ==
  /\ cursor' = [cursor EXCEPT ![n] = Max({k + 1, @})]
  /\ saved' = [saved EXCEPT ![n] = Max({k + 1, cursor[n]})]

(* The cursor file is written when the replay task stops. *)
SaveAtStop(n, k) == UNCHANGED saved

(* The loop moves the cursor for the entries it applies only. *)
CursorOfAppliedOnly(n, seen) ==
  IF \E l \in seen : Committed(l) THEN Max({cursor[n]} \cup {l \in seen : Committed(l)})
  ELSE cursor[n]

-----------------------------------------------------------------------------
(* submit's leader guard. *)
MaySubmit(n) == Idle(n) /\ leader[n] = n

(* append takes the next LSN from the server: INCR, or the AUTO_INCREMENT of an
   INSERT that is not yet committed. *)
TakeLsn(n, e) ==
  /\ next <= MaxLsn
  /\ lsn' = [lsn EXCEPT ![n] = next]
  /\ entry' = [entry EXCEPT ![n] = e]
  /\ next' = next + 1

(* A transaction that commits: its cell is written before it is logged. *)
Submit(n, c, v) ==
  /\ MaySubmit(n)
  /\ TakeLsn(n, [cell |-> c, new |-> v, state |-> "COMMITTED"])
  /\ df' = [df EXCEPT ![n][c] = v]
  /\ from' = [from EXCEPT ![n][c] = next]
  /\ UNCHANGED <<leader, log, cursor, saved, changes, restarted>>

(* One structural operation (it adds a row or a column: no cell below changes),
   or a transaction that failed and is logged as rolled back. *)
SubmitElse(n, e) ==
  /\ MaySubmit(n)
  /\ e.cell = Structure \/ e.state = "ROLLED_BACK"
  /\ TakeLsn(n, e)
  /\ UNCHANGED <<leader, log, df, cursor, saved, from, changes, restarted>>

(* _advance_wal_replay_cursor, and the file it saves with save_every = 1. *)
SaveCursor(n, k) == saved' = [saved EXCEPT ![n] = k]

AdvanceCursor(n, k) ==
  /\ cursor' = [cursor EXCEPT ![n] = Max({k, @})]
  /\ SaveCursor(n, Max({k, cursor[n]}))

(* The entry reaches the log and submit ends. *)
Publish(n) ==
  /\ ~Idle(n)
  /\ log' = [log EXCEPT ![lsn[n]] = entry[n]]
  /\ AdvanceCursor(n, lsn[n])
  /\ lsn' = [lsn EXCEPT ![n] = 0]
  /\ entry' = [entry EXCEPT ![n] = NoEntry]
  /\ UNCHANGED <<leader, next, df, from, changes, restarted>>

(* What one iteration of the replay loop gets through: get_since in LSN order,
   up to the first committed structural entry, whose cell id write_node.get
   cannot parse: the ValueError ends the iteration. *)
Seen(n) ==
  {l \in LSNs : /\ l > cursor[n] /\ log[l] # NoEntry
                /\ \A k \in WritesOf(Structure) : k > cursor[n] => k > l}

(* The entry each cell's value comes from once those are applied in order. *)
Applied(n, seen) ==
  [c \in Cells |-> IF WritesOf(c) \cap seen = {} THEN from[n][c] ELSE Max(WritesOf(c) \cap seen)]

(* Rolled back entries move the cursor too. *)
CursorAfter(n, seen) == Max({cursor[n]} \cup seen)

Replay(n) ==
  /\ Idle(n)
  /\ Seen(n) # {}
  /\ from' = [from EXCEPT ![n] = Applied(n, Seen(n))]
  /\ df' = [df EXCEPT ![n] = [c \in Cells |-> IF WritesOf(c) \cap Seen(n) = {} THEN @[c]
                                              ELSE log[Applied(n, Seen(n))[c]].new]]
  /\ AdvanceCursor(n, CursorAfter(n, Seen(n)))
  /\ UNCHANGED <<leader, log, next, lsn, entry, changes, restarted>>

(* The process ends and starts again, in the middle of an append or not: an
   empty write node, and the cursor start_wal_replay loads. *)
Restart(n) ==
  /\ Cardinality(restarted) < MaxRestarts
  /\ df' = [df EXCEPT ![n] = Nothing]
  /\ from' = [from EXCEPT ![n] = Nowhere]
  /\ cursor' = [cursor EXCEPT ![n] = saved[n]]
  /\ lsn' = [lsn EXCEPT ![n] = 0]
  /\ entry' = [entry EXCEPT ![n] = NoEntry]
  /\ restarted' = restarted \cup {n}
  /\ UNCHANGED <<leader, log, next, saved, changes>>

(* promote_to_leader, or the membership update of another node's. *)
ChangeLeader(n, m) ==
  /\ Idle(n)
  /\ leader[n] # m
  /\ m = n \/ leader[m] = m
  /\ changes < MaxChanges
  /\ leader' = [leader EXCEPT ![n] = m]
  /\ changes' = changes + 1
  /\ UNCHANGED <<log, next, lsn, entry, df, cursor, saved, from, restarted>>

(* The log's counter is at its bound and every node has seen what it can. *)
Quiet ==
  /\ next > MaxLsn
  /\ \A n \in Nodes : Idle(n) /\ Seen(n) = {}
  /\ UNCHANGED vars

Next ==
  \/ \E n \in Nodes :
       \/ \E c \in Cells, v \in Values : Submit(n, c, v)
       \/ \E e \in Entry : SubmitElse(n, e)
       \/ Publish(n)
       \/ Replay(n)
       \/ Restart(n)
       \/ \E m \in Nodes : ChangeLeader(n, m)
  \/ Quiet

Spec == Init /\ [][Next]_vars

(* The replay task wakes up every _wal_replay_interval_s, and an append that
   has begun returns or fails. *)
FairSpec == Spec /\ \A n \in Nodes : WF_vars(Replay(n)) /\ WF_vars(Publish(n))

-----------------------------------------------------------------------------
(* The entry that cell c comes from after the first k entries, or 0. *)
LastWrite(c, k) == Max({0} \cup {l \in WritesOf(c) : l <= k})

(* Node n holds what the log says up to its cursor, neither more nor less. *)
HoldsPrefix(n) ==
  \A c \in Cells :
    LET l == LastWrite(c, cursor[n])
    IN  df[n][c] = IF l = 0 THEN Blank ELSE log[l].new

(* While nobody changes leader, every node that has not restarted holds exactly
   the log up to its cursor whenever its event loop is free: an entry is neither
   skipped nor applied early, rolled back ones leave nothing, and what the
   leader writes first and logs afterwards comes to the same. *)
PrefixUnderOneLeader ==
  changes = 0 => \A n \in Nodes \ restarted : Idle(n) => HoldsPrefix(n)

(* Replay never puts an older entry's value over a newer one's, own writes
   included and whatever leaders overlap: it only moves a cell forward in the
   log, until a restart empties the node. *)
CellsNeverGoBack ==
  [][\A n \in Nodes : \/ from'[n] = Nowhere
                      \/ \A c \in Cells : from'[n][c] >= from[n][c]]_vars

(* "restored coordinator should keep cursor and not regress"
   (tests/test_wal_replay.py): submit, replay and a restart at any point only
   move it up. *)
CursorNeverRegresses == [][\A n \in Nodes : cursor'[n] >= cursor[n]]_vars

(* The entries up to l are all there and none of them is structural. *)
Plain(l) == \A k \in 1..l : log[k] # NoEntry /\ k \notin WritesOf(Structure)

(* Every node gets past such entries, though it may restart. *)
PlainEntriesAreReplayed ==
  \A n \in Nodes : \A l \in LSNs : Plain(l) ~> cursor[n] >= l
=============================================================================
