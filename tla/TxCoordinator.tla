--------------------------- MODULE TxCoordinator ---------------------------
(***************************************************************************)
(* The write path of one node: TransactionCoordinator.submit running in    *)
(* several threads over one CellLockManager, one WriteNode and one         *)
(* WriteAheadLog (src/core/coordinator.py, lock_manager.py, write_node.py, *)
(* wal.py, transaction.py).                                                *)
(*                                                                         *)
(* Each step is what one thread does without another thread being able to  *)
(* come between: the critical section of one lock (the guard of the lock   *)
(* manager, the write node's _lock, the log's _lock) and the thread-local  *)
(* work around it.  The replay cursor has no lock: its test and its        *)
(* assignment are two steps.                                               *)
(*                                                                         *)
(* A transaction carries at most one operation per cell, which is what     *)
(* every caller in the repository builds; its operations are a function    *)
(* from its cells to the old value it expects and the new value.           *)
(***************************************************************************)
EXTENDS Integers, Sequences, FiniteSets

CONSTANTS
  Callers,      \* the threads that call submit, one transaction each at a time
  Columns,      \* column names of WriteNode._df
  Rows,         \* its row indices
  Values,       \* cell values
  Blank,        \* the value of a cell nothing has written (None)
  Requests,     \* the operation lists callers submit
  AppendFaults, \* whether wal.append may raise (disk full, broken connection)
  Unlogged,     \* whether some frame is used with transactional=False
  NoTx,         \* "nobody": the cell is in no entry of _cell_to_tx
  MaxLsn        \* bound on the log: no transaction starts once it is reached

Cells == Columns \X Rows
Update == [old : Values, new : Values]

ASSUME BlankIsValue == Blank \in Values
ASSUME NoTxIsNobody == NoTx \notin Callers
ASSUME RowsAreIndices == Rows \subseteq Nat
ASSUME FlagsAreBoolean == AppendFaults \in BOOLEAN /\ Unlogged \in BOOLEAN
ASSUME RequestsAreUpdates ==
  \A r \in Requests : r \in [DOMAIN r -> Update] /\ DOMAIN r \subseteq Cells
ASSUME MaxLsnIsNat == MaxLsn \in Nat

VARIABLES
  pc,          \* where each caller is in submit
  req,         \* the operations of each caller's transaction
  lsn,         \* the LSN wal.append returned to each caller
  cell_to_tx,  \* CellLockManager._cell_to_tx
  tx_to_cells, \* CellLockManager._tx_to_cells
  df,          \* WriteNode._df: the value of each cell, Blank where it has none
  columns,     \* the columns WriteNode._df has
  rows,        \* the rows it has, shared by all its columns
  wal,         \* WriteAheadLog._entries; an entry's LSN is its index
  cursor,      \* TransactionCoordinator._wal_replay_last_lsn
  scheduled,   \* LSNs handed to the replication manager
  dirty        \* history: cells whose last write is missing from the log

lockVars == <<cell_to_tx, tx_to_cells>>
frameVars == <<df, columns, rows>>
vars == <<pc, req, lsn, lockVars, frameVars, wal, cursor, scheduled, dirty>>

(* The places of submit.  "committed" is the window between the write node's
   apply and the log's append; "failing" is the except branch before its own
   append. *)
Places == {"idle", "validating", "locked", "committed", "logged", "advancing",
           "syncing", "failing", "releasing"}

TxStates == {"COMMITTED", "ROLLED_BACK"}

Entry == [ops : Requests, state : TxStates]

NoOps == [c \in {} |-> [old |-> Blank, new |-> Blank]]

TypeOK ==
  /\ pc \in [Callers -> Places]
  /\ req \in [Callers -> Requests \cup {NoOps}]
  /\ \A t \in Callers : pc[t] # "idle" => req[t] \in Requests
  /\ lsn \in [Callers -> Nat]
  /\ cell_to_tx \in [Cells -> Callers \cup {NoTx}]
  /\ tx_to_cells \in [Callers -> SUBSET Cells]
  /\ df \in [Cells -> Values]
  /\ columns \in SUBSET Columns
  /\ rows \in SUBSET Rows
  /\ wal \in Seq(Entry)
  /\ cursor \in Nat
  /\ scheduled \in SUBSET Nat
  /\ dirty \in SUBSET Cells

Init ==
  /\ pc = [t \in Callers |-> "idle"]
  /\ req = [t \in Callers |-> NoOps]
  /\ lsn = [t \in Callers |-> 0]
  /\ cell_to_tx = [c \in Cells |-> NoTx]
  /\ tx_to_cells = [t \in Callers |-> {}]
  /\ df = [c \in Cells |-> Blank]
  /\ columns = {}
  /\ rows = {}
  /\ wal = <<>>
  /\ cursor = 0
  /\ scheduled = {}
  /\ dirty = {}

Goto(t, place) == pc' = [pc EXCEPT ![t] = place]

-----------------------------------------------------------------------------
(* Broken variants of the definitions below, each a slip the code could have
   had; the properties are checked to notice them. *)

(* append before transition(COMMITTED). *)
LogBeforeTransition(t) ==
  /\ pc[t] = "committed"
  /\ wal' = Append(wal, [ops |-> req[t], state |-> "APPLYING"])
  /\ lsn' = [lsn EXCEPT ![t] = Len(wal) + 1]
  /\ Goto(t, "logged")
  /\ UNCHANGED <<req, lockVars, frameVars, cursor, scheduled, dirty>>

(* release pops the transaction and forgets its cells. *)
ReleaseOneTable(t) ==
  /\ pc[t] = "releasing"
  /\ tx_to_cells' = [tx_to_cells EXCEPT ![t] = {}]
  /\ req' = [req EXCEPT ![t] = NoOps]
  /\ lsn' = [lsn EXCEPT ![t] = 0]
  /\ Goto(t, "idle")
  /\ UNCHANGED <<cell_to_tx, frameVars, wal, cursor, scheduled, dirty>>

(* all() for any() in acquire. *)
ConflictOnAll(t) ==
  DOMAIN req[t] # {} /\ \A c \in DOMAIN req[t] : cell_to_tx[c] \notin {NoTx, t}

(* submit ignores what acquire returned. *)
LockConflictIgnored(t) ==
  /\ pc[t] = "validating"
  /\ \E c \in DOMAIN req[t] : cell_to_tx[c] \notin {NoTx, t}
  /\ Goto(t, "locked")
  /\ UNCHANGED <<req, lsn, lockVars, frameVars, wal, cursor, scheduled, dirty>>

(* A mismatch on a later operation leaves the earlier ones in place. *)
ApplyFailsWithoutRollback(t) ==
  /\ pc[t] = "locked"
  /\ \E c \in DOMAIN req[t] :
       /\ df[c] = req[t][c].old
       /\ df' = [df EXCEPT ![c] = req[t][c].new]
  /\ Goto(t, "failing")
  /\ UNCHANGED <<req, lsn, lockVars, columns, rows, wal, cursor, scheduled, dirty>>

(* No optimistic check. *)
MatchesAlways(r) == TRUE

(* The except branch replicates too. *)
AfterCursorAlwaysSyncs(t) == "syncing"

(* release in the normal path and the except clause, not in a finally. *)
LogRaisesPastRelease(t, kept, caught) ==
  /\ AppendFaults
  /\ pc[t] = "committed"
  /\ wal' = IF kept THEN Append(wal, [ops |-> req[t], state |-> "COMMITTED"]) ELSE wal
  /\ dirty' = IF kept THEN dirty ELSE dirty \cup DOMAIN req[t]
  /\ Goto(t, IF caught THEN "failing" ELSE "idle")
  /\ UNCHANGED <<req, lsn, lockVars, frameVars, cursor, scheduled>>

-----------------------------------------------------------------------------
(* submit: the new transaction and its VALIDATING state.  The leader guard
   before it reads a leader the cluster sets from outside and changes nothing
   when it refuses: a refused call is a call that does not begin. *)
Submit(t, r) ==
  /\ pc[t] = "idle"
  /\ Len(wal) + Cardinality({u \in Callers : pc[u] # "idle"}) < MaxLsn
  /\ req' = [req EXCEPT ![t] = r]
  /\ Goto(t, "validating")
  /\ UNCHANGED <<lsn, lockVars, frameVars, wal, cursor, scheduled, dirty>>

(* CellLockManager.acquire refuses if any cell belongs to another transaction. *)
Conflict(t) == \E c \in DOMAIN req[t] : cell_to_tx[c] \notin {NoTx, t}

Acquire(t) ==
  /\ pc[t] = "validating"
  /\ ~Conflict(t)
  /\ cell_to_tx' = [c \in Cells |-> IF c \in DOMAIN req[t] THEN t ELSE cell_to_tx[c]]
  /\ tx_to_cells' = [tx_to_cells EXCEPT ![t] = @ \cup DOMAIN req[t]]
  /\ Goto(t, "locked")
  /\ UNCHANGED <<req, lsn, frameVars, wal, cursor, scheduled, dirty>>

LockConflict(t) ==
  /\ pc[t] = "validating"
  /\ Conflict(t)
  /\ Goto(t, "failing")
  /\ UNCHANGED <<req, lsn, lockVars, frameVars, wal, cursor, scheduled, dirty>>

(* WriteNode.apply's optimistic check, over all the operations of the list. *)
Matches(r) == \A c \in DOMAIN r : df[c] = r[c].old

(* ... and its writes, with the columns and rows it makes for them. *)
Written(r) ==
  /\ Matches(r)
  /\ df' = [c \in Cells |-> IF c \in DOMAIN r THEN r[c].new ELSE df[c]]
  /\ columns' = columns \cup {c[1] : c \in DOMAIN r}
  /\ rows' = rows \cup {n \in Rows : \E c \in DOMAIN r : n <= c[2]}

Apply(t) ==
  /\ pc[t] = "locked"
  /\ Written(req[t])
  /\ Goto(t, "committed")
  /\ UNCHANGED <<req, lsn, lockVars, wal, cursor, scheduled, dirty>>

(* What _rollback leaves of a list whose operations on done went through before
   the one on x did not.  The rows apply added are trimmed and the columns that
   were there get their values back; a column apply made stays, and in the rows
   that were there before so do its values. *)
Leftovers(done) == {c \in done : c[1] \notin columns /\ c[2] \in rows}

RolledBack(r) ==
  \E x \in DOMAIN r : \E done \in SUBSET (DOMAIN r \ {x}) :
    /\ \A c \in done : df[c] = r[c].old
    /\ df' = [c \in Cells |-> IF c \in Leftovers(done) THEN r[c].new ELSE df[c]]
    /\ columns' = columns \cup {c[1] : c \in done \cup {x}}
    /\ dirty' = dirty \cup Leftovers(done)
    /\ UNCHANGED rows

(* apply returned False: a mismatch, or an exception it rolled back. *)
ApplyFails(t) ==
  /\ pc[t] = "locked"
  /\ RolledBack(req[t])
  /\ Goto(t, "failing")
  /\ UNCHANGED <<req, lsn, lockVars, wal, cursor, scheduled>>

(* wal.append in the committed branch. *)
LogCommitted(t) ==
  /\ pc[t] = "committed"
  /\ wal' = Append(wal, [ops |-> req[t], state |-> "COMMITTED"])
  /\ lsn' = [lsn EXCEPT ![t] = Len(wal) + 1]
  /\ Goto(t, "logged")
  /\ UNCHANGED <<req, lockVars, frameVars, cursor, scheduled, dirty>>

(* wal.append raises.  The file log has already put the entry in its list
   (kept); a shared log has not.  The except clause of submit catches only
   RuntimeError and ValueError (caught); any other exception goes through.
   Either way the write node keeps the new values. *)
LogRaises(t, kept, caught) ==
  /\ AppendFaults
  /\ pc[t] = "committed"
  /\ wal' = IF kept THEN Append(wal, [ops |-> req[t], state |-> "COMMITTED"]) ELSE wal
  /\ dirty' = IF kept THEN dirty ELSE dirty \cup DOMAIN req[t]
  /\ Goto(t, IF caught THEN "failing" ELSE "releasing")
  /\ UNCHANGED <<req, lsn, lockVars, frameVars, cursor, scheduled>>

(* The except branch: fail(), then wal.append of the rolled back transaction. *)
LogRolledBack(t) ==
  /\ pc[t] = "failing"
  /\ wal' = Append(wal, [ops |-> req[t], state |-> "ROLLED_BACK"])
  /\ lsn' = [lsn EXCEPT ![t] = Len(wal) + 1]
  /\ Goto(t, "logged")
  /\ UNCHANGED <<req, lockVars, frameVars, cursor, scheduled, dirty>>

LogRolledBackRaises(t, kept) ==
  /\ AppendFaults
  /\ pc[t] = "failing"
  /\ wal' = IF kept THEN Append(wal, [ops |-> req[t], state |-> "ROLLED_BACK"]) ELSE wal
  /\ Goto(t, "releasing")
  /\ UNCHANGED <<req, lsn, lockVars, frameVars, cursor, scheduled, dirty>>

(* Both branches go on with the cursor; only the committed one replicates. *)
AfterCursor(t) ==
  IF wal[lsn[t]].state = "COMMITTED" THEN "syncing" ELSE "releasing"

(* _advance_wal_replay_cursor: the test ... *)
TestCursor(t) ==
  /\ pc[t] = "logged"
  /\ Goto(t, IF lsn[t] <= cursor THEN AfterCursor(t) ELSE "advancing")
  /\ UNCHANGED <<req, lsn, lockVars, frameVars, wal, cursor, scheduled, dirty>>

(* ... and the assignment, with no lock between the two. *)
SetCursor(t) ==
  /\ pc[t] = "advancing"
  /\ cursor' = lsn[t]
  /\ Goto(t, AfterCursor(t))
  /\ UNCHANGED <<req, lsn, lockVars, frameVars, wal, scheduled, dirty>>

(* SYNCING, _fire_replication, SYNCED.  A thread without a running event loop,
   and a coordinator without a replication manager, schedule nothing. *)
Sync(t) ==
  /\ pc[t] = "syncing"
  /\ scheduled' \in {scheduled, scheduled \cup {lsn[t]}}
  /\ Goto(t, "releasing")
  /\ UNCHANGED <<req, lsn, lockVars, frameVars, wal, cursor, dirty>>

(* The finally clause: CellLockManager.release. *)
Release(t) ==
  /\ pc[t] = "releasing"
  /\ cell_to_tx' = [c \in Cells |-> IF c \in tx_to_cells[t] /\ cell_to_tx[c] = t
                                    THEN NoTx ELSE cell_to_tx[c]]
  /\ tx_to_cells' = [tx_to_cells EXCEPT ![t] = {}]
  /\ req' = [req EXCEPT ![t] = NoOps]
  /\ lsn' = [lsn EXCEPT ![t] = 0]
  /\ Goto(t, "idle")
  /\ UNCHANGED <<frameVars, wal, cursor, scheduled, dirty>>

(* submit_non_transactional: apply with neither locks nor log. *)
SubmitNonTransactional(r) ==
  /\ Unlogged
  /\ Written(r)
  /\ dirty' = dirty \cup DOMAIN r
  /\ UNCHANGED <<pc, req, lsn, lockVars, wal, cursor, scheduled>>

SubmitNonTransactionalFails(r) ==
  /\ Unlogged
  /\ RolledBack(r)
  /\ UNCHANGED <<pc, req, lsn, lockVars, wal, cursor, scheduled>>

(* Every caller has returned and the bound on the log lets none begin. *)
Quiet ==
  /\ \A t \in Callers : pc[t] = "idle"
  /\ Len(wal) >= MaxLsn
  /\ UNCHANGED vars

Step(t) ==
  \/ Acquire(t)
  \/ LockConflict(t)
  \/ Apply(t)
  \/ ApplyFails(t)
  \/ LogCommitted(t)
  \/ \E kept, caught \in BOOLEAN : LogRaises(t, kept, caught)
  \/ LogRolledBack(t)
  \/ \E kept \in BOOLEAN : LogRolledBackRaises(t, kept)
  \/ TestCursor(t)
  \/ SetCursor(t)
  \/ Sync(t)
  \/ Release(t)

Next ==
  \/ \E t \in Callers : Step(t) \/ \E r \in Requests : Submit(t, r)
  \/ \E r \in Requests : SubmitNonTransactional(r) \/ SubmitNonTransactionalFails(r)
  \/ Quiet

Spec == Init /\ [][Next]_vars

(* Nothing in submit waits for another caller, so a thread the system runs
   always has its next step. *)
FairSpec == Spec /\ \A t \in Callers : WF_vars(Step(t))

-----------------------------------------------------------------------------
(* The places between acquire and release. *)
Holds(t) == pc[t] \in {"locked", "committed"}

(* Entry i is the last committed entry of the log about cell c. *)
Wrote(i, c) == wal[i].state = "COMMITTED" /\ c \in DOMAIN wal[i].ops

LastWrite(i, c) ==
  /\ i \in DOMAIN wal
  /\ Wrote(i, c)
  /\ \A j \in DOMAIN wal : Wrote(j, c) => j <= i

(* What the log says cell c holds. *)
LogSays(c, v) ==
  \/ \E i \in DOMAIN wal : LastWrite(i, c) /\ v = wal[i].ops[c].new
  \/ v = Blank /\ \A i \in DOMAIN wal : ~Wrote(i, c)

(* Some caller has applied a write of c and not yet appended it. *)
Pending(c) == \E t \in Callers : pc[t] = "committed" /\ c \in DOMAIN req[t]

(* CellLockManager keeps one fact in two tables, and a failed acquire, a failed
   apply, a log that raises and a normal end must all leave them agreeing: a
   cell's owner lists it, and nobody lists a cell it does not own. *)
LockTablesAgree ==
  /\ \A c \in Cells : cell_to_tx[c] # NoTx => c \in tx_to_cells[cell_to_tx[c]]
  /\ \A t \in Callers : \A c \in tx_to_cells[t] : cell_to_tx[c] = t

(* Two transactions past acquire never share a cell, so the write node's apply
   and the log's append of one are not separated by those of the other. *)
Isolation ==
  \A t, u \in Callers :
    t # u /\ Holds(t) /\ Holds(u) => DOMAIN req[t] \cap DOMAIN req[u] = {}

(* The write node holds, for every cell, what the log says last: a failed or
   rolled back transaction left nothing behind, and the order of the log is
   the order of the writes.  Cells between apply and append are excepted, and
   those written past the log. *)
WriteNodeMatchesLog ==
  \A c \in Cells : Pending(c) \/ c \in dirty \/ LogSays(c, df[c])

(* Each committed entry expected exactly the value the previous committed entry
   about that cell wrote: of two racing writers from one old value one commits
   (tests/test_concurrent.py: test_two_threads_same_cell_one_fails). *)
LogChains ==
  \A j \in DOMAIN wal : \A c \in Cells \ dirty :
    Wrote(j, c) =>
      \/ \E i \in 1..(j - 1) :
           /\ Wrote(i, c)
           /\ \A k \in (i + 1)..(j - 1) : ~Wrote(k, c)
           /\ wal[j].ops[c].old = wal[i].ops[c].new
      \/ /\ \A i \in 1..(j - 1) : ~Wrote(i, c)
         /\ wal[j].ops[c].old = Blank

(* Replication is only ever asked to ship committed entries that are in the
   log, and the cursor never points past it. *)
ScheduledAreCommitted ==
  /\ \A l \in scheduled : l \in DOMAIN wal /\ wal[l].state = "COMMITTED"
  /\ cursor <= Len(wal)

(* A cell of the write node changes only in the apply of the transaction that
   owns its lock, except on the non-transactional path, where no caller moves. *)
OwnedWrite ==
  \A c \in Cells : df'[c] # df[c] =>
    \/ pc' = pc
    \/ \E t \in Callers : cell_to_tx[c] = t /\ pc[t] = "locked" /\ pc'[t] # "locked"

OnlyOwnersWrite == [][OwnedWrite]_vars

(* To a caller submit looks like one step, the append.  Until then the store
   has not changed, whatever the write node holds already. *)
Phase(t) ==
  CASE pc[t] = "idle" -> "idle"
    [] pc[t] \in {"validating", "locked", "committed"} -> "waiting"
    [] pc[t] = "failing" -> "refused"
    [] OTHER -> "answered"

Applied(c) == {t \in Callers : pc[t] = "committed" /\ c \in DOMAIN req[t]}

Settled(c) == IF Applied(c) = {} THEN df[c] ELSE req[CHOOSE t \in Applied(c) : TRUE][c].old

Store == INSTANCE AtomicStore WITH
  phase <- [t \in Callers |-> Phase(t)],
  store <- [c \in Cells \ dirty |-> Settled(c)],
  history <- wal

(* Locks, optimistic check, apply and append by threads that overlap come to
   one compare-and-write of all the cells of a transaction at a time, in the
   order of the log: submit of coordinator.py against AtomicStore. *)
ImplementsStore == Store!Spec

(* Every transaction that begins ends, whatever raised on the way, and then
   holds no lock. *)
TransactionsEnd ==
  \A t \in Callers : pc[t] # "idle" ~> pc[t] = "idle" /\ tx_to_cells[t] = {}
=============================================================================
