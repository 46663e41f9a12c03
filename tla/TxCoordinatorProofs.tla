------------------------ MODULE TxCoordinatorProofs ------------------------
(***************************************************************************)
(* Proofs about TxCoordinator, for any callers, cells, requests and bound: *)
(* its types, the agreement of the two lock tables, the isolation of the   *)
(* transactions past acquire, the agreement of the write node with the     *)
(* log, and that the whole implements AtomicStore.                         *)
(***************************************************************************)
EXTENDS TxCoordinator, TLAPS

(***************************************************************************)
(* Type correctness.                                                       *)
(***************************************************************************)

(* The operations of a caller name cells. *)
LEMMA RequestCells ==
  ASSUME NEW r \in Requests \cup {NoOps}
  PROVE  /\ DOMAIN r \subseteq Cells
         /\ \A c \in DOMAIN r : r[c].old \in Values /\ r[c].new \in Values
BY RequestsAreUpdates DEF NoOps, Update

(* What apply writes is a frame, and so is what it leaves when it fails. *)
LEMMA FrameTypes ==
  ASSUME TypeOK, NEW r \in Requests \cup {NoOps}, Written(r) \/ RolledBack(r)
  PROVE  /\ df' \in [Cells -> Values]
         /\ columns' \in SUBSET Columns
         /\ rows' \in SUBSET Rows
<1>1. CASE Written(r)
  BY <1>1, RequestCells DEF TypeOK, Written, Cells
<1>2. CASE RolledBack(r)
  BY <1>2, RequestCells DEF TypeOK, RolledBack, Leftovers, Cells
<1> QED BY <1>1, <1>2

(* An entry appended for a transaction is an entry. *)
LEMMA AppendTypes ==
  ASSUME TypeOK, NEW r \in Requests, NEW s \in TxStates
  PROVE  Append(wal, [ops |-> r, state |-> s]) \in Seq(Entry)
BY DEF TypeOK, Entry

LEMMA TypeInit == Init => TypeOK
BY BlankIsValue DEF Init, TypeOK, Places

LEMMA TypeStep == TypeOK /\ [Next]_vars => TypeOK'
<1> SUFFICES ASSUME TypeOK, [Next]_vars PROVE TypeOK'
  OBVIOUS
<1> USE DEF TypeOK, Places, Goto, lockVars, frameVars
<1>1. ASSUME NEW t \in Callers, NEW r \in Requests, Submit(t, r) PROVE TypeOK'
  BY <1>1 DEF Submit
<1>2. ASSUME NEW t \in Callers, Acquire(t) PROVE TypeOK'
  <2>1. DOMAIN req[t] \subseteq Cells
    BY RequestCells
  <2> QED BY <1>2, <2>1 DEF Acquire
<1>3. ASSUME NEW t \in Callers, LockConflict(t) PROVE TypeOK'
  BY <1>3 DEF LockConflict
<1>4. ASSUME NEW t \in Callers, Apply(t) PROVE TypeOK'
  BY <1>4, FrameTypes DEF Apply
<1>5. ASSUME NEW t \in Callers, ApplyFails(t) PROVE TypeOK'
  <2>1. dirty' \in SUBSET Cells
    BY <1>5, RequestCells DEF ApplyFails, RolledBack, Leftovers
  <2>2. req[t] \in Requests \cup {NoOps}
    OBVIOUS
  <2>3. df' \in [Cells -> Values] /\ columns' \in SUBSET Columns /\ rows' \in SUBSET Rows
    BY <1>5, <2>2, FrameTypes DEF ApplyFails
  <2> QED BY <1>5, <2>1, <2>3 DEF ApplyFails
<1>6. ASSUME NEW t \in Callers, LogCommitted(t)
      PROVE  TypeOK'
  <2>1. req[t] \in Requests
    BY <1>6 DEF LogCommitted
  <2>2. wal' \in Seq(Entry)
    BY <1>6, <2>1, AppendTypes DEF LogCommitted, TxStates
  <2> QED BY <1>6, <2>1, <2>2, RequestCells DEF LogCommitted
<1>7. ASSUME NEW t \in Callers, NEW kept \in BOOLEAN, NEW caught \in BOOLEAN, LogRaises(t, kept, caught)
      PROVE  TypeOK'
  <2>1. req[t] \in Requests
    BY <1>7 DEF LogRaises
  <2>2. wal' \in Seq(Entry)
    BY <1>7, <2>1, AppendTypes DEF LogRaises, TxStates
  <2> QED BY <1>7, <2>1, <2>2, RequestCells DEF LogRaises
<1>8. ASSUME NEW t \in Callers, LogRolledBack(t)
      PROVE  TypeOK'
  <2>1. req[t] \in Requests
    BY <1>8 DEF LogRolledBack
  <2>2. wal' \in Seq(Entry)
    BY <1>8, <2>1, AppendTypes DEF LogRolledBack, TxStates
  <2> QED BY <1>8, <2>1, <2>2, RequestCells DEF LogRolledBack
<1>9. ASSUME NEW t \in Callers, NEW kept \in BOOLEAN, LogRolledBackRaises(t, kept)
      PROVE  TypeOK'
  <2>1. req[t] \in Requests
    BY <1>9 DEF LogRolledBackRaises
  <2>2. wal' \in Seq(Entry)
    BY <1>9, <2>1, AppendTypes DEF LogRolledBackRaises, TxStates
  <2> QED BY <1>9, <2>1, <2>2, RequestCells DEF LogRolledBackRaises
<1>10. ASSUME NEW t \in Callers, TestCursor(t)
      PROVE  TypeOK'
  BY <1>10 DEF TestCursor, AfterCursor
<1>11. ASSUME NEW t \in Callers, SetCursor(t)
      PROVE  TypeOK'
  BY <1>11 DEF SetCursor, AfterCursor
<1>12. ASSUME NEW t \in Callers, Sync(t)
      PROVE  TypeOK'
  BY <1>12 DEF Sync
<1>13. ASSUME NEW t \in Callers, Release(t)
      PROVE  TypeOK'
  BY <1>13 DEF Release
<1>14. ASSUME NEW r \in Requests, SubmitNonTransactional(r) PROVE TypeOK'
  <2>1. r \in Requests \cup {NoOps}
    OBVIOUS
  <2> QED BY <1>14, <2>1, FrameTypes, RequestCells DEF SubmitNonTransactional
<1>15. ASSUME NEW r \in Requests, SubmitNonTransactionalFails(r) PROVE TypeOK'
  <2>1. r \in Requests \cup {NoOps}
    OBVIOUS
  <2>2. dirty' \in SUBSET Cells
    BY <1>15, <2>1, RequestCells DEF SubmitNonTransactionalFails, RolledBack, Leftovers
  <2> QED BY <1>15, <2>1, <2>2, FrameTypes DEF SubmitNonTransactionalFails
<1>16. CASE UNCHANGED vars
  BY <1>16 DEF vars
<1> QED
  BY <1>1, <1>2, <1>3, <1>4, <1>5, <1>6, <1>7, <1>8, <1>9, <1>10, <1>11, <1>12,
     <1>13, <1>14, <1>15, <1>16 DEF Next, Step, Quiet

(* submit keeps every variable in its range: TypeOK holds of every behaviour. *)
THEOREM TypeCorrect == Spec => []TypeOK
BY TypeInit, TypeStep, PTL DEF Spec

(***************************************************************************)
(* The locks.  LockTablesAgree alone is inductive; Isolation is not: it    *)
(* needs that a caller past acquire still has all its cells.               *)
(***************************************************************************)

HoldersHaveTheirCells ==
  \A t \in Callers : Holds(t) => DOMAIN req[t] \subseteq tx_to_cells[t]

LockInv == LockTablesAgree /\ HoldersHaveTheirCells

LEMMA LockInit == Init => LockInv
BY DEF Init, LockInv, LockTablesAgree, HoldersHaveTheirCells, Holds

(* A step that touches no lock keeps LockInv if nobody comes to hold cells or
   changes the operations it holds them for. *)
LEMMA LockFrame ==
  ASSUME LockInv, UNCHANGED lockVars,
         \A t \in Callers : Holds(t)' => Holds(t) /\ req'[t] = req[t]
  PROVE  LockInv'
BY DEF LockInv, LockTablesAgree, HoldersHaveTheirCells, lockVars

LEMMA LockStep == TypeOK /\ LockInv /\ [Next]_vars => LockInv'
<1> SUFFICES ASSUME TypeOK, LockInv, [Next]_vars PROVE LockInv'
  OBVIOUS
<1> DEFINE Kept == UNCHANGED lockVars
                   /\ \A t \in Callers : Holds(t)' => Holds(t) /\ req'[t] = req[t]
<1>1. ASSUME NEW t \in Callers, NEW r \in Requests, Submit(t, r) PROVE Kept
  BY <1>1 DEF Submit, Goto, TypeOK, Holds, lockVars
<1>2. ASSUME NEW t \in Callers, Acquire(t) PROVE LockInv'
  <2>1. DOMAIN req[t] \subseteq Cells
    BY RequestCells DEF TypeOK
  <2>2. \A c \in DOMAIN req[t] : \A u \in Callers \ {t} : c \notin tx_to_cells[u]
    BY <1>2, <2>1, NoTxIsNobody DEF Acquire, Conflict, LockInv, LockTablesAgree
  <2>3. LockTablesAgree'
    BY <1>2, <2>1, <2>2 DEF Acquire, LockInv, LockTablesAgree, TypeOK
  <2>4. HoldersHaveTheirCells'
    BY <1>2 DEF Acquire, LockInv, HoldersHaveTheirCells, Holds, Goto, TypeOK
  <2> QED BY <2>3, <2>4 DEF LockInv
<1>3. ASSUME NEW t \in Callers, LockConflict(t) \/ Apply(t) \/ ApplyFails(t) PROVE Kept
  BY <1>3 DEF LockConflict, Apply, ApplyFails, Goto, TypeOK, Holds, lockVars
<1>4. ASSUME NEW t \in Callers,
             \/ LogCommitted(t) \/ LogRolledBack(t)
             \/ \E kept, caught \in BOOLEAN : LogRaises(t, kept, caught)
             \/ \E kept \in BOOLEAN : LogRolledBackRaises(t, kept)
      PROVE  Kept
  BY <1>4 DEF LogCommitted, LogRaises, LogRolledBack, LogRolledBackRaises, Goto,
              TypeOK, Holds, lockVars
<1>5. ASSUME NEW t \in Callers, TestCursor(t) \/ SetCursor(t) \/ Sync(t) PROVE Kept
  BY <1>5 DEF TestCursor, SetCursor, Sync, AfterCursor, Goto, TypeOK, Holds, lockVars
<1>6. ASSUME NEW t \in Callers, Release(t) PROVE LockInv'
  <2>1. LockTablesAgree'
    BY <1>6, NoTxIsNobody DEF Release, LockInv, LockTablesAgree, TypeOK
  <2>2. HoldersHaveTheirCells'
    BY <1>6 DEF Release, LockInv, HoldersHaveTheirCells, Holds, Goto, TypeOK
  <2> QED BY <2>1, <2>2 DEF LockInv
<1>7. ASSUME NEW r \in Requests,
             SubmitNonTransactional(r) \/ SubmitNonTransactionalFails(r)
      PROVE  Kept
  BY <1>7 DEF SubmitNonTransactional, SubmitNonTransactionalFails, Holds, lockVars
<1>8. CASE UNCHANGED vars
  <2>1. Kept
    BY <1>8 DEF vars, Holds, lockVars
  <2> QED BY <2>1, LockFrame
<1> QED
  BY <1>1, <1>2, <1>3, <1>4, <1>5, <1>6, <1>7, <1>8, LockFrame DEF Next, Step, Quiet

(* Cells owned by two callers are disjoint because a cell has one owner. *)
LEMMA LockInvIsolates == TypeOK /\ LockInv => Isolation
BY DEF LockInv, LockTablesAgree, HoldersHaveTheirCells, Isolation, TypeOK

(* After acquire, release and every failure the two tables of CellLockManager
   name the same owners. *)
THEOREM LockTablesAlwaysAgree == Spec => []LockTablesAgree
<1>1. LockInv => LockTablesAgree
  BY DEF LockInv
<1> QED BY <1>1, TypeInit, TypeStep, LockInit, LockStep, PTL DEF Spec

(* Two transactions between acquire and the log's append never share a cell. *)
THEOREM TransactionsIsolated == Spec => []Isolation
BY TypeInit, TypeStep, LockInit, LockStep, LockInvIsolates, PTL DEF Spec

(***************************************************************************)
(* No lock outlives its transaction.  The two tables agreeing does not say *)
(* that: an owner that both of them name may have returned long ago.       *)
(***************************************************************************)

(* Which lines of the second table may have cells in them. *)
LocksHaveTransactions ==
  \A t \in Callers : pc[t] \in {"idle", "validating"} => tx_to_cells[t] = {}

(* The caller that owns a cell is between acquire and release: however a
   submit ended, refused, rolled back, or with an exception of the log that its
   except clause does not catch, its cells are free for the next one. *)
NoLockLeaks ==
  \A c \in Cells : cell_to_tx[c] # NoTx =>
                     pc[cell_to_tx[c]] \notin {"idle", "validating"}

LEMMA LocksEndInit == Init => LocksHaveTransactions
BY DEF Init, LocksHaveTransactions

LEMMA LocksEndStep ==
  TypeOK /\ LocksHaveTransactions /\ [Next]_vars => LocksHaveTransactions'
<1> SUFFICES ASSUME TypeOK, LocksHaveTransactions, [Next]_vars
             PROVE  LocksHaveTransactions'
  OBVIOUS
<1>1. ASSUME NEW t \in Callers, NEW r \in Requests, Submit(t, r)
      PROVE  LocksHaveTransactions'
  BY <1>1 DEF Submit, Goto, TypeOK, LocksHaveTransactions, lockVars
<1>2. ASSUME NEW t \in Callers, Acquire(t) PROVE LocksHaveTransactions'
  BY <1>2 DEF Acquire, Goto, TypeOK, LocksHaveTransactions
<1>3. ASSUME NEW t \in Callers, LockConflict(t) \/ Apply(t) \/ ApplyFails(t)
      PROVE  LocksHaveTransactions'
  BY <1>3 DEF LockConflict, Apply, ApplyFails, Goto, TypeOK, LocksHaveTransactions, lockVars
<1>4. ASSUME NEW t \in Callers,
             \/ LogCommitted(t) \/ LogRolledBack(t)
             \/ \E kept, caught \in BOOLEAN : LogRaises(t, kept, caught)
             \/ \E kept \in BOOLEAN : LogRolledBackRaises(t, kept)
      PROVE  LocksHaveTransactions'
  BY <1>4 DEF LogCommitted, LogRaises, LogRolledBack, LogRolledBackRaises, Goto,
              TypeOK, LocksHaveTransactions, lockVars
<1>5. ASSUME NEW t \in Callers, TestCursor(t) \/ SetCursor(t) \/ Sync(t)
      PROVE  LocksHaveTransactions'
  BY <1>5 DEF TestCursor, SetCursor, Sync, AfterCursor, Goto, TypeOK,
              LocksHaveTransactions, lockVars
<1>6. ASSUME NEW t \in Callers, Release(t) PROVE LocksHaveTransactions'
  BY <1>6 DEF Release, Goto, TypeOK, LocksHaveTransactions
<1>7. ASSUME NEW r \in Requests,
             SubmitNonTransactional(r) \/ SubmitNonTransactionalFails(r)
      PROVE  LocksHaveTransactions'
  BY <1>7 DEF SubmitNonTransactional, SubmitNonTransactionalFails,
              LocksHaveTransactions, lockVars
<1>8. CASE UNCHANGED vars
  BY <1>8 DEF vars, LocksHaveTransactions, lockVars
<1> QED
  BY <1>1, <1>2, <1>3, <1>4, <1>5, <1>6, <1>7, <1>8 DEF Next, Step, Quiet

(* CellLockManager holds nothing for a caller that has returned from submit or
   has not acquired yet. *)
THEOREM LocksNeverLeak == Spec => []NoLockLeaks
<1>1. TypeOK /\ LockInv /\ LocksHaveTransactions => NoLockLeaks
  BY NoTxIsNobody DEF TypeOK, LockInv, LockTablesAgree, LocksHaveTransactions, NoLockLeaks
<1> QED
  BY <1>1, TypeInit, TypeStep, LockInit, LockStep, LocksEndInit, LocksEndStep, PTL DEF Spec

(***************************************************************************)
(* The write node and the log.  While a transaction is between apply and   *)
(* append, the log still says what it expected to overwrite; that is what  *)
(* makes WriteNodeMatchesLog and LogChains inductive.                      *)
(***************************************************************************)

AwaitsItsEntry ==
  \A t \in Callers : pc[t] = "committed" =>
    \A c \in DOMAIN req[t] \ dirty :
      LogSays(c, req[t][c].old) /\ df[c] = req[t][c].new

LogInv == WriteNodeMatchesLog /\ AwaitsItsEntry /\ LogChains

(* append adds one entry at the end and keeps the others. *)
LEMMA LogGrows ==
  ASSUME wal \in Seq(Entry), NEW e \in Entry, wal' = Append(wal, e)
  PROVE  /\ DOMAIN wal = 1..Len(wal) /\ Len(wal) \in Nat
         /\ DOMAIN wal' = 1..(Len(wal) + 1)
         /\ Len(wal') = Len(wal) + 1
         /\ wal'[Len(wal')] = e
         /\ \A i \in DOMAIN wal : i \in DOMAIN wal' /\ wal'[i] = wal[i]
OBVIOUS

(* An entry that is not a committed write of c leaves what the log says of c. *)
LEMMA LogKeeps ==
  ASSUME wal \in Seq(Entry), NEW e \in Entry, wal' = Append(wal, e),
         NEW c, NEW v, LogSays(c, v),
         e.state = "COMMITTED" => c \notin DOMAIN e.ops
  PROVE  LogSays(c, v)'
<1>1. \A i \in DOMAIN wal' : Wrote(i, c)' <=> i \in DOMAIN wal /\ Wrote(i, c)
  BY LogGrows DEF Wrote
<1>2. CASE \E i \in DOMAIN wal : LastWrite(i, c) /\ v = wal[i].ops[c].new
  BY <1>1, <1>2, LogGrows DEF LogSays, LastWrite
<1>3. CASE v = Blank /\ \A i \in DOMAIN wal : ~Wrote(i, c)
  BY <1>1, <1>3, LogGrows DEF LogSays
<1> QED BY <1>2, <1>3 DEF LogSays

(* A committed write of c is then what the log says of c. *)
LEMMA LogAdds ==
  ASSUME wal \in Seq(Entry), NEW e \in Entry, wal' = Append(wal, e),
         NEW c \in DOMAIN e.ops, e.state = "COMMITTED"
  PROVE  LogSays(c, e.ops[c].new)'
<1>1. Wrote(Len(wal), c)'
  BY LogGrows DEF Wrote
<1>2. LastWrite(Len(wal), c)'
  BY <1>1, LogGrows DEF LastWrite
<1> QED BY <1>2, LogGrows DEF LogSays

(* The chain grows by an entry whose expected values the log says. *)
LEMMA ChainGrows ==
  ASSUME wal \in Seq(Entry), NEW e \in Entry, wal' = Append(wal, e), LogChains,
         dirty \subseteq dirty',
         e.state = "COMMITTED" =>
           \A c \in DOMAIN e.ops \ dirty : LogSays(c, e.ops[c].old)
  PROVE  LogChains'
<1> DEFINE
  Chained(j, c) ==
    Wrote(j, c) =>
      \/ \E i \in 1..(j - 1) :
           /\ Wrote(i, c)
           /\ \A k \in (i + 1)..(j - 1) : ~Wrote(k, c)
           /\ wal[j].ops[c].old = wal[i].ops[c].new
      \/ /\ \A i \in 1..(j - 1) : ~Wrote(i, c)
         /\ wal[j].ops[c].old = Blank
<1>1. \A i \in DOMAIN wal : \A c : Wrote(i, c)' <=> Wrote(i, c)
  BY LogGrows DEF Wrote
<1>2. ASSUME NEW j \in DOMAIN wal, NEW c \in Cells \ dirty PROVE Chained(j, c)'
  <2>1. Chained(j, c)
    BY <1>2 DEF LogChains
  <2>2. 1..(j - 1) \subseteq DOMAIN wal /\ j \in Nat
    BY LogGrows
  <2>3. wal'[j] = wal[j] /\ \A i \in 1..(j - 1) : wal'[i] = wal[i] /\ (Wrote(i, c)' <=> Wrote(i, c))
    BY <1>1, <2>2, LogGrows
  <2>4. CASE ~Wrote(j, c)
    BY <1>1, <2>4
  <2>5. ASSUME NEW i \in 1..(j - 1), Wrote(i, c),
               \A k \in (i + 1)..(j - 1) : ~Wrote(k, c),
               wal[j].ops[c].old = wal[i].ops[c].new
        PROVE  Chained(j, c)'
    <3>1. \A k \in (i + 1)..(j - 1) : k \in 1..(j - 1)
      BY <2>2
    <3>2. \A k \in (i + 1)..(j - 1) : ~Wrote(k, c)'
      BY <2>3, <2>5, <3>1
    <3>3. Wrote(i, c)' /\ wal'[j].ops[c].old = wal'[i].ops[c].new
      BY <2>3, <2>5
    <3> QED BY <3>2, <3>3
  <2>6. CASE (\A i \in 1..(j - 1) : ~Wrote(i, c)) /\ wal[j].ops[c].old = Blank
    BY <2>3, <2>6
  <2> QED BY <2>1, <2>4, <2>5, <2>6
<1>3. ASSUME NEW c \in Cells \ dirty PROVE Chained(Len(wal), c)'
  <2> SUFFICES ASSUME Wrote(Len(wal), c)' PROVE Chained(Len(wal), c)'
    OBVIOUS
  <2>1. e.state = "COMMITTED" /\ c \in DOMAIN e.ops
    BY LogGrows DEF Wrote
  <2>2. LogSays(c, e.ops[c].old)
    BY <2>1
  <2>3. Len(wal') - 1 = Len(wal) /\ 1..Len(wal) = DOMAIN wal
    BY LogGrows
  <2>4. ASSUME NEW i \in DOMAIN wal, LastWrite(i, c), e.ops[c].old = wal[i].ops[c].new
        PROVE  Chained(Len(wal), c)'
    <3>1. \A k \in (i + 1)..Len(wal) : k \in DOMAIN wal /\ ~Wrote(k, c)
      BY <2>4, LogGrows DEF LastWrite
    <3>2. Wrote(i, c)' /\ \A k \in (i + 1)..Len(wal) : ~Wrote(k, c)'
      BY <1>1, <2>4, <3>1 DEF LastWrite
    <3> QED BY <2>3, <2>4, <3>2, LogGrows
  <2>5. CASE e.ops[c].old = Blank /\ \A i \in DOMAIN wal : ~Wrote(i, c)
    BY <1>1, <2>3, <2>5, LogGrows
  <2> QED BY <2>2, <2>4, <2>5 DEF LogSays
<1>4. \A j \in DOMAIN wal' : j \in DOMAIN wal \/ j = Len(wal')
  BY LogGrows
<1> HIDE DEF Chained
<1>5. \A j \in DOMAIN wal' : \A c \in Cells \ dirty' : Chained(j, c)'
  BY <1>2, <1>3, <1>4
<1> QED BY <1>5 DEF LogChains, Chained

LEMMA LogInit == Init => LogInv
<1> SUFFICES ASSUME Init PROVE LogInv
  OBVIOUS
<1>1. DOMAIN wal = {}
  BY DEF Init
<1>2. LogChains
  BY <1>1 DEF LogChains
<1>3. AwaitsItsEntry
  BY DEF Init, AwaitsItsEntry
<1>4. \A c \in Cells : LogSays(c, df[c])
  BY <1>1 DEF Init, LogSays
<1> QED BY <1>2, <1>3, <1>4 DEF LogInv, WriteNodeMatchesLog

(* What a step that leaves the log alone has to keep: a write node that changes
   only in dirty cells, and nobody new waiting for an entry. *)
LEMMA LogFrame ==
  ASSUME TypeOK, LogInv, wal' = wal, dirty \subseteq dirty',
         \A c \in Cells \ dirty' : df'[c] = df[c],
         \A t \in Callers : pc'[t] = "committed" => pc[t] = "committed" /\ req'[t] = req[t],
         \A t \in Callers : pc[t] = "committed" =>
                             pc'[t] = "committed" \/ DOMAIN req[t] \subseteq dirty'
  PROVE  LogInv'
<1>1. \A c, v : LogSays(c, v)' <=> LogSays(c, v)
  BY DEF LogSays, LastWrite, Wrote
<1>2. LogChains'
  <2>1. \A i, c : Wrote(i, c)' <=> Wrote(i, c)
    BY DEF Wrote
  <2> QED BY <2>1 DEF LogInv, LogChains
<1>3. AwaitsItsEntry'
  <2>1. \A t \in Callers : DOMAIN req[t] \subseteq Cells
    BY RequestCells DEF TypeOK
  <2> QED BY <1>1, <2>1 DEF LogInv, AwaitsItsEntry
<1>4. ASSUME NEW c \in Cells \ dirty' PROVE Pending(c)' \/ LogSays(c, df[c])'
  <2>1. Pending(c) \/ LogSays(c, df[c])
    BY DEF LogInv, WriteNodeMatchesLog
  <2>2. Pending(c) => Pending(c)'
    BY DEF Pending
  <2> QED BY <1>1, <2>1, <2>2
<1>5. WriteNodeMatchesLog'
  BY <1>4 DEF WriteNodeMatchesLog
<1> QED BY <1>2, <1>3, <1>5 DEF LogInv

(* An append by t of an entry that is not a committed one. *)
LEMMA LogUncommitted ==
  ASSUME TypeOK, LogInv, NEW e \in Entry, wal' = Append(wal, e),
         e.state # "COMMITTED",
         UNCHANGED <<req, df, dirty>>,
         \A t \in Callers : pc'[t] = "committed" <=> pc[t] = "committed"
  PROVE  LogInv'
<1>1. LogChains'
  BY ChainGrows DEF TypeOK, LogInv
<1>2. \A c, v : LogSays(c, v) => LogSays(c, v)'
  BY LogKeeps DEF TypeOK
<1>3. AwaitsItsEntry'
  BY <1>2 DEF LogInv, AwaitsItsEntry
<1>4. WriteNodeMatchesLog'
  BY <1>2 DEF LogInv, WriteNodeMatchesLog, Pending
<1> QED BY <1>1, <1>3, <1>4 DEF LogInv

(* The append of a committed entry by the caller that waited for it. *)
LEMMA LogCommits ==
  ASSUME TypeOK, LockInv, LogInv, NEW t \in Callers, pc[t] = "committed",
         wal' = Append(wal, [ops |-> req[t], state |-> "COMMITTED"]),
         UNCHANGED <<req, df, dirty>>,
         pc'[t] # "committed",
         \A u \in Callers \ {t} : pc'[u] = pc[u]
  PROVE  LogInv'
<1> DEFINE e == [ops |-> req[t], state |-> "COMMITTED"]
<1>1. e \in Entry
  BY DEF TypeOK, Entry, TxStates
<1>2. e.ops = req[t] /\ e.state = "COMMITTED" /\ wal' = Append(wal, e) /\ wal \in Seq(Entry)
  BY DEF TypeOK
<1> HIDE DEF e
<1>3. \A c \in DOMAIN req[t] : LogSays(c, req[t][c].new)'
  BY <1>1, <1>2, LogAdds
<1>4. \A c, v : c \notin DOMAIN req[t] /\ LogSays(c, v) => LogSays(c, v)'
  BY <1>1, <1>2, LogKeeps
<1>5. \A c \in DOMAIN req[t] \ dirty : LogSays(c, req[t][c].old) /\ df[c] = req[t][c].new
  BY DEF LogInv, AwaitsItsEntry
<1>6. \A u \in Callers \ {t} : pc[u] = "committed" => DOMAIN req[u] \cap DOMAIN req[t] = {}
  BY LockInvIsolates DEF Isolation, Holds
<1>7. LogChains'
  BY <1>1, <1>2, <1>5, ChainGrows DEF LogInv
<1>8. AwaitsItsEntry'
  BY <1>4, <1>6 DEF LogInv, AwaitsItsEntry
<1>9. ASSUME NEW c \in Cells \ dirty PROVE Pending(c)' \/ LogSays(c, df[c])'
  <2>1. CASE c \in DOMAIN req[t]
    BY <1>3, <1>5, <1>9, <2>1
  <2>2. CASE c \notin DOMAIN req[t]
    <3>1. Pending(c) => Pending(c)'
      BY <2>2 DEF Pending
    <3>2. Pending(c) \/ LogSays(c, df[c])
      BY <1>9 DEF LogInv, WriteNodeMatchesLog
    <3> QED BY <1>4, <2>2, <3>1, <3>2
  <2> QED BY <2>1, <2>2
<1>10. WriteNodeMatchesLog'
  BY <1>9 DEF WriteNodeMatchesLog
<1> QED BY <1>7, <1>8, <1>10 DEF LogInv

LEMMA LogStep == TypeOK /\ LockInv /\ LogInv /\ [Next]_vars => LogInv'
<1> SUFFICES ASSUME TypeOK, LockInv, LogInv, [Next]_vars PROVE LogInv'
  OBVIOUS
<1> USE DEF Goto, frameVars, lockVars
<1>1. ASSUME NEW t \in Callers, NEW r \in Requests, Submit(t, r) PROVE LogInv'
  BY <1>1, LogFrame DEF Submit, TypeOK
<1>2. ASSUME NEW t \in Callers, Acquire(t) \/ LockConflict(t) PROVE LogInv'
  BY <1>2, LogFrame DEF Acquire, LockConflict, TypeOK
<1>3. ASSUME NEW t \in Callers, Apply(t) PROVE LogInv'
  <2>1. DOMAIN req[t] \subseteq Cells
    BY RequestCells DEF TypeOK
  <2>2. \A c \in DOMAIN req[t] : df[c] = req[t][c].old /\ df'[c] = req[t][c].new
    BY <1>3, <2>1 DEF Apply, Written, Matches
  <2>3. \A c \in Cells \ DOMAIN req[t] : df'[c] = df[c]
    BY <1>3 DEF Apply, Written
  <2>4. \A u \in Callers : u # t /\ pc[u] = "committed"
                           => DOMAIN req[u] \cap DOMAIN req[t] = {}
    BY <1>3, LockInvIsolates DEF Apply, Isolation, Holds
  <2>5. \A c \in DOMAIN req[t] \ dirty : LogSays(c, df[c])
    BY <1>3, <2>1, <2>4 DEF Apply, LogInv, WriteNodeMatchesLog, Pending
  <2>6. \A c, v : LogSays(c, v)' <=> LogSays(c, v)
    BY <1>3 DEF Apply, LogSays, LastWrite, Wrote
  <2>7. AwaitsItsEntry'
    <3>1. ASSUME NEW c \in DOMAIN req[t] \ dirty
          PROVE  LogSays(c, req[t][c].old)' /\ df'[c] = req[t][c].new
      <4>1. req' = req
        BY <1>3 DEF Apply
      <4> QED BY <2>2, <2>5, <2>6, <3>1, <4>1
    <3>2. ASSUME NEW u \in Callers, u # t, pc[u] = "committed",
                 NEW c \in DOMAIN req[u] \ dirty
          PROVE  LogSays(c, req[u][c].old)' /\ df'[c] = req[u][c].new
      <4>1. DOMAIN req[u] \subseteq Cells
        BY RequestCells DEF TypeOK
      <4>2. c \in Cells \ DOMAIN req[t]
        BY <2>4, <3>2, <4>1
      <4>3. LogSays(c, req[u][c].old) /\ df[c] = req[u][c].new
        BY <3>2 DEF LogInv, AwaitsItsEntry
      <4>4. req' = req
        BY <1>3 DEF Apply
      <4> QED BY <2>3, <2>6, <4>2, <4>3, <4>4
    <3>3. UNCHANGED <<req, dirty>> /\ \A u \in Callers : u # t => pc'[u] = pc[u]
      BY <1>3 DEF Apply, TypeOK
    <3> QED BY <3>1, <3>2, <3>3, <2>6 DEF AwaitsItsEntry
  <2>8. WriteNodeMatchesLog'
    <3>1. ASSUME NEW c \in DOMAIN req[t] PROVE Pending(c)'
      BY <1>3, <3>1 DEF Apply, Pending, TypeOK
    <3>2. \A c \in Cells : Pending(c) => Pending(c)'
      BY <1>3 DEF Apply, Pending, TypeOK
    <3>3. \A c \in Cells : Pending(c) \/ c \in dirty \/ LogSays(c, df[c])
      BY DEF LogInv, WriteNodeMatchesLog
    <3>4. dirty' = dirty
      BY <1>3 DEF Apply
    <3> QED BY <2>3, <2>6, <3>1, <3>2, <3>3, <3>4 DEF WriteNodeMatchesLog
  <2>9. LogChains'
    <3>1. \A i, c : Wrote(i, c)' <=> Wrote(i, c)
      BY <1>3 DEF Apply, Wrote
    <3> QED BY <1>3, <3>1 DEF Apply, LogInv, LogChains
  <2> QED BY <2>7, <2>8, <2>9 DEF LogInv
<1>4. ASSUME NEW t \in Callers, ApplyFails(t) PROVE LogInv'
  BY <1>4, LogFrame DEF ApplyFails, RolledBack, TypeOK
<1>5. ASSUME NEW t \in Callers, LogCommitted(t) PROVE LogInv'
  BY <1>5, LogCommits DEF LogCommitted, TypeOK
<1>6. ASSUME NEW t \in Callers, NEW kept \in BOOLEAN, NEW caught \in BOOLEAN,
             LogRaises(t, kept, caught)
      PROVE  LogInv'
  <2>1. CASE kept
    BY <1>6, <2>1, LogCommits DEF LogRaises, TypeOK
  <2>2. CASE ~kept
    BY <1>6, <2>2, LogFrame DEF LogRaises, TypeOK
  <2> QED BY <2>1, <2>2
<1>7. ASSUME NEW t \in Callers, LogRolledBack(t) PROVE LogInv'
  <2>1. req[t] \in Requests
    BY <1>7 DEF LogRolledBack, TypeOK
  <2>2. [ops |-> req[t], state |-> "ROLLED_BACK"] \in Entry
    BY <2>1 DEF Entry, TxStates
  <2> QED BY <1>7, <2>2, LogUncommitted DEF LogRolledBack, TypeOK
<1>8. ASSUME NEW t \in Callers, NEW kept \in BOOLEAN, LogRolledBackRaises(t, kept)
      PROVE  LogInv'
  <2>1. CASE kept
    <3>1. [ops |-> req[t], state |-> "ROLLED_BACK"] \in Entry
      BY <1>8 DEF LogRolledBackRaises, Entry, TxStates, TypeOK
    <3> QED BY <1>8, <2>1, <3>1, LogUncommitted DEF LogRolledBackRaises, TypeOK
  <2>2. CASE ~kept
    BY <1>8, <2>2, LogFrame DEF LogRolledBackRaises, TypeOK
  <2> QED BY <2>1, <2>2
<1>9. ASSUME NEW t \in Callers, TestCursor(t) \/ SetCursor(t) \/ Sync(t) PROVE LogInv'
  BY <1>9, LogFrame DEF TestCursor, SetCursor, Sync, AfterCursor, TypeOK
<1>10. ASSUME NEW t \in Callers, Release(t) PROVE LogInv'
  BY <1>10, LogFrame DEF Release, TypeOK
<1>11. ASSUME NEW r \in Requests,
              SubmitNonTransactional(r) \/ SubmitNonTransactionalFails(r)
       PROVE  LogInv'
  BY <1>11, LogFrame DEF SubmitNonTransactional, SubmitNonTransactionalFails, Written,
                         RolledBack
<1>12. CASE UNCHANGED vars
  BY <1>12, LogFrame DEF vars
<1> QED
  BY <1>1, <1>2, <1>3, <1>4, <1>5, <1>6, <1>7, <1>8, <1>9, <1>10, <1>11, <1>12
     DEF Next, Step, Quiet

(* Outside the window between apply and append, and away from cells written
   past the log, the write node holds what the log says last. *)
THEOREM WriteNodeAlwaysMatchesLog == Spec => []WriteNodeMatchesLog
<1>1. LogInv => WriteNodeMatchesLog
  BY DEF LogInv
<1> QED
  BY <1>1, TypeInit, TypeStep, LockInit, LockStep, LogInit, LogStep, PTL DEF Spec

(* Every committed entry expected what the previous one about the cell wrote:
   no committed write is lost under another. *)
THEOREM LogAlwaysChains == Spec => []LogChains
<1>1. LogInv => LogChains
  BY DEF LogInv
<1> QED
  BY <1>1, TypeInit, TypeStep, LockInit, LockStep, LogInit, LogStep, PTL DEF Spec

(***************************************************************************)
(* Who writes, and what replication is handed.                             *)
(***************************************************************************)

LEMMA OwnersStep == TypeOK /\ LockInv /\ [Next]_vars => [OwnedWrite]_vars
<1> SUFFICES ASSUME TypeOK, LockInv, Next PROVE OwnedWrite
  BY DEF OwnedWrite, vars, frameVars
<1>1. ASSUME NEW t \in Callers, Apply(t) \/ ApplyFails(t) PROVE OwnedWrite
  <2>1. ASSUME NEW c \in Cells, df'[c] # df[c] PROVE c \in DOMAIN req[t]
    BY <1>1, <2>1 DEF Apply, ApplyFails, Written, RolledBack, Leftovers
  <2>2. \A c \in DOMAIN req[t] : cell_to_tx[c] = t
    BY <1>1 DEF Apply, ApplyFails, LockInv, LockTablesAgree, HoldersHaveTheirCells, Holds
  <2>3. pc[t] = "locked" /\ pc'[t] # "locked"
    BY <1>1 DEF Apply, ApplyFails, Goto, TypeOK
  <2> QED BY <2>1, <2>2, <2>3 DEF OwnedWrite
<1>2. ASSUME NEW r \in Requests,
             SubmitNonTransactional(r) \/ SubmitNonTransactionalFails(r)
      PROVE  OwnedWrite
  BY <1>2 DEF SubmitNonTransactional, SubmitNonTransactionalFails, OwnedWrite
<1>3. CASE df' = df
  BY <1>3 DEF OwnedWrite
<1> QED
  BY <1>1, <1>2, <1>3
     DEF Next, Step, Quiet, Submit, Acquire, LockConflict, LogCommitted, LogRaises,
         LogRolledBack, LogRolledBackRaises, TestCursor, SetCursor, Sync, Release,
         frameVars, vars

(* Every change of a cell is made by the transaction that owns its lock, or by
   submit_non_transactional. *)
THEOREM OwnersWrite == Spec => OnlyOwnersWrite
BY TypeInit, TypeStep, LockInit, LockStep, OwnersStep, PTL DEF Spec, OnlyOwnersWrite

(* A caller past its append knows an LSN of the log, and a caller about to
   replicate knows that of a committed entry. *)
KnowsItsEntry ==
  \A t \in Callers :
    /\ pc[t] \in {"logged", "advancing", "syncing"} => lsn[t] \in DOMAIN wal
    /\ pc[t] = "syncing" => wal[lsn[t]].state = "COMMITTED"

ShipInv == ScheduledAreCommitted /\ KnowsItsEntry

LEMMA ShipInit == Init => ShipInv
BY DEF Init, ShipInv, ScheduledAreCommitted, KnowsItsEntry

(* The log never changes an entry it has. *)
LEMMA LogIsAppendOnly ==
  ASSUME TypeOK, [Next]_vars
  PROVE  /\ wal \in Seq(Entry) /\ DOMAIN wal = 1..Len(wal)
         /\ Len(wal) \in Nat /\ Len(wal') \in Nat /\ Len(wal) <= Len(wal')
         /\ \A l \in DOMAIN wal : l \in DOMAIN wal' /\ wal'[l] = wal[l]
<1>1. wal' = wal \/ \E t \in Callers, s \in TxStates :
                      req[t] \in Requests /\ wal' = Append(wal, [ops |-> req[t], state |-> s])
  BY DEF TypeOK, TxStates, Next, Step, Quiet, Submit, Acquire, LockConflict, Apply,
         ApplyFails, LogCommitted, LogRaises, LogRolledBack, LogRolledBackRaises,
         TestCursor, SetCursor, Sync, Release, SubmitNonTransactional,
         SubmitNonTransactionalFails, vars
<1>2. CASE wal' = wal
  BY <1>2 DEF TypeOK
<1>3. ASSUME NEW e \in Entry, wal' = Append(wal, e)
      PROVE  /\ Len(wal) \in Nat /\ Len(wal') \in Nat /\ Len(wal) <= Len(wal')
             /\ DOMAIN wal = 1..Len(wal)
             /\ \A l \in DOMAIN wal : l \in DOMAIN wal' /\ wal'[l] = wal[l]
  BY <1>3, LogGrows DEF TypeOK
<1> QED BY <1>1, <1>2, <1>3 DEF TypeOK, Entry

LEMMA ShipStep == TypeOK /\ ShipInv /\ [Next]_vars => ShipInv'
<1> SUFFICES ASSUME TypeOK, ShipInv, [Next]_vars PROVE ShipInv'
  OBVIOUS
<1> DEFINE
  Knows(t) == /\ pc[t] \in {"logged", "advancing", "syncing"} => lsn[t] \in DOMAIN wal
              /\ pc[t] = "syncing" => wal[lsn[t]].state = "COMMITTED"
<1>1. \A t \in Callers : pc'[t] = pc[t] /\ lsn'[t] = lsn[t] => Knows(t)'
  BY LogIsAppendOnly DEF ShipInv, KnowsItsEntry
<1>2. ASSUME UNCHANGED <<cursor, scheduled>> PROVE ScheduledAreCommitted'
  <2>1. \A l \in scheduled : l \in DOMAIN wal' /\ wal'[l].state = "COMMITTED"
    BY LogIsAppendOnly DEF ShipInv, ScheduledAreCommitted
  <2>2. cursor <= Len(wal')
    BY LogIsAppendOnly DEF ShipInv, ScheduledAreCommitted, TypeOK
  <2> QED BY <1>2, <2>1, <2>2 DEF ScheduledAreCommitted
<1>3. ASSUME NEW t \in Callers, \A u \in Callers \ {t} : pc'[u] = pc[u] /\ lsn'[u] = lsn[u],
             UNCHANGED <<cursor, scheduled>>, Knows(t)'
      PROVE  ShipInv'
  BY <1>1, <1>2, <1>3 DEF ShipInv, KnowsItsEntry
<1> USE DEF Goto
<1>4. ASSUME NEW t \in Callers, NEW r \in Requests, Submit(t, r) PROVE ShipInv'
  BY <1>3, <1>4 DEF Submit, TypeOK
<1>5. ASSUME NEW t \in Callers,
             Acquire(t) \/ LockConflict(t) \/ Apply(t) \/ ApplyFails(t) \/ Release(t)
      PROVE  ShipInv'
  BY <1>3, <1>5 DEF Acquire, LockConflict, Apply, ApplyFails, Release, TypeOK
<1>6. ASSUME NEW t \in Callers, LogCommitted(t) \/ LogRolledBack(t) PROVE ShipInv'
  <2>1. PICK e \in Entry : wal' = Append(wal, e)
    BY <1>6 DEF LogCommitted, LogRolledBack, TypeOK, Entry, TxStates
  <2>2. Len(wal) + 1 \in DOMAIN wal'
    BY <2>1, LogGrows DEF TypeOK
  <2>3. Knows(t)'
    BY <1>6, <2>2 DEF LogCommitted, LogRolledBack, TypeOK
  <2> QED BY <1>3, <1>6, <2>3 DEF LogCommitted, LogRolledBack, TypeOK
<1>7. ASSUME NEW t \in Callers,
             \/ \E kept, caught \in BOOLEAN : LogRaises(t, kept, caught)
             \/ \E kept \in BOOLEAN : LogRolledBackRaises(t, kept)
      PROVE  ShipInv'
  BY <1>3, <1>7 DEF LogRaises, LogRolledBackRaises, TypeOK
<1>8. ASSUME NEW t \in Callers, TestCursor(t) PROVE ShipInv'
  BY <1>3, <1>8 DEF TestCursor, AfterCursor, ShipInv, KnowsItsEntry, TypeOK
<1>9. ASSUME NEW t \in Callers, SetCursor(t) PROVE ShipInv'
  <2>1. lsn[t] \in 1..Len(wal)
    BY <1>9, LogIsAppendOnly DEF SetCursor, ShipInv, KnowsItsEntry
  <2>2. ScheduledAreCommitted'
    BY <1>9, <2>1 DEF SetCursor, ShipInv, ScheduledAreCommitted
  <2>3. Knows(t)'
    BY <1>9 DEF SetCursor, AfterCursor, ShipInv, KnowsItsEntry, TypeOK
  <2>4. \A u \in Callers \ {t} : pc'[u] = pc[u] /\ lsn'[u] = lsn[u]
    BY <1>9 DEF SetCursor, TypeOK
  <2> QED BY <1>1, <2>2, <2>3, <2>4 DEF ShipInv, KnowsItsEntry
<1>10. ASSUME NEW t \in Callers, Sync(t) PROVE ShipInv'
  <2>1. ScheduledAreCommitted'
    BY <1>10 DEF Sync, ShipInv, ScheduledAreCommitted, KnowsItsEntry
  <2>2. Knows(t)'
    BY <1>10 DEF Sync, TypeOK
  <2>3. \A u \in Callers \ {t} : pc'[u] = pc[u] /\ lsn'[u] = lsn[u]
    BY <1>10 DEF Sync, TypeOK
  <2> QED BY <1>1, <2>1, <2>2, <2>3 DEF ShipInv, KnowsItsEntry
<1>11. CASE UNCHANGED <<pc, lsn, cursor, scheduled>>
  BY <1>1, <1>2, <1>11 DEF ShipInv, KnowsItsEntry
<1> QED
  BY <1>4, <1>5, <1>6, <1>7, <1>8, <1>9, <1>10, <1>11
     DEF Next, Step, Quiet, SubmitNonTransactional, SubmitNonTransactionalFails, vars

(* Replication is handed committed entries of the log only, and the replay
   cursor stays within the log. *)
THEOREM OnlyCommittedIsShipped == Spec => []ScheduledAreCommitted
<1>1. ShipInv => ScheduledAreCommitted
  BY DEF ShipInv
<1> QED BY <1>1, TypeInit, TypeStep, ShipInit, ShipStep, PTL DEF Spec

(***************************************************************************)
(* TxCoordinator implements AtomicStore: each step of the threads is one   *)
(* step of the store or none.  Only the append of a committed entry is a   *)
(* Commit of the store; apply, which changes the write node before it, is  *)
(* none.                                                                   *)
(***************************************************************************)

(* What the store sees of the callers and of the cells. *)
Phases == [t \in Callers |-> Phase(t)]
Account == [c \in Cells \ dirty |-> Settled(c)]

(* A caller between apply and append is the only one that applied its cells, and
   they are settled at the values it expected. *)
LEMMA SettledAtOld ==
  ASSUME TypeOK, LockInv, NEW t \in Callers, pc[t] = "committed", NEW c \in DOMAIN req[t]
  PROVE  Applied(c) = {t} /\ Settled(c) = req[t][c].old
<1>1. \A u \in Applied(c) : u = t
  BY LockInvIsolates DEF Isolation, Holds, Applied
<1>2. Applied(c) = {t}
  BY <1>1 DEF Applied
<1>3. (CHOOSE u \in Applied(c) : TRUE) = t
  BY <1>2
<1> QED BY <1>2, <1>3 DEF Settled

(* A cell stays settled when it keeps its value and those that applied it. *)
LEMMA SettledFrame ==
  ASSUME NEW c, df'[c] = df[c], Applied(c)' = Applied(c),
         \A t \in Applied(c) : req'[t] = req[t]
  PROVE  Settled(c)' = Settled(c)
<1>1. CASE Applied(c) = {}
  BY <1>1 DEF Settled
<1>2. CASE Applied(c) # {}
  <2> DEFINE t == CHOOSE u \in Applied(c) : TRUE
  <2>1. t \in Applied(c)
    BY <1>2
  <2>2. t' = t
    OBVIOUS
  <2>3. Settled(c) = req[t][c].old
    BY <1>2 DEF Settled
  <2>4. Settled(c)' = req'[t'][c].old
    BY <1>2 DEF Settled
  <2> QED BY <2>1, <2>2, <2>3, <2>4
<1> QED BY <1>1, <1>2

(* A step in which nobody enters or leaves the window between apply and append
   loses to the store the cells it makes dirty, and no other. *)
LEMMA AstrayFrame ==
  ASSUME NEW C, dirty' = dirty \cup C,
         \A c \in Cells \ dirty' : df'[c] = df[c],
         \A c \in Cells \ dirty' : Applied(c)' = Applied(c),
         \A c \in Cells \ dirty' : \A t \in Applied(c) : req'[t] = req[t]
  PROVE  Account' = [c \in DOMAIN Account \ C |-> Account[c]]
<1>1. \A c \in Cells \ dirty' : Settled(c)' = Settled(c)
  BY SettledFrame
<1>2. DOMAIN Account \ C = Cells \ dirty'
  BY DEF Account
<1>3. \A c \in Cells \ dirty' : Account[c] = Settled(c)
  BY DEF Account
<1>4. Account' = [c \in Cells \ dirty' |-> Settled(c)']
  BY DEF Account
<1> QED BY <1>1, <1>2, <1>3, <1>4

LEMMA AccountFrame ==
  ASSUME dirty' = dirty, df' = df,
         \A c \in Cells : Applied(c)' = Applied(c),
         \A c \in Cells : \A t \in Applied(c) : req'[t] = req[t]
  PROVE  Account' = Account
<1>1. Account' = [c \in DOMAIN Account \ {} |-> Account[c]]
  BY AstrayFrame
<1> QED BY <1>1 DEF Account

(* One caller moves in its place and nobody else does. *)
LEMMA PhaseMoves ==
  ASSUME TypeOK, NEW t \in Callers, NEW p \in Places, Goto(t, p)
  PROVE  /\ Phases' = [Phases EXCEPT ![t] = Phase(t)']
         /\ Phase(t)' = CASE p = "idle" -> "idle"
                          [] p \in {"validating", "locked", "committed"} -> "waiting"
                          [] p = "failing" -> "refused"
                          [] OTHER -> "answered"
<1>1. pc'[t] = p /\ \A u \in Callers \ {t} : pc'[u] = pc[u]
  BY DEF Goto, TypeOK
<1>2. \A u \in Callers \ {t} : Phase(u)' = Phase(u)
  BY <1>1 DEF Phase
<1> QED BY <1>1, <1>2 DEF Phases, Phase

(* The append of the entry of a caller that waited for it. *)
LEMMA Settles ==
  ASSUME TypeOK, LockInv, LogInv, NEW t \in Callers, pc[t] = "committed",
         NEW p \in {"logged", "failing", "releasing"}, Goto(t, p),
         UNCHANGED <<req, frameVars>>
  PROVE  /\ \A c \in DOMAIN req[t] : Applied(c)' = {}
         /\ \A c \in Cells : c \notin DOMAIN req[t] => Applied(c)' = Applied(c)
         /\ \A c \in DOMAIN req[t] \cap DOMAIN Account : Account[c] = req[t][c].old
         /\ dirty' = dirty =>
              Account' = [c \in DOMAIN Account |->
                            IF c \in DOMAIN req[t] THEN req[t][c].new ELSE Account[c]]
<1>1. pc'[t] = p /\ \A u \in Callers \ {t} : pc'[u] = pc[u]
  BY DEF Goto, TypeOK
<1>2. req' = req /\ df' = df
  BY DEF frameVars
<1>3. ASSUME NEW c \in DOMAIN req[t] PROVE Applied(c)' = {}
  <2>1. \A u \in Callers : u # t => ~(pc[u] = "committed" /\ c \in DOMAIN req[u])
    BY LockInvIsolates DEF Isolation, Holds
  <2> QED BY <1>1, <1>2, <2>1 DEF Applied
<1>4. ASSUME NEW c \in Cells, c \notin DOMAIN req[t] PROVE Applied(c)' = Applied(c)
  BY <1>1, <1>2, <1>4 DEF Applied
<1>5. ASSUME NEW c \in DOMAIN req[t] \cap DOMAIN Account
      PROVE  Account[c] = req[t][c].old
  BY SettledAtOld DEF Account
<1>6. ASSUME dirty' = dirty
      PROVE  Account' = [c \in DOMAIN Account |->
                           IF c \in DOMAIN req[t] THEN req[t][c].new ELSE Account[c]]
  <2>1. ASSUME NEW c \in Cells \ dirty, c \in DOMAIN req[t]
        PROVE  Settled(c)' = req[t][c].new
    <3>1. df[c] = req[t][c].new
      BY <2>1 DEF LogInv, AwaitsItsEntry
    <3> QED BY <1>2, <1>3, <2>1, <3>1 DEF Settled
  <2>2. ASSUME NEW c \in Cells \ dirty, c \notin DOMAIN req[t]
        PROVE  Settled(c)' = Account[c]
    <3>1. Settled(c)' = Settled(c)
      BY <1>2, <1>4, <2>2, SettledFrame
    <3> QED BY <2>2, <3>1 DEF Account
  <2>3. Account' = [c \in Cells \ dirty |-> Settled(c)']
    BY <1>6 DEF Account
  <2>4. DOMAIN Account = Cells \ dirty
    BY DEF Account
  <2> QED BY <2>1, <2>2, <2>3, <2>4
<1> QED BY <1>3, <1>4, <1>5, <1>6

LEMMA StoreInit == Init => Store!Init
<1> SUFFICES ASSUME Init PROVE Store!Init
  OBVIOUS
<1>1. \A t \in Callers : Phase(t) = "idle"
  BY DEF Init, Phase
<1>2. \A c \in Cells \ dirty : Settled(c) = Blank
  <2>1. \A c : Applied(c) = {}
    BY DEF Init, Applied
  <2> QED BY <2>1 DEF Init, Settled
<1>3. Cells \ dirty = Cells
  BY DEF Init
<1> QED BY <1>1, <1>2, <1>3 DEF Init, Store!Init

(* Each step of a caller, or outside transactions, is one of the store's. *)
LEMMA StoreStep ==
  TypeOK /\ LockInv /\ LogInv /\ [Next]_vars => [Store!Next]_(Store!vars)
<1> SUFFICES ASSUME TypeOK, LockInv, LogInv, [Next]_vars
             PROVE  Store!Next \/ UNCHANGED <<Phases, req, Account, wal>>
  BY DEF Store!vars, Phases, Account
<1> USE DEF lockVars
<1>1. ASSUME NEW t \in Callers, NEW r \in Requests, Submit(t, r) PROVE Store!Next
  <2>1. Phase(t) = "idle" /\ Phase(t)' = "waiting"
    BY <1>1, PhaseMoves DEF Submit, Phase, Places
  <2>2. Phases' = [Phases EXCEPT ![t] = "waiting"]
    BY <1>1, <2>1, PhaseMoves DEF Submit, Places
  <2>3. \A c \in Cells : Applied(c)' = Applied(c)
    BY <1>1 DEF Submit, Applied, Goto, TypeOK
  <2>4. \A c \in Cells : \A u \in Applied(c) : req'[u] = req[u]
    BY <1>1 DEF Submit, Applied, TypeOK
  <2>5. Account' = Account
    BY <1>1, <2>3, <2>4, AccountFrame DEF Submit, frameVars
  <2>6. Store!Ask(t, r)
    BY <1>1, <2>1, <2>2, <2>5 DEF Submit, Store!Ask, Store!Becomes, Phases, Account
  <2> QED BY <2>6 DEF Store!Next
<1>2. ASSUME NEW t \in Callers, Acquire(t) PROVE UNCHANGED <<Phases, req, Account, wal>>
  <2>1. Phases' = [Phases EXCEPT ![t] = "waiting"] /\ Phases[t] = "waiting"
    BY <1>2, PhaseMoves DEF Acquire, Places, Phases, Phase
  <2>2. \A c \in Cells : Applied(c)' = Applied(c)
    BY <1>2 DEF Acquire, Applied, Goto, TypeOK
  <2>3. Account' = Account
    BY <1>2, <2>2, AccountFrame DEF Acquire, frameVars
  <2> QED BY <1>2, <2>1, <2>3 DEF Acquire, Phases
<1>3. ASSUME NEW t \in Callers, LockConflict(t) PROVE Store!Next
  <2>1. Phases' = [Phases EXCEPT ![t] = "refused"] /\ Phases[t] = "waiting"
    BY <1>3, PhaseMoves DEF LockConflict, Places, Phases, Phase
  <2>2. \A c \in Cells : Applied(c)' = Applied(c)
    BY <1>3 DEF LockConflict, Applied, Goto, TypeOK
  <2>3. Account' = [c \in DOMAIN Account \ {} |-> Account[c]]
    BY <1>3, <2>2, AstrayFrame DEF LockConflict, frameVars
  <2>4. Store!Refuse(t)
    BY <1>3, <2>1, <2>3 DEF LockConflict, Store!Refuse, Store!Astray, Store!Becomes, Phases, Account
  <2> QED BY <2>4 DEF Store!Next
<1>4. ASSUME NEW t \in Callers, Apply(t) PROVE UNCHANGED <<Phases, req, Account, wal>>
  <2>1. Phases' = [Phases EXCEPT ![t] = "waiting"] /\ Phases[t] = "waiting"
    BY <1>4, PhaseMoves DEF Apply, Places, Phases, Phase
  <2>2. DOMAIN req[t] \subseteq Cells
    BY RequestCells DEF TypeOK
  <2>3. pc'[t] = "committed" /\ (\A u \in Callers \ {t} : pc'[u] = pc[u]) /\ req' = req
    BY <1>4 DEF Apply, Goto, TypeOK
  <2>4. ASSUME NEW c \in DOMAIN req[t] PROVE Settled(c)' = Settled(c)
    <3>1. \A u \in Callers : u # t => ~(pc[u] = "committed" /\ c \in DOMAIN req[u])
      BY <1>4, LockInvIsolates DEF Isolation, Holds, Apply
    <3>2. Applied(c) = {} /\ Applied(c)' = {t}
      BY <1>4, <2>3, <3>1 DEF Applied, Apply
    <3>3. df[c] = req[t][c].old
      BY <1>4 DEF Apply, Written, Matches
    <3>4. (CHOOSE u \in Applied(c)' : TRUE) = t
      BY <3>2
    <3> QED BY <2>3, <3>2, <3>3, <3>4 DEF Settled
  <2>5. ASSUME NEW c \in Cells, c \notin DOMAIN req[t] PROVE Settled(c)' = Settled(c)
    <3>1. Applied(c)' = Applied(c)
      BY <1>4, <2>3, <2>5 DEF Applied, Apply
    <3>2. df'[c] = df[c]
      BY <1>4, <2>5 DEF Apply, Written
    <3> QED BY <2>3, <3>1, <3>2, SettledFrame
  <2>6. Account' = Account
    BY <1>4, <2>4, <2>5 DEF Account, Apply
  <2> QED BY <1>4, <2>1, <2>6 DEF Apply, Phases
<1>5. ASSUME NEW t \in Callers, ApplyFails(t) PROVE Store!Next
  <2>1. Phases' = [Phases EXCEPT ![t] = "refused"] /\ Phases[t] = "waiting"
    BY <1>5, PhaseMoves DEF ApplyFails, Places, Phases, Phase
  <2>2. \A c \in Cells : Applied(c)' = Applied(c)
    BY <1>5 DEF ApplyFails, Applied, Goto, TypeOK
  <2>3. PICK C \in SUBSET DOMAIN req[t] :
          dirty' = dirty \cup C /\ \A c \in Cells \ C : df'[c] = df[c]
    BY <1>5 DEF ApplyFails, RolledBack, Leftovers
  <2>4. Account' = [c \in DOMAIN Account \ C |-> Account[c]]
    BY <1>5, <2>2, <2>3, AstrayFrame DEF ApplyFails
  <2>5. Store!Refuse(t)
    BY <1>5, <2>1, <2>3, <2>4 DEF ApplyFails, Store!Refuse, Store!Astray, Store!Becomes, Phases, Account
  <2> QED BY <2>5 DEF Store!Next
<1>6. ASSUME NEW t \in Callers, NEW p \in {"logged", "failing", "releasing"},
             pc[t] = "committed", Goto(t, p),
             wal' = Append(wal, [ops |-> req[t], state |-> "COMMITTED"]),
             UNCHANGED <<req, frameVars, dirty>>
      PROVE  Store!Next
  <2>1. Phases[t] = "waiting"
    BY <1>6 DEF Phases, Phase
  <2>2. Phase(t)' \in {"refused", "answered"} /\ Phases' = [Phases EXCEPT ![t] = Phase(t)']
    BY <1>6, PhaseMoves DEF Places
  <2>3. Account' = [c \in DOMAIN Account |->
                      IF c \in DOMAIN req[t] THEN req[t][c].new ELSE Account[c]]
    BY <1>6, Settles
  <2>4. \A c \in DOMAIN req[t] \cap DOMAIN Account : Account[c] = req[t][c].old
    BY <1>6, Settles
  <2>5. Store!Commit(t)
    BY <1>6, <2>1, <2>2, <2>3, <2>4
       DEF Store!Commit, Store!Answer, Store!Becomes, Phases, Account
  <2> QED BY <2>5 DEF Store!Next
<1>7. ASSUME NEW t \in Callers, LogCommitted(t) PROVE Store!Next
  BY <1>6, <1>7 DEF LogCommitted
<1>8. ASSUME NEW t \in Callers, NEW kept \in BOOLEAN, NEW caught \in BOOLEAN,
             LogRaises(t, kept, caught)
      PROVE  Store!Next
  <2>1. CASE kept
    BY <1>6, <1>8, <2>1 DEF LogRaises
  <2>2. CASE ~kept
    <3> DEFINE p == IF caught THEN "failing" ELSE "releasing"
    <3>1. pc[t] = "committed" /\ Goto(t, p) /\ UNCHANGED <<req, frameVars, wal>>
      BY <1>8, <2>2 DEF LogRaises
    <3>2. dirty' = dirty \cup DOMAIN req[t] /\ df' = df
      BY <1>8, <2>2 DEF LogRaises, frameVars
    <3>3. \A c \in Cells \ dirty' : Applied(c)' = Applied(c)
      BY <3>1, <3>2, Settles
    <3>4. Account' = [c \in DOMAIN Account \ DOMAIN req[t] |-> Account[c]]
      BY <3>1, <3>2, <3>3, AstrayFrame
    <3>5. Phases[t] = "waiting" /\ Phases' = [Phases EXCEPT ![t] = Phase(t)']
      BY <3>1, PhaseMoves DEF Phases, Phase, Places
    <3>6. CASE caught
      <4>1. Phase(t)' = "refused"
        BY <3>1, <3>6, PhaseMoves DEF Places
      <4>2. Store!Refuse(t)
        BY <3>1, <3>4, <3>5, <4>1 DEF Store!Refuse, Store!Astray, Store!Becomes, Phases, Account
      <4> QED BY <4>2 DEF Store!Next
    <3>7. CASE ~caught
      <4>1. Phase(t)' = "answered"
        BY <3>1, <3>7, PhaseMoves DEF Places
      <4>2. Store!Raise(t)
        BY <3>1, <3>4, <3>5, <4>1 DEF Store!Raise, Store!Astray, Store!Becomes, Phases, Account
      <4> QED BY <4>2 DEF Store!Next
    <3> QED BY <3>6, <3>7
  <2> QED BY <2>1, <2>2
<1>9. ASSUME NEW t \in Callers, LogRolledBack(t) PROVE Store!Next
  <2>1. Phases' = [Phases EXCEPT ![t] = "answered"] /\ Phases[t] = "refused"
    BY <1>9, PhaseMoves DEF LogRolledBack, Places, Phases, Phase
  <2>2. \A c \in Cells : Applied(c)' = Applied(c)
    BY <1>9 DEF LogRolledBack, Applied, Goto, TypeOK
  <2>3. Account' = Account
    BY <1>9, <2>2, AccountFrame DEF LogRolledBack, frameVars
  <2>4. Store!AnswerRefused(t)
    BY <1>9, <2>1, <2>3
       DEF LogRolledBack, Store!AnswerRefused, Store!Answer, Store!Becomes, Phases, Account
  <2> QED BY <2>4 DEF Store!Next
<1>10. ASSUME NEW t \in Callers, NEW kept \in BOOLEAN, LogRolledBackRaises(t, kept)
       PROVE  Store!Next
  <2>1. Phases' = [Phases EXCEPT ![t] = "answered"] /\ Phases[t] = "refused"
    BY <1>10, PhaseMoves DEF LogRolledBackRaises, Places, Phases, Phase
  <2>2. \A c \in Cells : Applied(c)' = Applied(c)
    BY <1>10 DEF LogRolledBackRaises, Applied, Goto, TypeOK
  <2>3. Account' = Account
    BY <1>10, <2>2, AccountFrame DEF LogRolledBackRaises, frameVars
  <2>4. CASE kept
    <3>1. Store!AnswerRefused(t)
      BY <1>10, <2>1, <2>3, <2>4
         DEF LogRolledBackRaises, Store!AnswerRefused, Store!Answer, Store!Becomes, Phases, Account
    <3> QED BY <3>1 DEF Store!Next
  <2>5. CASE ~kept
    <3>1. Store!RaiseRefused(t)
      BY <1>10, <2>1, <2>3, <2>5
         DEF LogRolledBackRaises, Store!RaiseRefused, Store!Becomes, Phases, Account
    <3> QED BY <3>1 DEF Store!Next
  <2> QED BY <2>4, <2>5
<1>11. ASSUME NEW t \in Callers, TestCursor(t) \/ SetCursor(t) \/ Sync(t)
       PROVE  UNCHANGED <<Phases, req, Account, wal>>
  <2>1. PICK p \in {"advancing", "syncing", "releasing"} : Goto(t, p)
    BY <1>11 DEF TestCursor, SetCursor, Sync, AfterCursor
  <2>2. Phases' = Phases
    <3>1. pc[t] \in {"logged", "advancing", "syncing"}
      BY <1>11 DEF TestCursor, SetCursor, Sync
    <3>2. Phases[t] = "answered"
      BY <3>1 DEF Phases, Phase
    <3>3. p \in Places
      BY <2>1 DEF Places
    <3>4. Phases' = [Phases EXCEPT ![t] = Phase(t)'] /\ pc'[t] = p
      BY <2>1, <3>3, PhaseMoves DEF Goto, TypeOK
    <3>5. Phase(t)' = "answered"
      BY <2>1, <3>4 DEF Phase
    <3> QED BY <3>2, <3>4, <3>5 DEF Phases
  <2>3. \A c \in Cells : Applied(c)' = Applied(c)
    BY <1>11, <2>1 DEF TestCursor, SetCursor, Sync, Applied, Goto, TypeOK
  <2>4. Account' = Account
    BY <1>11, <2>3, AccountFrame DEF TestCursor, SetCursor, Sync, frameVars
  <2> QED BY <1>11, <2>2, <2>4 DEF TestCursor, SetCursor, Sync
<1>12. ASSUME NEW t \in Callers, Release(t) PROVE Store!Next
  <2>1. Phases' = [Phases EXCEPT ![t] = "idle"] /\ Phases[t] = "answered"
    BY <1>12, PhaseMoves DEF Release, Places, Phases, Phase
  <2>2. \A c \in Cells : Applied(c)' = Applied(c)
    BY <1>12 DEF Release, Applied, Goto, TypeOK
  <2>3. \A c \in Cells : \A u \in Applied(c) : req'[u] = req[u]
    BY <1>12 DEF Release, Applied, TypeOK
  <2>4. Account' = Account
    BY <1>12, <2>2, <2>3, AccountFrame DEF Release, frameVars
  <2>5. Store!Return(t)
    BY <1>12, <2>1, <2>4 DEF Release, Store!Return, Store!Becomes, Phases, Account
  <2> QED BY <2>5 DEF Store!Next
<1>13. ASSUME NEW r \in Requests,
              SubmitNonTransactional(r) \/ SubmitNonTransactionalFails(r)
       PROVE  Store!Next
  <2>1. PICK C \in SUBSET DOMAIN r : dirty' = dirty \cup C /\ \A c \in Cells \ C : df'[c] = df[c]
    BY <1>13 DEF SubmitNonTransactional, SubmitNonTransactionalFails, Written, RolledBack,
                 Leftovers
  <2>2. UNCHANGED <<pc, req, wal>> /\ Unlogged
    BY <1>13 DEF SubmitNonTransactional, SubmitNonTransactionalFails
  <2>3. \A c \in Cells : Applied(c)' = Applied(c)
    BY <2>2 DEF Applied
  <2>4. Account' = [c \in DOMAIN Account \ C |-> Account[c]]
    BY <2>1, <2>2, <2>3, AstrayFrame
  <2>5. Phases' = Phases
    BY <2>2 DEF Phases, Phase
  <2>6. Store!WriteOutside(r)
    BY <2>1, <2>2, <2>4, <2>5 DEF Store!WriteOutside, Store!Astray, Phases, Account
  <2> QED BY <2>6 DEF Store!Next
<1>14. CASE UNCHANGED vars
  <2>1. UNCHANGED <<pc, req, wal, dirty, df>>
    BY <1>14 DEF vars, frameVars
  <2>2. \A c \in Cells : Applied(c)' = Applied(c)
    BY <2>1 DEF Applied
  <2>3. Account' = Account
    BY <2>1, <2>2, AccountFrame
  <2> QED BY <2>1, <2>3 DEF Phases, Phase
<1> QED
  BY <1>1, <1>2, <1>3, <1>4, <1>5, <1>7, <1>8, <1>9, <1>10, <1>11, <1>12, <1>13, <1>14
     DEF Next, Step, Quiet

(* The threads of submit, their locks, the write node and the log together
   behave as a store that decides one transaction at a time. *)
THEOREM TxCoordinatorImplementsStore == Spec => ImplementsStore
<1>1. Spec => [](TypeOK /\ LockInv /\ LogInv)
  BY TypeInit, TypeStep, LockInit, LockStep, LogInit, LogStep, PTL DEF Spec
<1> QED BY <1>1, StoreInit, StoreStep, PTL DEF Spec, ImplementsStore, Store!Spec
=============================================================================
