---------------------------- MODULE AtomicStore ----------------------------
(***************************************************************************)
(* What TransactionCoordinator.submit promises its callers, without saying *)
(* how: a store that decides one transaction at a time.  In a single step  *)
(* it compares all the cells of a request with the old values the caller   *)
(* expects, writes all the new ones and puts the transaction into the      *)
(* history, or it refuses.  There are no locks here, no write node beside  *)
(* a log, and no time between the two.  TxCoordinator implements it.       *)
(*                                                                         *)
(* The store speaks of the cells it keeps account of.  A cell goes astray  *)
(* when a write of it could not be logged, when it is written outside      *)
(* transactions, or when a refused transaction spoils it: the store loses  *)
(* it for good.                                                            *)
(***************************************************************************)
EXTENDS Integers, Sequences

CONSTANTS
  Callers,   \* who submits
  Cells,     \* what can be written
  Blank,     \* the value of a cell nobody has written
  Requests,  \* functions from cells to [old, new]
  NoOps,     \* the request of a caller without one
  Unlogged   \* whether there are writes outside transactions

VARIABLES
  phase,     \* of each caller: idle, waiting, refused or answered
  req,       \* the request of each caller
  store,     \* the value of each cell that is not astray
  history    \* the answers in the order in which they were given

vars == <<phase, req, store, history>>

Init ==
  /\ phase = [t \in Callers |-> "idle"]
  /\ req = [t \in Callers |-> NoOps]
  /\ store = [c \in Cells |-> Blank]
  /\ history = <<>>

Becomes(t, p) == phase' = [phase EXCEPT ![t] = p]

Answer(r, state) == history' = Append(history, [ops |-> r, state |-> state])

Astray(C) == store' = [c \in DOMAIN store \ C |-> store[c]]

Ask(t, r) ==
  /\ phase[t] = "idle"
  /\ req' = [req EXCEPT ![t] = r]
  /\ Becomes(t, "waiting")
  /\ UNCHANGED <<store, history>>

(* All the cells are as expected, and all of them change, and the transaction
   is in the history, at once.  A log that fails after it took the entry leaves
   the caller to be refused all the same. *)
Commit(t) ==
  /\ phase[t] = "waiting"
  /\ \A c \in DOMAIN req[t] \cap DOMAIN store : store[c] = req[t][c].old
  /\ store' = [c \in DOMAIN store |->
                 IF c \in DOMAIN req[t] THEN req[t][c].new ELSE store[c]]
  /\ Answer(req[t], "COMMITTED")
  /\ Becomes(t, "answered") \/ Becomes(t, "refused")
  /\ UNCHANGED req

(* A refusal changes no cell; it may lose some, but only of its own. *)
Refuse(t) ==
  /\ phase[t] = "waiting"
  /\ \E C \in SUBSET DOMAIN req[t] : Astray(C)
  /\ Becomes(t, "refused")
  /\ UNCHANGED <<req, history>>

AnswerRefused(t) ==
  /\ phase[t] = "refused"
  /\ Answer(req[t], "ROLLED_BACK")
  /\ Becomes(t, "answered")
  /\ UNCHANGED <<req, store>>

(* The call raises instead of answering: what it wrote without an entry to
   show for it is lost. *)
Raise(t) ==
  /\ phase[t] = "waiting"
  /\ Astray(DOMAIN req[t])
  /\ Becomes(t, "answered")
  /\ UNCHANGED <<req, history>>

(* Not even the refusal can be logged. *)
RaiseRefused(t) ==
  /\ phase[t] = "refused"
  /\ Becomes(t, "answered")
  /\ UNCHANGED <<req, store, history>>

Return(t) ==
  /\ phase[t] = "answered"
  /\ req' = [req EXCEPT ![t] = NoOps]
  /\ Becomes(t, "idle")
  /\ UNCHANGED <<store, history>>

(* Outside transactions a write loses the cells it reached. *)
WriteOutside(r) ==
  /\ Unlogged
  /\ \E C \in SUBSET DOMAIN r : Astray(C)
  /\ UNCHANGED <<phase, req, history>>

Next ==
  \/ \E t \in Callers :
       \/ \E r \in Requests : Ask(t, r)
       \/ Commit(t)
       \/ Refuse(t)
       \/ AnswerRefused(t)
       \/ Raise(t)
       \/ RaiseRefused(t)
       \/ Return(t)
  \/ \E r \in Requests : WriteOutside(r)

Spec == Init /\ [][Next]_vars
=============================================================================
