----------------------------- MODULE Leadership -----------------------------
(***************************************************************************)
(* Who leads the cluster (src/core/cluster_runtime.py): one node is        *)
(* configured as the leader, another can be promoted by hand, whoever led  *)
(* announces itself in MEMBERSHIP_UPDATEs, and a node follows the last one *)
(* it heard.  Only the leader accepts writes (TransactionCoordinator.      *)
(* submit) and records metadata operations, which the others pull or, when *)
(* they are far behind, take as a whole (src/core/op_log.py).              *)
(***************************************************************************)
EXTENDS Integers, FiniteSets

CONSTANTS
  Nodes,
  Chief,           \* the node configured with is_leader
  ResyncThreshold, \* full_resync_threshold_ops
  MaxPromotions, MaxRestarts, MaxRecords, \* bounds
  NoUpdate         \* nothing on its way between two nodes

ASSUME ChiefIsNode == Chief \in Nodes
ASSUME BoundsAreNat == {ResyncThreshold, MaxPromotions, MaxRestarts, MaxRecords} \subseteq Nat

VARIABLES
  leads,     \* config.is_leader
  leader,    \* config.leader_node_id
  writesTo,  \* coordinator._leader_node_id
  announces, \* whether _leader_broadcast_task runs
  epoch, seq, \* op_meta
  log,       \* the acknowledged operations, as <<epoch, number, origin>>
  link,      \* the MEMBERSHIP_UPDATE on its way from one node to another
  records,   \* history: every operation a leader recorded
  promotions, restarts \* the bounds used up

config == <<leads, leader, writesTo, announces>>
oplog == <<epoch, seq, log, records>>
vars == <<config, oplog, link, promotions, restarts>>

Op == Nat \X Nat \X Nodes
Id == Nat \X Nat

TypeOK ==
  /\ leads \in [Nodes -> BOOLEAN]
  /\ leader \in [Nodes -> Nodes]
  /\ writesTo \in [Nodes -> Nodes]
  /\ announces \in [Nodes -> BOOLEAN]
  /\ epoch \in [Nodes -> Nat] /\ seq \in [Nodes -> 0..MaxRecords]
  /\ log \in [Nodes -> SUBSET Op]
  /\ \A n \in Nodes : \A x, y \in log[n] : (x[1] = y[1] /\ x[2] = y[2]) => x = y
  /\ link \in [Nodes \X Nodes -> Id \cup {NoUpdate}]
  /\ records \subseteq Op
  /\ promotions \in 0..MaxPromotions /\ restarts \in 0..MaxRestarts

-----------------------------------------------------------------------------
(* Broken variants of the definitions below. *)

(* Before the fix marked B4: the coordinator is not told. *)
FollowInConfigOnly(n, s) ==
  /\ leads' = [leads EXCEPT ![n] = FALSE]
  /\ leader' = [leader EXCEPT ![n] = s]
  /\ UNCHANGED <<writesTo, announces>>

(* A node that leads does not listen to another leader. *)
HearsFollowersOnly(n, s) == ~leads[n]

(* The id is no primary key. *)
FreeAlways(n, id) == TRUE

-----------------------------------------------------------------------------
IdOf(op) == <<op[1], op[2]>>
Before(i, j) == i[1] < j[1] \/ (i[1] = j[1] /\ i[2] < j[2])

(* get_last_acked_op_id, <<0, 0>> for None. *)
LastAcked(l) ==
  IF l = {} THEN <<0, 0>>
  ELSE IdOf(CHOOSE x \in l : \A y \in l : ~Before(IdOf(x), IdOf(y)))

Free(n, id) == \A x \in log[n] : IdOf(x) # id

Init ==
  /\ leads = [n \in Nodes |-> n = Chief]
  /\ leader = [n \in Nodes |-> Chief]
  /\ writesTo = [n \in Nodes |-> Chief]
  /\ announces = [n \in Nodes |-> n = Chief]
  /\ epoch = [n \in Nodes |-> IF n = Chief THEN 1 ELSE 0]
  /\ seq = [n \in Nodes |-> 0]
  /\ log = [n \in Nodes |-> {}]
  /\ link = [p \in Nodes \X Nodes |-> NoUpdate]
  /\ records = {}
  /\ promotions = 0 /\ restarts = 0

(* broadcast, to every peer; one that is not connected is skipped, which is an
   update lost.  Bound: one update on its way between two nodes. *)
Broadcast(n, last) ==
  link' = [p \in Nodes \X Nodes |->
             IF p[1] = n /\ p[2] # n /\ link[p] = NoUpdate THEN last ELSE link[p]]

(* _record_metadata_op; an id that is taken raises, which is logged. *)
Appended(n, e) ==
  LET op == <<e, seq[n] + 1, n>>
  IN /\ seq' = [seq EXCEPT ![n] = @ + 1]
     /\ IF Free(n, IdOf(op))
        THEN log' = [log EXCEPT ![n] = @ \cup {op}] /\ records' = records \cup {op}
        ELSE UNCHANGED <<log, records>>

Record(n) ==
  /\ leads[n]
  /\ seq[n] < MaxRecords
  /\ Appended(n, epoch[n])
  /\ UNCHANGED <<config, epoch, link, promotions, restarts>>

(* promote_to_leader; its own broadcast carries no last operation. *)
Promote(n) ==
  /\ promotions < MaxPromotions /\ promotions' = promotions + 1
  /\ seq[n] < MaxRecords
  /\ leads' = [leads EXCEPT ![n] = TRUE]
  /\ leader' = [leader EXCEPT ![n] = n]
  /\ writesTo' = [writesTo EXCEPT ![n] = n]
  /\ epoch' = [epoch EXCEPT ![n] = @ + 1]
  /\ Appended(n, epoch[n] + 1)
  /\ Broadcast(n, <<0, 0>>)
  /\ announces' = [announces EXCEPT ![n] = TRUE]
  /\ UNCHANGED restarts

(* A turn of _leader_broadcast_loop, which nothing stops when its node no longer
   leads.  The answer to a JOIN, which only a node that leads gives, is the same
   update to one peer. *)
Announce(n) ==
  /\ announces[n]
  /\ Broadcast(n, LastAcked(log[n]))
  /\ UNCHANGED <<config, oplog, promotions, restarts>>

(* _handle_membership_update: the node follows the sender. *)
Follow(n, s) ==
  /\ leads' = [leads EXCEPT ![n] = FALSE]
  /\ leader' = [leader EXCEPT ![n] = s]
  /\ writesTo' = [writesTo EXCEPT ![n] = s]
  /\ UNCHANGED announces

Gap(mine, theirs) ==
  IF theirs[1] > mine[1] THEN ResyncThreshold + 1 ELSE theirs[2] - mine[2]

FarBehind(n, theirs) ==
  LET mine == LastAcked(log[n])
  IN theirs # <<0, 0>> /\ (mine = <<0, 0>> \/ Gap(mine, theirs) > ResyncThreshold)

(* full_resync_from_leader: a leader's database is taken with its number and
   epoch; a node that does not lead answers with no operations at all, and those
   replace the node's own. *)
FullResync(n, s) ==
  /\ log' = [log EXCEPT ![n] = IF leads[s] THEN log[s] ELSE {}]
  /\ IF leads[s] THEN seq' = [seq EXCEPT ![n] = seq[s]] /\ epoch' = [epoch EXCEPT ![n] = epoch[s]]
     ELSE UNCHANGED <<seq, epoch>>
  /\ UNCHANGED records

Hears(n, s) == TRUE

HandleUpdate(n, s) ==
  /\ link[<<s, n>>] # NoUpdate
  /\ link' = [link EXCEPT ![<<s, n>>] = NoUpdate]
  /\ IF Hears(n, s) THEN Follow(n, s) ELSE UNCHANGED config
  /\ IF FarBehind(n, link[<<s, n>>]) THEN FullResync(n, s) ELSE UNCHANGED oplog
  /\ UNCHANGED <<promotions, restarts>>

(* The connection breaks with the update on it. *)
Lose(n, s) ==
  /\ link[<<s, n>>] # NoUpdate
  /\ link' = [link EXCEPT ![<<s, n>>] = NoUpdate]
  /\ UNCHANGED <<config, oplog, promotions, restarts>>

(* The sync loop's pull; a node that does not lead has nothing to send. *)
Pull(n) ==
  /\ leader[n] # n
  /\ leads[leader[n]]
  /\ log' = [log EXCEPT ![n] = @ \cup {x \in log[leader[n]] : Before(LastAcked(@), IdOf(x))}]
  /\ UNCHANGED <<config, epoch, seq, records, link, promotions, restarts>>

(* A node starts again with its database, its configuration naming node l as the
   leader: the chief, or the one the operator puts there after a failover. *)
Restart(n, l) ==
  /\ l = Chief \/ (leads[l] /\ l # n)
  /\ restarts < MaxRestarts /\ restarts' = restarts + 1
  /\ leads' = [leads EXCEPT ![n] = n = l]
  /\ leader' = [leader EXCEPT ![n] = l]
  /\ writesTo' = [writesTo EXCEPT ![n] = l]
  /\ announces' = [announces EXCEPT ![n] = n = l]
  /\ link' = [p \in Nodes \X Nodes |-> IF n \in {p[1], p[2]} THEN NoUpdate ELSE link[p]]
  /\ UNCHANGED <<oplog, promotions>>

Next ==
  \/ \E n \in Nodes :
       \/ Record(n)
       \/ Promote(n)
       \/ Announce(n)
       \/ Pull(n)
       \/ \E l \in Nodes : Restart(n, l)
       \/ \E s \in Nodes : HandleUpdate(n, s) \/ Lose(n, s)

(* A broadcast loop runs for ever, and not every update between two nodes is lost. *)
Fairness ==
  \A n \in Nodes :
    /\ WF_vars(Announce(n))
    /\ \A s \in Nodes \ {n} : SF_vars(HandleUpdate(n, s))

Spec == Init /\ [][Next]_vars /\ Fairness
-----------------------------------------------------------------------------
Writes(n) == writesTo[n] = n

(* A split brain ends: when promotions and restarts do, at most one node is left
   that accepts writes, and no later announcement makes a second one. *)
WritersSettle == <>[](\A m, n \in Nodes : Writes(m) /\ Writes(n) => m = n)

(* When only one node is left announcing itself, every other ends up following it,
   whatever was promoted, heard, lost and restarted before. *)
OneAnnouncerIsFollowed ==
  \A n \in Nodes :
    <>[](\A m \in Nodes : announces[m] <=> m = n) => <>[](\A m \in Nodes \ {n} : writesTo[m] = n)

(* docs/full-tcp-static-draft.md:149: every operation has a unique op_id, made of
   the leader's epoch and a number: no two operations that leaders recorded have
   the same one. *)
OpIdsAreUnique == \A x, y \in records : IdOf(x) = IdOf(y) => x = y
=============================================================================
