----------------------------- MODULE Membership -----------------------------
(***************************************************************************)
(* What one node believes of the cluster: its registry of nodes with their *)
(* status and their share of the rows (src/core/sqlite_registry.py), the   *)
(* heartbeat manager that judges the silent ones (src/core/heartbeat.py),  *)
(* and the updates a leader sends (src/core/cluster_runtime.py).           *)
(*                                                                         *)
(* How long a node was not heard is 0 (within timeout_s), 1 (past it) or 2 *)
(* (past timeout_s * suspect_multiplier).  A round of checks reads every   *)
(* last_seen first and then judges one node after the other, waiting in    *)
(* between for the watchers it notifies.                                   *)
(***************************************************************************)
EXTENDS Integers, FiniteSets, FiniteSetsExt, Functions

CONSTANTS
  Writers, Readers, \* node ids, numbers because ids are ordered
  Me,               \* the node whose registry this is
  Weight,           \* partition weight of each writer
  Total,            \* _PARTITION_TOTAL
  Debounced,        \* whether suspect_rebalance_debounce_s is set
  MaxJoins,         \* bound: how often nodes are registered
  MaxMaps,          \* bound: how many partition maps the leader sends
  Nobody            \* no node is being told of

Nodes == Writers \cup Readers

ASSUME RolesDisjoint == Writers \cap Readers = {} /\ Nodes \subseteq Nat /\ Me \in Nodes
ASSUME WeightsAreNat == Weight \in [Writers -> Nat]
ASSUME SlotsSuffice == IsFiniteSet(Writers) /\ Total \in Nat /\ Cardinality(Writers) <= Total
ASSUME BoundsAreNat == MaxJoins \in Nat /\ MaxMaps \in Nat /\ Debounced \in BOOLEAN

VARIABLES
  up,      \* whether a node sends heartbeats
  status,  \* registry: the status of a node, "absent" without a row
  age,     \* registry: how old last_seen is
  range,   \* registry: partition_start and partition_end
  known,   \* _node_states
  since,   \* _suspect_since: not set, set, or set longer ago than the debounce
  judged,  \* whether a round began since the age of a node changed
  todo,    \* the nodes this round has still to judge, with the age it read
  telling, \* the transition whose watchers are being told
  map,     \* history: the writers of the last partition map, and whose it was
  joins, maps \* the bounds used up

vars == <<up, status, age, range, known, since, judged, todo, telling, map, joins, maps>>
registry == <<status, age, range, map>>
manager == <<known, since, todo, telling>>

Statuses == {"healthy", "suspect", "failed"}

ASSUME NobodyIsNone == Nobody \notin Nodes \X Statuses

TypeOK ==
  /\ up \in [Nodes -> BOOLEAN]
  /\ status \in [Nodes -> Statuses \cup {"absent"}]
  /\ age \in [Nodes -> 0..2]
  /\ range \in [Writers -> (0..Total) \X (0..Total)]
  /\ \A w \in Writers : range[w][1] <= range[w][2]
  /\ known \in [Nodes -> Statuses]
  /\ since \in [Nodes -> {"unset", "set", "over"}]
  /\ judged \in [Nodes -> BOOLEAN]
  /\ todo \subseteq Nodes \X (0..2)
  /\ \A x, y \in todo : x[1] = y[1] => x = y
  /\ telling \in (Nodes \X Statuses) \cup {Nobody}
  /\ map \in [of : SUBSET Writers, by : {"own", "leader"}]
  /\ joins \in 0..MaxJoins /\ maps \in 0..MaxMaps

-----------------------------------------------------------------------------
(* Broken variants of the definitions below. *)

(* Only a writer that failed gives its rows away. *)
RebalanceOnFailure(n, s) == n \in Writers /\ s = "failed"

(* The entries that are known are applied, the others skipped. *)
AcceptableKnownOnly(ws) == TRUE

(* Also the readers that are suspected are no candidates any more. *)
CandidatesHealthy == {n \in Nodes \ {Me} : status[n] = "healthy"}

(* A round does not wait for the one before it. *)
BeginRoundAgain ==
  /\ telling = Nobody
  /\ todo' = todo \cup {<<n, age[n]>> : n \in Nodes \ {Me}}
  /\ judged' = [n \in Nodes |-> TRUE]
  /\ UNCHANGED <<up, registry, known, since, telling, joins, maps>>

(* The verdict is remembered although the registry was not reached. *)
TransitionUnmarked(n, s) ==
  /\ telling' = <<n, s>>
  /\ UNCHANGED registry

(* Nothing is remembered of a node that failed. *)
RememberUnlessFailed(n, s) == [known EXCEPT ![n] = IF s = "failed" THEN "healthy" ELSE s]

-----------------------------------------------------------------------------
(* The shares: weight in proportion, rounded half to even, at least one slot,
   and at least one for every writer that follows; the last takes the rest. *)
Rounded(a, b) ==
  LET q == a \div b
      r == a % b
  IN IF 2 * r > b \/ (2 * r = b /\ q % 2 = 1) THEN q + 1 ELSE q

Share(w, ws) ==
  LET total == IF SumFunctionOnSet(Weight, ws) = 0 THEN Cardinality(ws) ELSE SumFunctionOnSet(Weight, ws)
      share == Rounded(Weight[w] * Total, total)
  IN IF share = 0 THEN 1 ELSE share

(* Where the range of w ends, the writers taken in the order of their ids. *)
Ends(ws) ==
  LET End[w \in ws] ==
        LET before == {v \in ws : v < w}
            after == {v \in ws : v > w}
            start == IF before = {} THEN 0 ELSE End[Max(before)]
        IN IF after = {} THEN Total
           ELSE start + Min({Share(w, ws), Total - start - Cardinality(after)})
  IN End

Bounds(ws) ==
  [w \in ws |-> LET before == {v \in ws : v < w}
                IN <<IF before = {} THEN 0 ELSE Ends(ws)[Max(before)], Ends(ws)[w]>>]

Healthy(st) == {w \in Writers : st[w] = "healthy"}

Overwrite(f, g) == [x \in DOMAIN f |-> IF x \in DOMAIN g THEN g[x] ELSE f[x]]

(* _rebalance_partitions after the statuses became st; no writer, no change. *)
Rebalance(st) ==
  IF Healthy(st) = {} THEN UNCHANGED <<range, map>>
  ELSE /\ range' = Overwrite(range, Bounds(Healthy(st)))
       /\ map' = [of |-> Healthy(st), by |-> "own"]

-----------------------------------------------------------------------------
(* The node has registered itself. *)
Init ==
  /\ up = [n \in Nodes |-> TRUE]
  /\ status = [n \in Nodes |-> IF n = Me THEN "healthy" ELSE "absent"]
  /\ age = [n \in Nodes |-> 0]
  /\ range = [w \in Writers |-> IF w = Me THEN <<0, Total>> ELSE <<0, 0>>]
  /\ known = [n \in Nodes |-> "healthy"]
  /\ since = [n \in Nodes |-> "unset"]
  /\ judged = [n \in Nodes |-> FALSE]
  /\ todo = {}
  /\ telling = Nobody
  /\ map = [of |-> {Me} \cap Writers, by |-> "own"]
  /\ joins = 0 /\ maps = 0

Silence(n) ==
  /\ n # Me /\ up[n]
  /\ up' = [up EXCEPT ![n] = FALSE]
  /\ UNCHANGED <<registry, manager, judged, joins, maps>>

Return(n) ==
  /\ ~up[n]
  /\ up' = [up EXCEPT ![n] = TRUE]
  /\ UNCHANGED <<registry, manager, judged, joins, maps>>

(* Time passes.  A round begins at least once in every timeout_s: by default it is
   three intervals, and a round that waits for its broadcast takes as long. *)
Ages(n) ==
  /\ n # Me
  /\ status[n] # "absent"
  /\ age[n] < 2 /\ judged[n]
  /\ age' = [age EXCEPT ![n] = @ + 1]
  /\ judged' = [judged EXCEPT ![n] = FALSE]
  /\ UNCHANGED <<up, status, range, map, manager, joins, maps>>

(* A heartbeat or its acknowledgement: update_lsn, whatever the status. *)
Beat(n) ==
  /\ n # Me /\ up[n]
  /\ status[n] # "absent"
  /\ age' = [age EXCEPT ![n] = 0]
  /\ judged' = [judged EXCEPT ![n] = FALSE]
  /\ UNCHANGED <<up, status, range, map, manager, joins, maps>>

(* register with status healthy: a node that starts, or a member of a
   MEMBERSHIP_UPDATE, down or not. *)
Register(n) ==
  /\ n # Me
  /\ joins < MaxJoins /\ joins' = joins + 1
  /\ status' = [status EXCEPT ![n] = "healthy"]
  /\ age' = [age EXCEPT ![n] = 0]
  /\ judged' = [judged EXCEPT ![n] = FALSE]
  /\ IF n \in Writers THEN Rebalance(status') ELSE UNCHANGED <<range, map>>
  /\ UNCHANGED <<up, manager, maps>>

(* ROUTE_UPDATE: the leader's map of the writers it finds healthy; one that
   names a writer this registry has no row of is refused as a whole. *)
Acceptable(ws) == \A w \in ws : status[w] # "absent"

RouteUpdate(ws) ==
  /\ maps < MaxMaps /\ maps' = maps + 1
  /\ IF Acceptable(ws)
     THEN /\ range' = [w \in Writers |->
                         IF w \in ws /\ status[w] # "absent" THEN Bounds(ws)[w] ELSE range[w]]
          /\ map' = [of |-> ws, by |-> "leader"]
     ELSE UNCHANGED <<range, map>>
  /\ UNCHANGED <<up, status, age, judged, manager, joins>>

(* The candidates of a round: readers that did not fail, healthy writers. *)
Candidates ==
  {n \in Nodes \ {Me} : status[n] = "healthy" \/ (n \in Readers /\ status[n] = "suspect")}

BeginRound ==
  /\ todo = {} /\ telling = Nobody
  /\ todo' = {<<n, age[n]>> : n \in Candidates}
  /\ judged' = [n \in Nodes |-> TRUE]
  /\ UNCHANGED <<up, registry, known, since, telling, joins, maps>>

(* Whether the change of n to status s moves rows. *)
MovesRows(n, s) == s = "failed" \/ n \in Writers

(* mark_failed, mark_suspect, mark_healthy: also last_seen is set.  The last two
   do nothing when the status is that already. *)
Mark(n, s) ==
  IF s # "failed" /\ status[n] = s THEN UNCHANGED registry
  ELSE /\ status' = [status EXCEPT ![n] = s]
       /\ age' = [age EXCEPT ![n] = 0]
       /\ IF MovesRows(n, s) THEN Rebalance(status') ELSE UNCHANGED <<range, map>>

(* _transition_status, up to the watchers' answer and after it. *)
Transition(n, s) ==
  IF known[n] = s THEN UNCHANGED <<registry, telling>>
  ELSE Mark(n, s) /\ telling' = <<n, s>>

Remember(n, s) == [known EXCEPT ![n] = s]

Told ==
  /\ telling # Nobody
  /\ known' = Remember(telling[1], telling[2])
  /\ since' = IF telling[2] = "suspect" THEN since
              ELSE [since EXCEPT ![telling[1]] = "unset"]
  /\ telling' = Nobody
  /\ UNCHANGED <<up, registry, judged, todo, joins, maps>>

Judge(x) ==
  LET n == x[1]
      takes == todo' = todo \ {x}
  IN
  /\ x \in todo /\ telling = Nobody
  /\ takes
  /\ \/ /\ x[2] = 2
        /\ Transition(n, "failed")
        /\ UNCHANGED since
     \/ /\ x[2] = 1
        /\ since' = [since EXCEPT ![n] = IF @ = "unset" THEN "set" ELSE @]
        /\ IF Debounced /\ since[n] # "over" THEN UNCHANGED <<registry, telling>>
           ELSE Transition(n, "suspect")
     \/ /\ x[2] = 0
        /\ since' = [since EXCEPT ![n] = "unset"]
        /\ Transition(n, "healthy")
  /\ judged' = [judged EXCEPT ![n] = @ /\ age'[n] = age[n]]
  /\ UNCHANGED <<up, known, joins, maps>>

(* suspect_rebalance_debounce_s is over. *)
DebounceEnds(n) ==
  /\ Debounced /\ since[n] = "set"
  /\ since' = [since EXCEPT ![n] = "over"]
  /\ UNCHANGED <<up, registry, known, judged, todo, telling, joins, maps>>

Next ==
  \/ \E n \in Nodes :
       Silence(n) \/ Return(n) \/ Ages(n) \/ Beat(n) \/ Register(n) \/ DebounceEnds(n)
  \/ \E ws \in SUBSET Writers \ {{}} : RouteUpdate(ws)
  \/ BeginRound
  \/ \E x \in todo : Judge(x)
  \/ Told

(* The heartbeat loop runs, watchers return, time passes for whoever is silent,
   and who is not is heard. *)
Fairness ==
  /\ WF_vars(BeginRound)
  /\ WF_vars(\E x \in todo : Judge(x))
  /\ WF_vars(Told)
  /\ \A n \in Nodes :
       /\ WF_vars(~up[n] /\ Ages(n))
       /\ WF_vars(age[n] > 0 /\ Beat(n))
       /\ WF_vars(DebounceEnds(n))

Spec == Init /\ [][Next]_vars /\ Fairness
-----------------------------------------------------------------------------
Owners(slot, ws) == {w \in ws : range[w][1] <= slot /\ slot < range[w][2]}

(* The last partition map, the node's own or the leader's, is in force as a whole:
   every row has exactly one owner in it and every writer of it owns some. *)
MapIsWhole ==
  map.of # {} =>
    /\ \A slot \in 0..(Total - 1) : Cardinality(Owners(slot, map.of)) = 1
    /\ \A w \in map.of : range[w][1] < range[w][2]

(* Unless the leader's map came since, the rows are shared among the healthy
   writers: none that is suspected or failed keeps rows, none that healed goes
   without (_rebalance_partitions at every change of a writer). *)
HealthyOwn ==
  (map.by = "own" /\ Healthy(status) # {}) => map.of = Healthy(status)

(* The manager's memory and the registry: a node the registry does not hold
   healthy is one the manager remembers so, or is telling the watchers of.  A
   node it had forgotten would stay as it is for good, since a verdict that
   equals the memory is not acted on. *)
StatusIsKnown ==
  \A n \in Nodes : status[n] \in {"suspect", "failed"} =>
    known[n] = status[n] \/ telling = <<n, status[n]>>

(* A node that fell silent does not stay healthy, whatever was heard, registered
   and judged before. *)
SilentIsNoticed ==
  \A n \in Nodes \ {Me} :
    <>[](~up[n] /\ status[n] # "absent") => []<>(status[n] # "healthy")

(* A reader that is heard and was not given up is healthy time and again. *)
HeardReaderHeals ==
  \A n \in Readers \ {Me} :
    <>[](up[n] /\ status[n] \in {"healthy", "suspect"}) => []<>(status[n] = "healthy")
=============================================================================
